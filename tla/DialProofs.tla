----------------------------- MODULE DialProofs -----------------------------
(***************************************************************************)
(* Proofs about Dial for every budget, floor and set of addresses: at most *)
(* one endpoint is open at a time, and resolution and handshakes together  *)
(* stay within CONNECT_BUDGET.                                             *)
(***************************************************************************)
EXTENDS Dial, TLAPS

LEMMA TimesMonotone ==
  ASSUME NEW i \in Nat, NEW n \in Nat, NEW b \in Nat, i <= n
  PROVE  i * b <= n * b /\ i * b \in Nat
<1>1. PICK d \in Nat : n = i + d
  BY n - i \in Nat /\ n = i + (n - i)
<1>2. n * b = i * b + d * b
  BY <1>1
<1>3. i * b \in Nat /\ d * b \in Nat
  BY <1>1
<1> QED
  BY <1>2, <1>3

(* What division by the number of attempts gives.                          *)
LEMMA Quotient ==
  ASSUME NEW h \in Nat, NEW n \in Nat \ {0}
  PROVE  /\ h \div n \in Nat
         /\ n * (h \div n) <= h
         /\ \A m \in Nat : n * m <= h => m <= h \div n
OBVIOUS

(* dial_plan, for any number of candidates.                                *)
LEMMA PlanLemma ==
  ASSUME NEW count \in Nat
  PROVE  /\ Attempts(count) \in Nat \ {0}
         /\ AttemptBudget(count) \in Nat
         /\ Attempts(count) * AttemptBudget(count) <= HANDSHAKE_TIMEOUT
         /\ AttemptBudget(count) >= MIN_ATTEMPT
         /\ count = 1 => AttemptBudget(count) = HANDSHAKE_TIMEOUT
<1>1. HANDSHAKE_TIMEOUT \in Nat /\ MIN_ATTEMPT \in Nat \ {0}
      /\ MIN_ATTEMPT <= HANDSHAKE_TIMEOUT
  BY BudgetAssumption DEF HANDSHAKE_TIMEOUT
<1> DEFINE fits == HANDSHAKE_TIMEOUT \div MIN_ATTEMPT
<1>2. fits \in Nat /\ MIN_ATTEMPT * fits <= HANDSHAKE_TIMEOUT /\ 1 <= fits
  BY <1>1, Quotient
<1>3. Attempts(count) \in Nat \ {0} /\ Attempts(count) <= fits
      /\ (count = 1 => Attempts(count) = 1)
  BY <1>2 DEF Attempts, AtLeast1
<1>4. Attempts(count) * MIN_ATTEMPT <= HANDSHAKE_TIMEOUT
  <2> HIDE DEF fits
  <2>1. Attempts(count) * MIN_ATTEMPT <= fits * MIN_ATTEMPT
    BY <1>1, <1>2, <1>3, TimesMonotone
  <2>2. fits * MIN_ATTEMPT = MIN_ATTEMPT * fits
    BY <1>1, <1>2
  <2> QED
    BY <1>1, <1>2, <1>3, <2>1, <2>2
<1> HIDE DEF fits
<1> QED
  BY <1>1, <1>3, <1>4, Quotient DEF AttemptBudget

-----------------------------------------------------------------------------
(* Where connect stands in its plan and in its budget.                     *)
Spent == now - h3Spent

PlanInv ==
  /\ phase \in {"resolving", "collecting"} => next = 1 /\ h3Spent = 0
  /\ phase = "resolving" => deadline = RESOLVE_TIMEOUT
  /\ phase \in {"resolving", "handshaking"} => now <= deadline
  /\ phase = "collecting" => now <= RESOLVE_TIMEOUT
  /\ phase \in {"handshaking", "h3", "connected"} => next \in Dialled
  /\ phase = "dialing" =>
       next - 1 <= N /\ Spent <= RESOLVE_TIMEOUT + (next - 1) * Budget
  /\ phase = "handshaking" =>
       deadline - h3Spent <= RESOLVE_TIMEOUT + next * Budget
  /\ phase = "h3" => Spent <= RESOLVE_TIMEOUT + next * Budget
  /\ phase \in {"connected", "failed"} => Spent <= CONNECT_BUDGET

IInv == TypeOK /\ PlanInv /\ OneEndpointAtATime

LEMMA TypeStep == TypeOK /\ PlanInv /\ [Next]_vars => TypeOK'
<1> SUFFICES ASSUME TypeOK, PlanInv, [Next]_vars PROVE TypeOK'
  OBVIOUS
<1> USE DEF TypeOK, Phase
<1>1. Budget \in Nat
  BY PlanLemma DEF Budget
<1>2. ASSUME NEW a \in Addr, Collect(a) PROVE TypeOK'
  BY <1>2 DEF Collect
<1>3. CASE Open
  <2>1. now + Budget \in Nat
    BY <1>1
  <2>2. deadline' \in Nat
    BY <1>3, <2>1 DEF Open
  <2>3. endpoint' \in [Addr -> {"unbound", "open", "closed"}]
    BY <1>3 DEF Open
  <2> QED
    BY <1>3, <2>2, <2>3 DEF Open
<1>4. CASE HandshakeFails \/ H3Fails
  BY <1>4 DEF HandshakeFails, H3Fails, AttemptFails, PlanInv, Dialled
<1>5. CASE Tick
  BY <1>5 DEF Tick
<1>6. CASE BindFails
  BY <1>6 DEF BindFails, Dialled
<1>7. CASE Resolved \/ ResolveFails \/ Collected \/ HandshakeSucceeds
           \/ H3Succeeds \/ GiveUp \/ UNCHANGED vars
  BY <1>7 DEF Resolved, ResolveFails, Collected, HandshakeSucceeds,
              H3Succeeds, GiveUp, OnlyPhase, vars
<1> QED
  BY <1>2, <1>3, <1>4, <1>5, <1>6, <1>7 DEF Next

(* The clock: each slice of the plan starts where the last one had to end. *)
LEMMA PlanStep == TypeOK /\ PlanInv /\ [Next]_vars => PlanInv'
<1> SUFFICES ASSUME TypeOK, PlanInv, [Next]_vars PROVE PlanInv'
  OBVIOUS
<1>1. N \in Nat \ {0} /\ Budget \in Nat
  BY PlanLemma DEF TypeOK, N, Budget
<1>2. N * Budget <= CONNECT_BUDGET - RESOLVE_TIMEOUT
  BY PlanLemma DEF TypeOK, N, Budget, HANDSHAKE_TIMEOUT
<1>3. /\ CONNECT_BUDGET \in Nat /\ RESOLVE_TIMEOUT \in Nat
      /\ RESOLVE_TIMEOUT <= CONNECT_BUDGET
  BY BudgetAssumption
(* start and end: where the slice of the next candidate begins and ends.   *)
<1> DEFINE start == RESOLVE_TIMEOUT + (next - 1) * Budget
           end == RESOLVE_TIMEOUT + next * Budget
<1>4. start \in Int /\ end \in Int /\ end = start + Budget
  BY <1>1, <1>3 DEF TypeOK
<1>5. next <= N => end <= CONNECT_BUDGET
  BY <1>1, <1>2, <1>3, TimesMonotone DEF TypeOK
<1>6. next - 1 <= N => start <= CONNECT_BUDGET
  BY <1>1, <1>2, <1>3, TimesMonotone DEF TypeOK
<1>7. next = 1 => start = RESOLVE_TIMEOUT
  BY <1>1, <1>3
<1>8. next \in Dialled => next <= N /\ next \in Nat
  BY DEF Dialled, TypeOK
<1>10. ASSUME candidates' = candidates
       PROVE  N' = N /\ Budget' = Budget /\ Dialled' = Dialled
  BY <1>10 DEF Dialled, N, Budget
<1>11. ASSUME candidates' = candidates, next' = next + 1
       PROVE  RESOLVE_TIMEOUT + (next' - 1) * Budget' = end /\ next' - 1 = next
  BY <1>10, <1>11 DEF TypeOK
<1> HIDE DEF start, end
<1>12. /\ phase = "dialing" => Spent <= start
       /\ phase = "handshaking" => deadline - h3Spent <= end
       /\ phase = "h3" => Spent <= end
  BY DEF PlanInv, start, end
<1>a. /\ candidates' = candidates /\ next' = next
         => RESOLVE_TIMEOUT + (next' - 1) * Budget' = start
            /\ RESOLVE_TIMEOUT + next' * Budget' = end
  BY <1>10 DEF start, end
<1> USE DEF PlanInv, Spent, TypeOK, OnlyPhase
<1>13. CASE Resolved
  BY <1>13 DEF Resolved
<1>14. CASE ResolveFails
  BY <1>3, <1>14 DEF ResolveFails
<1>15. ASSUME NEW a \in Addr, Collect(a) PROVE PlanInv'
  BY <1>15 DEF Collect
<1>16. CASE Collected
  BY <1>1, <1>3, <1>7, <1>10, <1>16, <1>a DEF Collected
<1>17. CASE BindFails
  <2>1. Spent <= end
    BY <1>1, <1>4, <1>12, <1>17 DEF BindFails
  <2> QED
    BY <1>8, <1>10, <1>11, <1>17, <2>1 DEF BindFails
<1>18. CASE Open
  <2>1. (now + Budget) - h3Spent <= end
    BY <1>1, <1>4, <1>12, <1>18 DEF Open
  <2> QED
    BY <1>1, <1>10, <1>18, <1>a, <2>1 DEF Open
<1>19. CASE HandshakeSucceeds
  <2>1. Spent <= end
    BY <1>4, <1>12, <1>19 DEF HandshakeSucceeds
  <2> QED
    BY <1>10, <1>19, <1>a, <2>1 DEF HandshakeSucceeds
<1>20. CASE HandshakeFails \/ H3Fails
  <2>1. Spent <= end
    BY <1>4, <1>12, <1>20 DEF HandshakeFails, H3Fails
  <2> QED
    BY <1>8, <1>10, <1>11, <1>20, <2>1 DEF HandshakeFails, H3Fails, AttemptFails
<1>21. CASE H3Succeeds
  <2>1. Spent <= CONNECT_BUDGET
    BY <1>3, <1>4, <1>5, <1>8, <1>12, <1>21 DEF H3Succeeds
  <2> QED
    BY <1>10, <1>21, <2>1 DEF H3Succeeds
<1>22. CASE GiveUp
  <2>1. Spent <= CONNECT_BUDGET
    BY <1>3, <1>4, <1>6, <1>12, <1>22 DEF GiveUp
  <2> QED
    BY <1>22, <2>1 DEF GiveUp
<1>23. CASE Tick
  <2>1. CASE phase = "h3"
    BY <1>10, <1>12, <1>23, <1>a, <2>1 DEF Tick
  <2>2. CASE phase # "h3"
    BY <1>10, <1>12, <1>23, <1>a, <2>2 DEF Tick
  <2> QED
    BY <2>1, <2>2
<1>24. CASE UNCHANGED vars
  BY <1>10, <1>12, <1>24, <1>a DEF vars
<1> QED
  BY <1>13, <1>14, <1>15, <1>16, <1>17, <1>18, <1>19, <1>20, <1>21, <1>22,
     <1>23, <1>24 DEF Next

(* A bind happens in "dialing" only, where nothing is open; a loser is     *)
(* closed in the step that goes back there.                                *)
LEMMA EndpointStep == IInv /\ [Next]_vars => OneEndpointAtATime'
<1> SUFFICES ASSUME TypeOK, PlanInv, OneEndpointAtATime, [Next]_vars
             PROVE  OneEndpointAtATime'
  BY DEF IInv
<1> USE DEF TypeOK, OneEndpointAtATime, OpenEndpoints, OnlyPhase
<1>1. next \in Dialled => candidates[next] \in Addr
  BY DEF Dialled
<1>2. phase \in {"handshaking", "h3", "connected"} => next \in Dialled
  BY DEF PlanInv
<1>3. ASSUME NEW a \in Addr, Collect(a) PROVE OneEndpointAtATime'
  BY <1>3 DEF Collect
<1>4. CASE Open
  BY <1>1, <1>4 DEF Open
<1>5. CASE HandshakeFails \/ H3Fails
  BY <1>1, <1>2, <1>5 DEF HandshakeFails, H3Fails, AttemptFails
<1>6. CASE Resolved \/ ResolveFails \/ Collected \/ BindFails \/ GiveUp
  BY <1>6 DEF Resolved, ResolveFails, Collected, BindFails, GiveUp
<1>7. CASE HandshakeSucceeds \/ H3Succeeds \/ Tick \/ UNCHANGED vars
  BY <1>7 DEF HandshakeSucceeds, H3Succeeds, Tick, vars
<1> QED
  BY <1>3, <1>4, <1>5, <1>6, <1>7 DEF Next

-----------------------------------------------------------------------------
(* IInv is inductive: types, the plan against the clock, and the one open  *)
(* endpoint.                                                               *)
THEOREM InductiveInvariant == Spec => []IInv
<1>1. Init => IInv
  BY BudgetAssumption
     DEF Init, IInv, TypeOK, Phase, PlanInv, OneEndpointAtATime, OpenEndpoints
<1>2. IInv /\ [Next]_vars => IInv'
  BY TypeStep, PlanStep, EndpointStep DEF IInv
<1> QED
  BY <1>1, <1>2, PTL DEF Spec

(* Every variable keeps its type (connect's loop and its clock).           *)
THEOREM TypeCorrect == Spec => []TypeOK
BY InductiveInvariant, PTL DEF IInv

(* "each loser closes its endpoint before the next one is bound" (dial),   *)
(* and a connect that failed leaves none open.                             *)
THEOREM OneEndpointAlways == Spec => []OneEndpointAtATime
BY InductiveInvariant, PTL DEF IInv

(* The plan fits the handshake budget, for any answer of the resolver.     *)
THEOREM PlanFitsAlways == Spec => []PlanFits
<1>1. TypeOK => PlanFits
  <2> SUFFICES ASSUME TypeOK PROVE PlanFits
    OBVIOUS
  <2> DEFINE count == Len(candidates)
  <2>1. count \in Nat
    BY DEF TypeOK
  <2> HIDE DEF count
  <2>2. /\ Attempts(count) * AttemptBudget(count) <= HANDSHAKE_TIMEOUT
        /\ AttemptBudget(count) >= MIN_ATTEMPT
        /\ count = 1 => AttemptBudget(count) = HANDSHAKE_TIMEOUT
    BY <2>1, PlanLemma
  <2> QED
    BY <2>2 DEF count, PlanFits, N, Budget
<1> QED
  BY <1>1, TypeCorrect, PTL

(* Resolution and the handshakes of every candidate fit CONNECT_BUDGET:    *)
(* only h3 set-up can take connect past it.                                *)
THEOREM HandshakesWithinBudgetAlways == Spec => []HandshakesWithinBudget
<1>1. IInv => HandshakesWithinBudget
  <2> SUFFICES ASSUME TypeOK, PlanInv PROVE Spent <= CONNECT_BUDGET
    BY DEF IInv, HandshakesWithinBudget, Spent
  <2>1. N \in Nat \ {0} /\ Budget \in Nat
        /\ N * Budget <= CONNECT_BUDGET - RESOLVE_TIMEOUT
    BY PlanLemma DEF TypeOK, N, Budget, HANDSHAKE_TIMEOUT
  <2>2. CONNECT_BUDGET \in Nat /\ RESOLVE_TIMEOUT \in Nat
        /\ RESOLVE_TIMEOUT <= CONNECT_BUDGET
    BY BudgetAssumption
  <2>3. next <= N => RESOLVE_TIMEOUT + next * Budget <= CONNECT_BUDGET
    BY <2>1, <2>2, TimesMonotone DEF TypeOK
  <2>4. next - 1 <= N => RESOLVE_TIMEOUT + (next - 1) * Budget <= CONNECT_BUDGET
    BY <2>1, <2>2, TimesMonotone DEF TypeOK
  <2>5. /\ next \in Dialled => next <= N
        /\ next * Budget \in Int /\ (next - 1) * Budget \in Int
    BY <2>1 DEF TypeOK, Dialled
  <2> QED
    BY <2>2, <2>3, <2>4, <2>5 DEF TypeOK, Phase, PlanInv, Spent
<1> QED
  BY <1>1, InductiveInvariant, PTL

-----------------------------------------------------------------------------
(* dial_candidates.  The place where an address comes first in the answer. *)
First(s, k, a) ==
  k \in 1..Len(s) /\ s[k] = a /\ \A j \in 1..(k - 1) : s[j] # a

OrderInv ==
  /\ \A k \in 1..Len(answer) : \E c \in 1..Len(candidates) :
       candidates[c] = answer[k]
  /\ \A c \in 1..Len(candidates) : \E k \in Nat : First(answer, k, candidates[c])
  /\ \A c, e \in 1..Len(candidates) : \A k, l \in Nat :
       /\ c < e
       /\ First(answer, k, candidates[c]) /\ First(answer, l, candidates[e])
       => k < l

(* Another address moves no first place, and comes first itself if it is   *)
(* new.                                                                    *)
LEMMA FirstAfterAppend ==
  ASSUME NEW s \in Seq(Addr), NEW a \in Addr
  PROVE  /\ \A b : (\E l \in Nat : First(s, l, b)) =>
              \A k \in Nat : First(Append(s, a), k, b) <=> First(s, k, b)
         /\ (\A j \in 1..Len(s) : s[j] # a) =>
              \A k \in Nat : First(Append(s, a), k, a) <=> k = Len(s) + 1
<1> DEFINE t == Append(s, a)
<1>1. /\ Len(t) = Len(s) + 1 /\ t[Len(s) + 1] = a /\ Len(s) \in Nat
      /\ \A j \in 1..Len(s) : t[j] = s[j]
  OBVIOUS
<1> HIDE DEF t
<1>2. ASSUME NEW b, NEW l \in Nat, First(s, l, b), NEW k \in Nat
      PROVE  First(t, k, b) <=> First(s, k, b)
  <2>1. First(s, k, b) => First(t, k, b)
    BY <1>1 DEF First
  <2>2. ASSUME First(t, k, b) PROVE First(s, k, b)
    <3>1. k # Len(s) + 1
      BY <1>1, <1>2, <2>2 DEF First
    <3> QED
      BY <1>1, <2>2, <3>1 DEF First
  <2> QED
    BY <2>1, <2>2
<1>3. ASSUME \A j \in 1..Len(s) : s[j] # a, NEW k \in Nat
      PROVE  First(t, k, a) <=> k = Len(s) + 1
  <2>1. First(t, k, a) => k = Len(s) + 1
    BY <1>1, <1>3 DEF First
  <2>2. First(t, Len(s) + 1, a)
    BY <1>1, <1>3 DEF First
  <2> QED
    BY <2>1, <2>2
<1> QED
  BY <1>2, <1>3 DEF t

LEMMA OrderStep == TypeOK /\ OrderInv /\ [Next]_vars => OrderInv'
<1> SUFFICES ASSUME TypeOK, OrderInv, [Next]_vars PROVE OrderInv'
  OBVIOUS
<1>1. CASE UNCHANGED <<answer, candidates>>
  BY <1>1 DEF OrderInv
<1>2. ASSUME NEW a \in Addr, Collect(a) PROVE OrderInv'
  <2> DEFINE m == Len(candidates)
  <2>1. /\ answer' = Append(answer, a)
        /\ Len(answer') = Len(answer) + 1 /\ answer'[Len(answer) + 1] = a
        /\ \A j \in 1..Len(answer) : answer'[j] = answer[j]
        /\ Len(answer) \in Nat
    BY <1>2 DEF Collect, TypeOK
  <2>2. \A c \in 1..m : \A k \in Nat :
          First(answer', k, candidates[c]) <=> First(answer, k, candidates[c])
    BY <2>1, FirstAfterAppend DEF OrderInv, TypeOK
  <2>3. CASE \E i \in 1..m : candidates[i] = a
    <3>1. candidates' = candidates
      BY <1>2, <2>3 DEF Collect
    <3>2. \A k \in 1..Len(answer') : \E c \in 1..m : candidates[c] = answer'[k]
      BY <2>1, <2>3 DEF OrderInv
    <3> QED
      BY <2>2, <3>1, <3>2 DEF OrderInv
  <2>4. CASE \A i \in 1..m : candidates[i] # a
    <3>1. /\ Len(candidates') = m + 1 /\ candidates'[m + 1] = a /\ m \in Nat
          /\ \A c \in 1..m : candidates'[c] = candidates[c]
      BY <1>2, <2>4 DEF Collect, TypeOK
    <3>2. \A j \in 1..Len(answer) : answer[j] # a
      BY <2>4 DEF OrderInv
    <3>3. \A k \in Nat : First(answer', k, a) <=> k = Len(answer) + 1
      BY <2>1, <3>2, FirstAfterAppend DEF TypeOK
    <3>4. \A c \in 1..m : \A k \in Nat :
            First(answer, k, candidates[c]) => k < Len(answer) + 1
      BY <2>1 DEF First
    <3>5. \A k \in 1..Len(answer') : \E c \in 1..Len(candidates') :
            candidates'[c] = answer'[k]
      <4> SUFFICES ASSUME NEW k \in 1..Len(answer')
                   PROVE  \E c \in 1..(m + 1) : candidates'[c] = answer'[k]
        BY <3>1
      <4>1. CASE k = Len(answer) + 1
        BY <2>1, <3>1, <4>1
      <4>2. CASE k \in 1..Len(answer)
        <5>1. PICK c \in 1..m : candidates[c] = answer[k]
          BY <4>2 DEF OrderInv
        <5> QED
          BY <2>1, <3>1, <4>2, <5>1
      <4> QED
        BY <2>1, <4>1, <4>2
    <3>6. \A c \in 1..Len(candidates') : \E k \in Nat :
            First(answer', k, candidates'[c])
      <4> SUFFICES ASSUME NEW c \in 1..(m + 1)
                   PROVE  \E k \in Nat : First(answer', k, candidates'[c])
        BY <3>1
      <4>1. CASE c = m + 1
        BY <2>1, <3>1, <3>3, <4>1
      <4>2. CASE c \in 1..m
        <5>1. PICK k \in Nat : First(answer, k, candidates[c])
          BY <4>2 DEF OrderInv
        <5> QED
          BY <2>2, <3>1, <4>2, <5>1
      <4> QED
        BY <3>1, <4>1, <4>2
    <3>7. ASSUME NEW c \in 1..Len(candidates'), NEW e \in 1..Len(candidates'),
                 NEW k \in Nat, NEW l \in Nat, c < e,
                 First(answer', k, candidates'[c]),
                 First(answer', l, candidates'[e])
          PROVE  k < l
      <4>1. c \in 1..m /\ First(answer, k, candidates[c])
        BY <2>2, <3>1, <3>7
      <4>2. CASE e = m + 1
        BY <2>1, <3>1, <3>3, <3>4, <3>7, <4>1, <4>2
      <4>3. CASE e \in 1..m
        <5>1. First(answer, l, candidates[e])
          BY <2>2, <3>1, <3>7, <4>3
        <5> QED
          BY <3>7, <4>1, <4>3, <5>1 DEF OrderInv
      <4> QED
        BY <3>1, <4>2, <4>3
    <3> QED
      BY <3>5, <3>6, <3>7 DEF OrderInv
  <2> QED
    BY <2>3, <2>4
<1> QED
  BY <1>1, <1>2
     DEF Next, vars, Resolved, ResolveFails, Collected, BindFails, Open,
         HandshakeSucceeds, HandshakeFails, H3Succeeds, H3Fails, GiveUp, Tick,
         OnlyPhase, AttemptFails

(* resolve_all, dial_candidates: every address of the answer is a          *)
(* candidate, once, and earlier ones are dialled first.                    *)
THEOREM CandidatesKeepResolverOrderAlways ==
  Spec => []CandidatesKeepResolverOrder
<1>1. Init => OrderInv
  BY DEF Init, OrderInv
<1>2. TypeOK /\ OrderInv => CandidatesKeepResolverOrder
  <2> SUFFICES ASSUME TypeOK, OrderInv PROVE CandidatesKeepResolverOrder
    OBVIOUS
  <2>1. {candidates[c] : c \in 1..Len(candidates)}
          = {answer[k] : k \in 1..Len(answer)}
    <3>1. ASSUME NEW c \in 1..Len(candidates)
          PROVE  \E k \in 1..Len(answer) : answer[k] = candidates[c]
      <4>1. PICK k \in Nat : First(answer, k, candidates[c])
        BY DEF OrderInv
      <4> QED
        BY <4>1 DEF First
    <3>2. ASSUME NEW k \in 1..Len(answer)
          PROVE  \E c \in 1..Len(candidates) : candidates[c] = answer[k]
      BY DEF OrderInv
    <3> QED
      BY <3>1, <3>2
  <2>2. \A c \in 1..Len(candidates) :
          /\ FirstAt(answer, candidates[c]) \in Nat
          /\ First(answer, FirstAt(answer, candidates[c]), candidates[c])
    <3> SUFFICES ASSUME NEW c \in 1..Len(candidates)
                 PROVE  /\ FirstAt(answer, candidates[c]) \in Nat
                        /\ First(answer, FirstAt(answer, candidates[c]),
                                 candidates[c])
      OBVIOUS
    <3> DEFINE Is(i) == /\ answer[i] = candidates[c]
                        /\ \A j \in 1..(i - 1) : answer[j] # candidates[c]
    <3>1. \E i \in 1..Len(answer) : Is(i)
      BY DEF OrderInv, First
    <3>2. FirstAt(answer, candidates[c]) = CHOOSE i \in 1..Len(answer) : Is(i)
      BY DEF FirstAt
    <3> HIDE DEF Is
    <3>3. /\ FirstAt(answer, candidates[c]) \in 1..Len(answer)
          /\ Is(FirstAt(answer, candidates[c]))
      BY <3>1, <3>2
    <3> QED
      BY <3>3 DEF Is, First, TypeOK
  <2>3. ASSUME NEW c \in 1..Len(candidates), NEW e \in 1..Len(candidates), c < e
        PROVE  FirstAt(answer, candidates[c]) < FirstAt(answer, candidates[e])
    BY <2>2, <2>3 DEF OrderInv
  <2> QED
    BY <2>1, <2>3 DEF CandidatesKeepResolverOrder
<1> QED
  BY <1>1, <1>2, OrderStep, TypeCorrect, PTL DEF Spec
=============================================================================
