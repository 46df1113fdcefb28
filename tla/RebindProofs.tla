---------------------------- MODULE RebindProofs ----------------------------
(***************************************************************************)
(* Proofs about Rebind, for any set of calls, any number of datagrams and  *)
(* any number of polls.  What rebind() may conclude from its two counters  *)
(* rests on the ages of the sockets: the gateway moves to newer ones, or   *)
(* back to one it used before, and the current one is the newest.  So it   *)
(* can only have sent to the current one once it has heard from it.        *)
(***************************************************************************)
EXTENDS Rebind, TLAPS

(* The call is in its polling loop, or about to enter it.                  *)
Polling == {"checkClosed", "checkProof", "checkDeadline", "sleep"}

(* The deadline was not yet reached.                                       *)
SleepInv == \A r \in Call : pc[r] = "sleep" => polls[r] < MaxPolls

(* A socket that was not yet swapped in has taken no part.                 *)
FreshInv == \A r \in Call :
  pc[r] \in {"idle", "swap"} =>
    /\ r \notin answered /\ r \notin pinged
    /\ flight[r] = 0
    /\ r # cur /\ r # prev
    /\ r # path /\ r # newest /\ r # back

(* The client sends from the newest socket, and has sent from older ones.  *)
AgeInv ==
  /\ \A s \in Socket : s # cur => age[s] = 0 \/ age[s] < age[cur]
  /\ \A s \in pinged : s # cur => age[s] < age[cur]

(* The gateway uses the current socket only once it has heard from it, and *)
(* has then heard nothing newer.                                           *)
AnswerInv ==
  /\ path = cur \/ back = cur \/ flight[cur] > 0 => newest = cur
  /\ cur \in answered => prev = NoSocket /\ newest = cur

(* These hold of any calls, the next ones of calls made one at a time.     *)
SocketInv == TypeOK /\ SleepInv /\ FreshInv /\ AgeInv /\ AnswerInv

OneCall == \A q, r \in Call :
  q # r /\ pc[q] # "idle" /\ pc[r] # "idle" =>
    verdict[q] = "ok" \/ verdict[r] = "ok"

CallInv == \A r \in Call :
  /\ verdict[r] = "ok" => pc[r] = "returned" /\ r \in arrived
  /\ pc[r] \in Polling \cup {"localAddr"} => cur = r
  /\ pc[r] \in Polling \/ verdict[r] = "ok" => local[r] = r

(* Without noise what arrives on a socket is an answer.                    *)
QuietInv == ~noisy => arrived \subseteq answered

DisciplinedInv == OneCall /\ CallInv /\ QuietInv

-----------------------------------------------------------------------------
(* The steps of a call that touch neither the sockets nor the gateway.     *)
CallStep(r) ==
  \/ Snapshot(r) \/ BindFails(r) \/ LocalAddr(r) \/ LocalAddrFails(r)
  \/ CheckClosed(r) \/ CheckProof(r) \/ CheckDeadline(r) \/ Sleep(r)

LEMMA NextCases ==
  ASSUME [Next]_vars
  PROVE  \/ \E r \in Call : CallStep(r) \/ Swap(r)
         \/ \E s \in Socket :
              Deliver(s) \/ DeliverStray(s) \/ Lose(s) \/ GatewayHears(s)
         \/ PrevFails \/ Accept \/ ConnDies
         \/ ClientSends \/ PathValidated \/ PathReverts \/ GatewaySends
         \/ UNCHANGED vars
BY DEF Next, Rebind, CallStep

(* Such a step moves one call on, never back to before its swap.           *)
LEMMA CallStepEffect ==
  ASSUME TypeOK, NEW r \in Call, CallStep(r)
  PROVE  /\ UNCHANGED <<quinn, gateway>>
         /\ \A q \in Call : q # r =>
              /\ pc'[q] = pc[q] /\ local'[q] = local[q]
              /\ verdict'[q] = verdict[q]
         /\ \/ pc[r] = "idle" /\ pc'[r] = "swap"
            \/ pc[r] # "idle" /\ pc'[r] \notin {"idle", "swap"}
<1> USE DEF TypeOK, Goto, Return, Step
<1>1. CASE Snapshot(r)
  BY <1>1 DEF Snapshot
<1>2. CASE BindFails(r)
  BY <1>2 DEF BindFails
<1>3. CASE LocalAddr(r)
  BY <1>3 DEF LocalAddr
<1>4. CASE CheckClosed(r)
  BY <1>4 DEF CheckClosed
<1>5. CASE CheckProof(r)
  BY <1>5 DEF CheckProof
<1>6. CASE CheckDeadline(r)
  BY <1>6 DEF CheckDeadline
<1>7. CASE Sleep(r)
  BY <1>7 DEF Sleep
<1>8. CASE LocalAddrFails(r)
  BY <1>8 DEF LocalAddrFails
<1> QED
  BY <1>1, <1>2, <1>3, <1>4, <1>5, <1>6, <1>7, <1>8 DEF CallStep

LEMMA TypeStep == TypeOK /\ SleepInv /\ [Next]_vars => TypeOK' /\ SleepInv'
<1> SUFFICES ASSUME TypeOK, SleepInv, [Next]_vars PROVE TypeOK' /\ SleepInv'
  OBVIOUS
<1> USE RebindAssumption DEF TypeOK, SleepInv, Socket, quinn, gateway, calls
<1>1. ASSUME NEW r \in Call, CallStep(r) PROVE TypeOK' /\ SleepInv'
  <2> USE DEF Goto, Return, Step
  <2>1. CASE Snapshot(r)
    BY <2>1 DEF Snapshot
  <2>2. CASE BindFails(r)
    BY <2>2 DEF BindFails
  <2>3. CASE LocalAddr(r)
    BY <2>3 DEF LocalAddr
  <2>4. CASE CheckClosed(r)
    BY <2>4 DEF CheckClosed
  <2>5. CASE CheckProof(r)
    BY <2>5 DEF CheckProof
  <2>6. CASE CheckDeadline(r)
    BY <2>6 DEF CheckDeadline
  <2>7. CASE Sleep(r)
    BY <2>7 DEF Sleep
  <2>8. CASE LocalAddrFails(r)
    BY <2>8 DEF LocalAddrFails
  <2> QED
    BY <1>1, <2>1, <2>2, <2>3, <2>4, <2>5, <2>6, <2>7, <2>8 DEF CallStep
<1>2. ASSUME NEW r \in Call, Swap(r) PROVE TypeOK' /\ SleepInv'
  BY <1>2 DEF Swap, Goto
<1>3. ASSUME NEW s \in Socket, Deliver(s) PROVE TypeOK' /\ SleepInv'
  BY <1>3 DEF Deliver
<1>4. ASSUME NEW s \in Socket, DeliverStray(s) PROVE TypeOK' /\ SleepInv'
  BY <1>4 DEF DeliverStray
<1>5. ASSUME NEW s \in Socket, Lose(s) PROVE TypeOK' /\ SleepInv'
  BY <1>5 DEF Lose
<1>6. ASSUME NEW s \in Socket, GatewayHears(s) PROVE TypeOK' /\ SleepInv'
  BY <1>6 DEF GatewayHears
<1>7. CASE Accept
  BY <1>7 DEF Accept
<1>8. CASE GatewaySends
  BY <1>8 DEF GatewaySends
<1>9. CASE ConnDies \/ PrevFails \/ UNCHANGED vars
  BY <1>9 DEF ConnDies, PrevFails, vars
<1>10. CASE ClientSends \/ PathValidated \/ PathReverts
  BY <1>10 DEF ClientSends, PathValidated, PathReverts
<1> QED
  BY <1>1, <1>2, <1>3, <1>4, <1>5, <1>6, <1>7, <1>8, <1>9, <1>10, NextCases

(* The ages and what follows from them, whatever calls run together.       *)
LEMMA SocketStep == SocketInv /\ [Next]_vars => SocketInv'
<1> SUFFICES ASSUME SocketInv, [Next]_vars
             PROVE  FreshInv' /\ AgeInv' /\ AnswerInv'
  BY TypeStep DEF SocketInv
<1> USE RebindAssumption DEF SocketInv, FreshInv, AgeInv, AnswerInv
<1>1. ASSUME NEW r \in Call, CallStep(r)
      PROVE  FreshInv' /\ AgeInv' /\ AnswerInv'
  BY <1>1, CallStepEffect DEF quinn, gateway
<1>2. ASSUME NEW r \in Call, Swap(r)
      PROVE  FreshInv' /\ AgeInv' /\ AnswerInv'
  <2>1. /\ prev' = cur /\ cur' = r /\ r # cur
        /\ r \notin answered /\ flight[r] = 0 /\ r # path /\ r # back
        /\ UNCHANGED <<answered, flight, path, newest, back>>
        /\ pinged' \subseteq pinged \cup {r}
    BY <1>2 DEF Swap
  <2>2. \A q \in Call : pc'[q] \in {"idle", "swap"} =>
          q # r /\ pc[q] \in {"idle", "swap"}
    BY <1>2 DEF Swap, Goto, TypeOK
  <2>3. \A s \in Socket : age'[s] = IF s = r THEN age[cur] + 1 ELSE age[s]
    BY <1>2 DEF Swap, TypeOK, Socket
  <2>4. FreshInv'
    BY <2>1, <2>2
  <2>5. AgeInv'
    BY <2>1, <2>3 DEF TypeOK, Socket
  <2>6. AnswerInv'
    BY <2>1
  <2> QED
    BY <2>4, <2>5, <2>6
<1>3. ASSUME NEW s \in Socket, Deliver(s)
      PROVE  FreshInv' /\ AgeInv' /\ AnswerInv'
  BY <1>3 DEF Deliver, calls, TypeOK, Socket
<1>4. ASSUME NEW s \in Socket, DeliverStray(s)
      PROVE  FreshInv' /\ AgeInv' /\ AnswerInv'
  BY <1>4 DEF DeliverStray, gateway, calls
<1>5. ASSUME NEW s \in Socket, Lose(s)
      PROVE  FreshInv' /\ AgeInv' /\ AnswerInv'
  BY <1>5 DEF Lose, quinn, calls, TypeOK, Socket
<1>6. ASSUME NEW s \in Socket, GatewayHears(s)
      PROVE  FreshInv' /\ AgeInv' /\ AnswerInv'
  <2>1. /\ s \in pinged /\ pinged' \subseteq pinged
        /\ UNCHANGED <<cur, prev, answered, flight, age, pc>>
        /\ \/ UNCHANGED <<newest, path, back>>
           \/ /\ age[s] >= age[newest] /\ newest' = s /\ path' = s
              /\ back' \in {path, back}
    BY <1>6 DEF GatewayHears, quinn, calls
  <2>2. newest = cur /\ newest' = s => s = cur
    BY <2>1 DEF TypeOK, Socket
  <2> QED
    BY <2>1, <2>2
<1>7. CASE GatewaySends
  BY <1>7 DEF GatewaySends, quinn, calls, TypeOK, Socket
<1>8. CASE Accept \/ ConnDies \/ PrevFails \/ UNCHANGED vars
  BY <1>8 DEF Accept, ConnDies, PrevFails, vars, quinn, gateway, calls
<1>9. CASE ClientSends
  BY <1>9 DEF ClientSends, quinn, calls
<1>10. CASE PathValidated \/ PathReverts
  BY <1>10 DEF PathValidated, PathReverts, quinn, calls, TypeOK, Socket
<1> QED
  BY <1>1, <1>2, <1>3, <1>4, <1>5, <1>6, <1>7, <1>8, <1>9, <1>10, NextCases

-----------------------------------------------------------------------------
(* Calls made one at a time.                                               *)

LEMMA OneCallStep ==
  ASSUME Disciplined, TypeOK, OneCall, CallInv, [Next]_vars
  PROVE  OneCall'
<1> USE DEF OneCall
<1>1. ASSUME NEW r \in Call, Snapshot(r) PROVE OneCall'
  BY <1>1 DEF Snapshot, Goto, TypeOK
<1>2. ASSUME NEW r \in Call, CallStep(r), pc[r] # "idle" PROVE OneCall'
  <2>1. \A q \in Call : q # r => pc'[q] = pc[q] /\ verdict'[q] = verdict[q]
    BY <1>2, CallStepEffect
  <2>2. verdict[r] # "ok"
    BY <1>2 DEF CallInv, CallStep, Snapshot, BindFails, LocalAddr,
                LocalAddrFails, CheckClosed, CheckProof, CheckDeadline, Sleep
  <2> QED
    BY <1>2, <2>1, <2>2
<1>3. ASSUME NEW r \in Call, Swap(r) PROVE OneCall'
  BY <1>3 DEF Swap, Goto, TypeOK
<1>4. CASE pc' = pc /\ verdict' = verdict
  BY <1>4
<1> QED
  BY <1>1, <1>2, <1>3, <1>4, NextCases
  DEF CallStep, Deliver, DeliverStray, PrevFails, Lose, Accept, ConnDies,
      ClientSends, GatewayHears, PathValidated, PathReverts, GatewaySends,
      BindFails, LocalAddr, LocalAddrFails, CheckClosed, CheckProof,
      CheckDeadline, Sleep, calls, vars

(* A call that polls is on the current socket, because nobody else swaps.  *)
LEMMA CallInvStep ==
  ASSUME Disciplined, SocketInv, OneCall, CallInv, [Next]_vars
  PROVE  CallInv'
<1> USE RebindAssumption DEF CallInv, Polling
<1>0. TypeOK /\ cur \in Call \cup {Home}
  BY DEF SocketInv, TypeOK, Socket
<1>1. ASSUME NEW r \in Call, Snapshot(r) PROVE CallInv'
  <2>1. /\ UNCHANGED <<cur, verdict, local, arrived>>
        /\ pc' = [pc EXCEPT ![r] = "swap"] /\ pc[r] = "idle"
    BY <1>1 DEF Snapshot, Goto, quinn
  <2> QED
    BY <1>0, <2>1 DEF TypeOK
<1>2. ASSUME NEW r \in Call, Swap(r) PROVE CallInv'
  <2>1. \A q \in Call : q # r => pc[q] = "idle" \/ verdict[q] = "ok"
    BY <1>2 DEF Swap, OneCall
  <2>2. /\ cur' = r /\ UNCHANGED <<verdict, local, arrived>>
        /\ pc' = [pc EXCEPT ![r] = "localAddr"] /\ pc[r] = "swap"
    BY <1>2 DEF Swap, Goto
  <2> QED
    BY <1>0, <2>1, <2>2 DEF TypeOK
<1>3. ASSUME NEW r \in Call, LocalAddr(r) PROVE CallInv'
  BY <1>0, <1>3 DEF LocalAddr, Goto, quinn, TypeOK
<1>4. ASSUME NEW r \in Call, BindFails(r) PROVE CallInv'
  BY <1>0, <1>4 DEF BindFails, Return, Goto, quinn, TypeOK
<1>5. ASSUME NEW r \in Call, CheckClosed(r) PROVE CallInv'
  BY <1>0, <1>5 DEF CheckClosed, Return, Step, Goto, quinn, TypeOK
<1>6. ASSUME NEW r \in Call, CheckProof(r) PROVE CallInv'
  BY <1>0, <1>6 DEF CheckProof, Proof, Return, Step, Goto, quinn, TypeOK
<1>7. ASSUME NEW r \in Call, CheckDeadline(r) PROVE CallInv'
  BY <1>0, <1>7 DEF CheckDeadline, Return, Step, Goto, quinn, TypeOK
<1>8. ASSUME NEW r \in Call, Sleep(r) PROVE CallInv'
  BY <1>0, <1>8 DEF Sleep, Goto, quinn, TypeOK
<1>9. ASSUME NEW r \in Call, LocalAddrFails(r) PROVE CallInv'
  BY <1>0, <1>9 DEF LocalAddrFails, Return, Goto, quinn, TypeOK
<1>10. CASE UNCHANGED <<pc, verdict, local, cur>> /\ arrived \subseteq arrived'
  BY <1>10
<1> QED
  BY <1>1, <1>2, <1>3, <1>4, <1>5, <1>6, <1>7, <1>8, <1>9, <1>10, NextCases
  DEF CallStep, Deliver, DeliverStray, PrevFails, Lose, Accept, ConnDies,
      ClientSends, GatewayHears, PathValidated, PathReverts, GatewaySends,
      quinn, calls, vars

LEMMA QuietStep == SocketInv /\ QuietInv /\ [Next]_vars => QuietInv'
<1> SUFFICES ASSUME SocketInv, QuietInv, [Next]_vars PROVE QuietInv'
  OBVIOUS
<1>1. ASSUME NEW r \in Call, CallStep(r) PROVE QuietInv'
  BY <1>1, CallStepEffect DEF SocketInv, QuietInv, quinn
<1>2. ASSUME NEW s \in Socket, Deliver(s) \/ DeliverStray(s) PROVE QuietInv'
  BY <1>2 DEF QuietInv, Deliver, DeliverStray
<1>3. CASE UNCHANGED <<noisy, arrived, answered>>
  BY <1>3 DEF QuietInv
<1> QED
  BY <1>1, <1>2, <1>3, NextCases
  DEF Swap, PrevFails, Lose, Accept, ConnDies, ClientSends, GatewayHears,
      PathValidated, PathReverts, GatewaySends, quinn, vars

-----------------------------------------------------------------------------
(* The theorems                                                            *)

IInv == SocketInv /\ (Disciplined => DisciplinedInv)

(* The ages of the sockets against the gateway's path, and what calls made *)
(* one at a time may conclude from their counters, are inductive.          *)
THEOREM InductiveInvariant == Spec => []IInv
<1>1. Init => IInv
  <2> SUFFICES ASSUME Init PROVE IInv
    OBVIOUS
  <2>1. TypeOK
    <3>1. Home \in Socket
      BY DEF Socket
    <3>2. 0 \in 0..MaxPolls
      BY RebindAssumption
    <3> QED
      BY <3>1, <3>2 DEF Init, TypeOK
  <2>2. SleepInv /\ FreshInv /\ AgeInv /\ AnswerInv
    BY RebindAssumption
    DEF Init, SleepInv, FreshInv, AgeInv, AnswerInv, Socket
  <2>3. DisciplinedInv
    BY RebindAssumption
    DEF Init, DisciplinedInv, OneCall, CallInv, Polling, QuietInv
  <2> QED
    BY <2>1, <2>2, <2>3 DEF IInv, SocketInv
<1>2. IInv /\ [Next]_vars => IInv'
  <2> SUFFICES ASSUME IInv, [Next]_vars PROVE IInv'
    OBVIOUS
  <2>1. SocketInv'
    BY SocketStep DEF IInv
  <2>2. CASE Disciplined
    <3>1. SocketInv /\ OneCall /\ CallInv /\ QuietInv
      BY <2>2 DEF IInv, DisciplinedInv
    <3>2. OneCall' /\ CallInv' /\ QuietInv'
      BY <2>2, <3>1, OneCallStep, CallInvStep, QuietStep DEF SocketInv
    <3> QED
      BY <2>1, <3>2 DEF IInv, DisciplinedInv
  <2> QED
    BY <2>1, <2>2 DEF IInv
<1> QED
  BY <1>1, <1>2, PTL DEF Spec

(* Types, for any calls: in particular no counter falls below zero and a   *)
(* call polls at most MaxPolls times.                                      *)
THEOREM TypeCorrect == Spec => []TypeOK
BY InductiveInvariant, PTL DEF IInv, SocketInv

(* rebind() returns ok only after the gateway's own datagram has reached   *)
(* the socket of this call, whose address it returns.                      *)
THEOREM OkMeansAnsweredAlways ==
  ASSUME Disciplined PROVE Spec => []OkMeansAnswered
<1>1. IInv => OkMeansAnswered
  BY DEF IInv, DisciplinedInv, CallInv, QuietInv, OkMeansAnswered
<1> QED
  BY <1>1, InductiveInvariant, PTL

(* After a call that returned ok the previous socket is gone and the       *)
(* gateway's newest packet came from the new one (rebind, rebind_abstract). *)
THEOREM OkMeansMovedAlways ==
  ASSUME Disciplined PROVE Spec => []OkMeansMoved
<1>1. IInv => OkMeansMoved
  BY DEF IInv, SocketInv, AnswerInv, DisciplinedInv, CallInv, QuietInv,
         OkMeansMoved
<1> QED
  BY <1>1, InductiveInvariant, PTL

=============================================================================
