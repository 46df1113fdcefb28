-------------------------------- MODULE Dial --------------------------------
(***************************************************************************)
(* One QuicClient::connect (client.rs): resolve the name, then dial the    *)
(* candidates in order, each with its slice of the handshake budget, until *)
(* one handshake and h3 set-up completes.                                  *)
(*                                                                         *)
(* The clock counts abstract units; timers fire on time, so Tick never     *)
(* passes a deadline that is armed.  The steps between two awaits take no  *)
(* time.  The resolver, the network and the peer are external.             *)
(***************************************************************************)
EXTENDS Integers, Sequences, FiniteSets

CONSTANTS
  Addr,             \* socket addresses
  CONNECT_BUDGET, RESOLVE_TIMEOUT, MIN_ATTEMPT,
  MaxAnswer,        \* bound: addresses in one resolver answer
  MaxH3Wait         \* bound: time the model spends in h3 set-up

ASSUME BudgetAssumption ==
  /\ CONNECT_BUDGET \in Nat /\ RESOLVE_TIMEOUT \in Nat /\ MIN_ATTEMPT \in Nat
  /\ MIN_ATTEMPT > 0
  /\ RESOLVE_TIMEOUT + MIN_ATTEMPT <= CONNECT_BUDGET
  /\ MaxAnswer \in Nat /\ MaxH3Wait \in Nat
  /\ IsFiniteSet(Addr)

VARIABLES
  phase,        \* where connect is
  answer,       \* the addresses the resolver has yielded so far
  candidates,   \* dial_candidates: the answer without duplicates
  next,         \* index of the next candidate of the plan
  endpoint,     \* the endpoint bound for an address
  now,          \* time since connect was called
  deadline,     \* when the attempt in progress times out
  h3Spent       \* how much of `now` went into h3 set-up

vars == <<phase, answer, candidates, next, endpoint, now, deadline, h3Spent>>

Phase == {"resolving", "collecting", "dialing", "handshaking", "h3",
          "connected", "failed"}

(* HANDSHAKE_TIMEOUT: what is left of the budget after resolution.         *)
HANDSHAKE_TIMEOUT == CONNECT_BUDGET - RESOLVE_TIMEOUT

AtLeast1(k) == IF k < 1 THEN 1 ELSE k

(* Fault: every attempt gets the whole budget.                             *)
WholeBudget(count) == HANDSHAKE_TIMEOUT

(* dial_plan: how many candidates to dial, and how long each one gets.     *)
Attempts(count) ==
  LET maxFits == AtLeast1(HANDSHAKE_TIMEOUT \div MIN_ATTEMPT)
  IN  IF AtLeast1(count) < maxFits THEN AtLeast1(count) ELSE maxFits

AttemptBudget(count) == HANDSHAKE_TIMEOUT \div Attempts(count)

N == Attempts(Len(candidates))
Budget == AttemptBudget(Len(candidates))

(* candidates.into_iter().take(n): the indices that are dialled.           *)
Dialled == {i \in 1..Len(candidates) : i <= N}

TypeOK ==
  /\ phase \in Phase
  /\ answer \in Seq(Addr)
  /\ candidates \in Seq(Addr)
  /\ next \in 1..(Len(candidates) + 1)
  /\ endpoint \in [Addr -> {"unbound", "open", "closed"}]
  /\ now \in Nat
  /\ deadline \in Nat
  /\ h3Spent \in Nat

Init ==
  /\ phase = "resolving"
  /\ answer = <<>>
  /\ candidates = <<>>
  /\ next = 1
  /\ endpoint = [a \in Addr |-> "unbound"]
  /\ now = 0
  /\ deadline = RESOLVE_TIMEOUT
  /\ h3Spent = 0

-----------------------------------------------------------------------------
(* resolve_all                                                             *)

OnlyPhase ==
  UNCHANGED <<answer, candidates, next, endpoint, now, deadline, h3Spent>>

Resolved ==
  /\ phase = "resolving"
  /\ phase' = "collecting"
  /\ OnlyPhase

(* The lookup failed, or its timeout fired.                                *)
ResolveFails ==
  /\ phase = "resolving"
  /\ phase' = "failed"
  /\ OnlyPhase

(* Fault: the newest address goes first.                                   *)
CollectInFront(a) ==
  /\ phase = "collecting"
  /\ Len(answer) < MaxAnswer
  /\ answer' = Append(answer, a)
  /\ candidates' = IF \E i \in 1..Len(candidates) : candidates[i] = a
                   THEN candidates ELSE <<a>> \o candidates
  /\ UNCHANGED <<phase, next, endpoint, now, deadline, h3Spent>>

(* dial_candidates, one address of the answer.                             *)
Collect(a) ==
  /\ phase = "collecting"
  /\ Len(answer) < MaxAnswer
  /\ answer' = Append(answer, a)
  /\ candidates' = IF \E i \in 1..Len(candidates) : candidates[i] = a
                   THEN candidates ELSE Append(candidates, a)
  /\ UNCHANGED <<phase, next, endpoint, now, deadline, h3Spent>>

Collected ==
  /\ phase = "collecting"
  /\ phase' = IF candidates = <<>> THEN "failed" ELSE "dialing"
  /\ OnlyPhase

-----------------------------------------------------------------------------
(* dial and handshake                                                      *)

(* Fault: the loop goes on past the last candidate.                        *)
BindFailsForever ==
  /\ phase = "dialing"
  /\ next' = next + 1
  /\ UNCHANGED <<phase, answer, candidates, endpoint, now, deadline, h3Spent>>

BindFails ==
  /\ phase = "dialing"
  /\ next \in Dialled
  /\ next' = next + 1
  /\ UNCHANGED <<phase, answer, candidates, endpoint, now, deadline, h3Spent>>

(* Fault: the attempt's timeout is a second copy of HANDSHAKE_TIMEOUT.     *)
OpenUnsplit ==
  /\ phase = "dialing"
  /\ next \in Dialled
  /\ endpoint' = [endpoint EXCEPT ![candidates[next]] = "open"]
  /\ deadline' = now + HANDSHAKE_TIMEOUT
  /\ phase' = "handshaking"
  /\ UNCHANGED <<answer, candidates, next, now, h3Spent>>

Open ==
  /\ phase = "dialing"
  /\ next \in Dialled
  /\ endpoint' = [endpoint EXCEPT ![candidates[next]] = "open"]
  /\ deadline' = now + Budget
  /\ phase' = "handshaking"
  /\ UNCHANGED <<answer, candidates, next, now, h3Spent>>

HandshakeSucceeds ==
  /\ phase = "handshaking"
  /\ phase' = "h3"
  /\ OnlyPhase

(* An attempt that fails closes its endpoint; the loop goes on.            *)
AttemptFails ==
  /\ endpoint' = [endpoint EXCEPT ![candidates[next]] = "closed"]
  /\ next' = next + 1
  /\ phase' = "dialing"
  /\ UNCHANGED <<answer, candidates, now, deadline, h3Spent>>

(* Refused, or timed out.                                                  *)
HandshakeFails == phase = "handshaking" /\ AttemptFails

(* Fault: the early return on an h3 error leaves the endpoint open.        *)
H3FailsOpen ==
  /\ phase = "h3"
  /\ next' = next + 1
  /\ phase' = "dialing"
  /\ UNCHANGED <<answer, candidates, endpoint, now, deadline, h3Spent>>

H3Fails == phase = "h3" /\ AttemptFails

H3Succeeds ==
  /\ phase = "h3"
  /\ phase' = "connected"
  /\ OnlyPhase

GiveUp ==
  /\ phase = "dialing"
  /\ next \notin Dialled
  /\ phase' = "failed"
  /\ OnlyPhase

-----------------------------------------------------------------------------
(* Time passes only at an await, and not past its timeout.  The await of   *)
(* h3::client::new has none.                                               *)
Tick ==
  /\ \/ phase \in {"resolving", "handshaking"} /\ now < deadline
        /\ UNCHANGED h3Spent
     \/ phase = "h3" /\ h3Spent < MaxH3Wait
        /\ h3Spent' = h3Spent + 1
  /\ now' = now + 1
  /\ UNCHANGED <<phase, answer, candidates, next, endpoint, deadline>>

(* Fault: the handshake is awaited without a timeout.                      *)
OnlyResolveTimesOut == now = deadline /\ ResolveFails

TimeoutFires ==
  /\ now = deadline
  /\ ResolveFails \/ HandshakeFails

Next ==
  \/ Resolved \/ ResolveFails \/ (\E a \in Addr : Collect(a)) \/ Collected
  \/ BindFails \/ Open \/ HandshakeSucceeds \/ HandshakeFails
  \/ H3Succeeds \/ H3Fails \/ GiveUp
  \/ Tick

Spec == Init /\ [][Next]_vars

(* Time passes, timers fire and connect's own steps run.  The network owes *)
(* nothing: no answer of the resolver or of the peer is assumed.           *)
Fairness == WF_vars(Tick) /\ WF_vars(TimeoutFires)
            /\ WF_vars(Collected) /\ WF_vars(Open \/ BindFails)
            /\ WF_vars(GiveUp)

FairSpec == Spec /\ Fairness

-----------------------------------------------------------------------------
(* Properties                                                              *)

OpenEndpoints == {a \in Addr : endpoint[a] = "open"}

(* Each loser closes its endpoint before the next one is bound, a failed   *)
(* connect leaves none, and a successful one leaves the winner's: the spin *)
(* close_endpoint exists to stop.                                          *)
OneEndpointAtATime ==
  OpenEndpoints = IF phase \in {"handshaking", "h3", "connected"}
                  THEN {candidates[next]} ELSE {}

(* No address is dialled twice and the resolver's order is kept: the       *)
(* candidates are the answer's first occurrences, in order.                *)
FirstAt(s, a) ==
  CHOOSE i \in 1..Len(s) : s[i] = a /\ \A j \in 1..i-1 : s[j] # a

CandidatesKeepResolverOrder ==
  /\ {candidates[i] : i \in 1..Len(candidates)}
       = {answer[i] : i \in 1..Len(answer)}
  /\ \A i, j \in 1..Len(candidates) :
       i < j => FirstAt(answer, candidates[i]) < FirstAt(answer, candidates[j])

(* The plan fits the handshake budget, gives no attempt less than the      *)
(* floor, and gives a single address the whole of it (dial_plan).          *)
PlanFits ==
  /\ N * Budget <= HANDSHAKE_TIMEOUT
  /\ Budget >= MIN_ATTEMPT
  /\ Len(candidates) = 1 => Budget = HANDSHAKE_TIMEOUT

(* Resolution and handshakes together stay inside the connect budget       *)
(* however many candidates are dialled: what they spent is `now` without   *)
(* the time in h3 set-up.                                                  *)
HandshakesWithinBudget == now - h3Spent <= CONNECT_BUDGET

(* What the comment on CONNECT_BUDGET says: "Everything `connect` may      *)
(* spend" fits in the budget.                                              *)
ConnectWithinBudget ==
  phase \notin {"connected", "failed"} => now <= CONNECT_BUDGET

(* connect returns, but for h3 set-up: every other wait has a timeout.     *)
ReturnsOrWaitsForH3 == []<>(phase \in {"connected", "failed", "h3"})
=============================================================================
