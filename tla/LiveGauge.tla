------------------------------ MODULE LiveGauge ------------------------------
(***************************************************************************)
(* What `live_connections()` promises (src/client.rs): every QuicClient is *)
(* counted once, from the moment it is constructed until it is first       *)
(* retired, and never again.  A connect that fails is never counted.       *)
(***************************************************************************)
EXTENDS Naturals

CONSTANT Client     \* the QuicClients a process may ever construct

VARIABLES
  status,           \* "fresh", "counted" or "retired", for each client
  live              \* the gauge, LIVE_CONNECTIONS

vars == <<status, live>>

TypeOK ==
  /\ status \in [Client -> {"fresh", "counted", "retired"}]
  /\ live \in Nat

Init ==
  /\ status = [c \in Client |-> "fresh"]
  /\ live = 0

Construct(c) ==
  /\ status[c] = "fresh"
  /\ status' = [status EXCEPT ![c] = "counted"]
  /\ live' = live + 1

Retire(c) ==
  /\ status[c] = "counted"
  /\ status' = [status EXCEPT ![c] = "retired"]
  /\ live' = live - 1

Next == \E c \in Client : Construct(c) \/ Retire(c)

Spec == Init /\ [][Next]_vars
=============================================================================
