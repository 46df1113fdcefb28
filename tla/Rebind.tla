------------------------------- MODULE Rebind -------------------------------
(***************************************************************************)
(* QuicClient::rebind (client.rs): move the connection onto a new socket   *)
(* and tell the caller whether the gateway answered there.                 *)
(*                                                                         *)
(* Each call binds one socket, named after the call; Home is the socket    *)
(* the connection was made on.  The endpoint driver reads the sockets and  *)
(* counts what arrives on each (SpinFreeUdpSocket::received); the          *)
(* connection takes the datagrams from a mailbox and counts them in        *)
(* udp_rx, later.  The gateway, which is quinn too, moves to the address   *)
(* its newest packet came from, validates it, and falls back if it cannot. *)
(* The network loses and delays datagrams at will.                         *)
(***************************************************************************)
EXTENDS Integers, FiniteSets

CONSTANTS
  Call,         \* the calls of rebind()
  Home,         \* the connection's first socket
  NoSocket,     \* no previous socket is kept
  Disciplined,  \* one call at a time, none after an error (ffi.rs: an error
                \* means "reconnect"); the FFI does not enforce either
  MaxSent,      \* bound: datagrams the gateway sends
  MaxPolls      \* MIGRATION_PROOF_BUDGET in units of MIGRATION_POLL_INTERVAL

ASSUME RebindAssumption ==
  /\ Home \notin Call /\ NoSocket \notin Call \cup {Home}
  /\ Disciplined \in BOOLEAN
  /\ MaxSent \in Nat /\ MaxPolls \in Nat

Socket == Call \cup {Home}

VARIABLES
  noisy,        \* datagrams of no connection reach the client; fixed at Init
  closed,       \* Connection::close_reason is set
  cur, prev,    \* the endpoint's socket and the one it replaced, if kept
  arrived,      \* sockets with received_datagrams() > 0
  mailbox,      \* datagrams the driver handed to the connection
  udpRx,        \* datagrams the connection has taken from it
  path,         \* the address the gateway sends to
  newest,       \* the address the gateway's newest packet came from
  back,         \* the path it returns to if path is not validated, if any
  age,          \* when the client first sent from each socket
  pinged,       \* sockets the client has sent from, not yet heard there
  flight,       \* datagrams in flight from the gateway, by destination
  sent,         \* datagrams the gateway has sent
  pc, before, local, polls,   \* each call's position and variables
  verdict,      \* "none", "ok" or "err"
  answered      \* history: sockets the gateway's datagrams have arrived on

quinn == <<noisy, closed, cur, prev, arrived, mailbox, udpRx, answered>>
gateway == <<path, newest, back, age, pinged, flight, sent>>
calls == <<pc, before, local, polls, verdict>>
vars == <<quinn, gateway, calls>>

Active(r) == pc[r] \notin {"idle", "returned"}

TypeOK ==
  /\ noisy \in BOOLEAN /\ closed \in BOOLEAN
  /\ cur \in Socket
  /\ prev \in Socket \cup {NoSocket}
  /\ arrived \subseteq Socket
  /\ mailbox \in Nat
  /\ udpRx \in Nat
  /\ path \in Socket /\ newest \in Socket
  /\ back \in Socket \cup {NoSocket}
  /\ age \in [Socket -> Nat]
  /\ pinged \subseteq Socket
  /\ flight \in [Socket -> Nat]
  /\ sent \in Nat
  /\ pc \in [Call -> {"idle", "swap", "localAddr", "checkClosed", "checkProof",
                      "checkDeadline", "sleep", "returned"}]
  /\ before \in [Call -> Nat]
  /\ local \in [Call -> Socket \cup {NoSocket}]
  /\ polls \in [Call -> 0..MaxPolls]
  /\ verdict \in [Call -> {"none", "ok", "err"}]
  /\ answered \subseteq Socket

Init ==
  /\ noisy \in BOOLEAN
  /\ closed = FALSE
  /\ cur = Home /\ prev = NoSocket
  /\ arrived = {Home} /\ answered = {Home}
  /\ mailbox = 0 /\ udpRx = 0
  /\ path = Home /\ newest = Home /\ back = NoSocket
  /\ age = [s \in Socket |-> 0]
  /\ pinged = {}
  /\ flight = [s \in Socket |-> 0]
  /\ sent = 0
  /\ pc = [r \in Call |-> "idle"]
  /\ before = [r \in Call |-> 0]
  /\ local = [r \in Call |-> NoSocket]
  /\ polls = [r \in Call |-> 0]
  /\ verdict = [r \in Call |-> "none"]

-----------------------------------------------------------------------------
(* rebind()                                                                *)

Goto(r, at) == pc' = [pc EXCEPT ![r] = at]

Return(r, v) ==
  /\ Goto(r, "returned")
  /\ verdict' = [verdict EXCEPT ![r] = v]
  /\ UNCHANGED <<before, local, polls, quinn, gateway>>

Snapshot(r) ==
  /\ pc[r] = "idle"
  /\ Disciplined => \A q \in Call : pc[q] = "idle" \/ verdict[q] = "ok"
  /\ before' = [before EXCEPT ![r] = udpRx]
  /\ Goto(r, "swap")
  /\ UNCHANGED <<local, polls, verdict, quinn, gateway>>

(* client_socket or rebind_abstract returns an error: nothing was swapped. *)
BindFails(r) == pc[r] = "swap" /\ Return(r, "err")

(* rebind_abstract: the old socket is kept as prev, the connection sends a *)
(* PING from the new one.  A closed connection sends nothing.              *)
Swap(r) ==
  /\ pc[r] = "swap"
  /\ prev' = cur
  /\ cur' = r
  /\ pinged' = IF closed THEN pinged ELSE pinged \cup {r}
  /\ age' = [age EXCEPT ![r] = age[cur] + 1]
  /\ Goto(r, "localAddr")
  /\ UNCHANGED <<noisy, closed, arrived, mailbox, udpRx, answered, path, newest,
                 back, flight, sent, before, local, polls, verdict>>

(* Fault: the address is that of the socket just replaced.                 *)
LocalAddrOfOld(r) ==
  /\ pc[r] = "localAddr"
  /\ local' = [local EXCEPT ![r] = prev]
  /\ Goto(r, "checkClosed")
  /\ UNCHANGED <<before, polls, verdict, quinn, gateway>>

LocalAddr(r) ==
  /\ pc[r] = "localAddr"
  /\ local' = [local EXCEPT ![r] = cur]
  /\ Goto(r, "checkClosed")
  /\ UNCHANGED <<before, polls, verdict, quinn, gateway>>

(* The error leaves the endpoint on the new socket.                        *)
LocalAddrFails(r) == pc[r] = "localAddr" /\ Return(r, "err")

Step(r, at) ==
  /\ Goto(r, at)
  /\ UNCHANGED <<before, local, polls, verdict, quinn, gateway>>

CheckClosed(r) ==
  /\ pc[r] = "checkClosed"
  /\ IF closed THEN Return(r, "err") ELSE Step(r, "checkProof")

(* Fault: the connection's own counter is proof enough.                    *)
ProofByCounter(r) == udpRx > before[r]

(* Something arrived here, and the connection accepted something.          *)
Proof(r) == r \in arrived /\ udpRx > before[r]

CheckProof(r) ==
  /\ pc[r] = "checkProof"
  /\ IF Proof(r) THEN Return(r, "ok") ELSE Step(r, "checkDeadline")

(* Fault: one poll after the deadline.                                     *)
CheckDeadlineLate(r) ==
  /\ pc[r] = "checkDeadline"
  /\ IF polls[r] > MaxPolls THEN Return(r, "err") ELSE Step(r, "sleep")

(* Fault: the loop waits for proof or for the connection to die.           *)
NoDeadline(r) == pc[r] = "checkDeadline" /\ Step(r, "checkClosed")

CheckDeadline(r) ==
  /\ pc[r] = "checkDeadline"
  /\ IF polls[r] >= MaxPolls THEN Return(r, "err") ELSE Step(r, "sleep")

(* Fault: the clock is read as soon as the sleep is over.                  *)
SleepThenGiveUp(r) ==
  /\ pc[r] = "sleep"
  /\ polls' = [polls EXCEPT ![r] = @ + 1]
  /\ Goto(r, IF polls'[r] >= MaxPolls THEN "returned" ELSE "checkClosed")
  /\ verdict' =
       [verdict EXCEPT ![r] = IF polls'[r] >= MaxPolls THEN "err" ELSE @]
  /\ UNCHANGED <<before, local, quinn, gateway>>

Sleep(r) ==
  /\ pc[r] = "sleep"
  /\ polls' = [polls EXCEPT ![r] = @ + 1]
  /\ Goto(r, "checkClosed")
  /\ UNCHANGED <<before, local, verdict, quinn, gateway>>

Rebind(r) ==
  \/ BindFails(r) \/ Swap(r) \/ LocalAddr(r) \/ LocalAddrFails(r)
  \/ CheckClosed(r) \/ CheckProof(r) \/ CheckDeadline(r) \/ Sleep(r)

-----------------------------------------------------------------------------
(* The endpoint driver, the connection, the gateway and the network.       *)

(* poll_recv hands a datagram of the connection to quinn; the first one on *)
(* the new socket lets go of the previous one.                             *)
Deliver(s) ==
  /\ flight[s] > 0
  /\ s \in {cur, prev}
  /\ flight' = [flight EXCEPT ![s] = @ - 1]
  /\ arrived' = arrived \cup {s}
  /\ answered' = answered \cup {s}
  /\ mailbox' = mailbox + 1
  /\ prev' = IF s = cur THEN NoSocket ELSE prev
  /\ UNCHANGED <<noisy, closed, cur, udpRx, path, newest, back, age, pinged,
                 sent, calls>>

(* A datagram of no connection (noise, too short to de-obfuscate, an       *)
(* unknown connection ID) is counted by the socket and dropped by quinn.   *)
DeliverStray(s) ==
  /\ noisy
  /\ s \in {cur, prev}
  /\ arrived' = arrived \cup {s}
  /\ UNCHANGED <<noisy, closed, cur, prev, mailbox, udpRx, answered, gateway,
                 calls>>

(* poll_recv returns an error on the previous socket, which quinn then     *)
(* lets go of unread.  (On the current one it ends the driver: ConnDies.)  *)
PrevFails ==
  /\ prev # NoSocket
  /\ prev' = NoSocket
  /\ UNCHANGED <<noisy, closed, cur, arrived, mailbox, udpRx, answered, gateway,
                 calls>>

Lose(s) ==
  /\ flight[s] > 0
  /\ flight' = [flight EXCEPT ![s] = @ - 1]
  /\ UNCHANGED <<path, newest, back, age, pinged, sent, quinn, calls>>

Accept ==
  /\ mailbox > 0 /\ ~closed
  /\ mailbox' = mailbox - 1
  /\ udpRx' = udpRx + 1
  /\ UNCHANGED <<noisy, closed, cur, prev, arrived, answered, gateway, calls>>

(* Keep-alives, acknowledgements, answers to a path challenge.             *)
ClientSends ==
  /\ ~closed
  /\ cur \notin pinged
  /\ pinged' = pinged \cup {cur}
  /\ UNCHANGED <<path, newest, back, age, flight, sent, quinn, calls>>

(* The gateway follows its newest packet, so one that was overtaken does   *)
(* not move it back.  It remembers the last path it had validated.         *)
GatewayHears(s) ==
  /\ s \in pinged
  /\ pinged' = pinged \ {s}
  /\ IF age[s] >= age[newest]
     THEN /\ newest' = s
          /\ path' = s
          /\ back' = IF s # path /\ back = NoSocket THEN path ELSE back
     ELSE UNCHANGED <<newest, path, back>>
  /\ UNCHANGED <<age, flight, sent, quinn, calls>>

(* Its challenge was answered, or was not answered in time.                *)
PathValidated ==
  /\ back # NoSocket /\ path \in answered
  /\ back' = NoSocket
  /\ UNCHANGED <<path, newest, age, pinged, flight, sent, quinn, calls>>

PathReverts ==
  /\ back # NoSocket
  /\ path' = back
  /\ back' = NoSocket
  /\ UNCHANGED <<newest, age, pinged, flight, sent, quinn, calls>>

(* Data to its path, challenges to the one it left as well.                *)
GatewaySends ==
  /\ sent < MaxSent
  /\ sent' = sent + 1
  /\ \E to \in {path, back} \ {NoSocket} :
       flight' = [flight EXCEPT ![to] = @ + 1]
  /\ UNCHANGED <<path, newest, back, age, pinged, quinn, calls>>

(* close(), the peer, the idle timeout, or the endpoint driver ended.      *)
ConnDies ==
  /\ ~closed
  /\ closed' = TRUE
  /\ UNCHANGED <<noisy, cur, prev, arrived, mailbox, udpRx, answered, gateway,
                 calls>>

Next ==
  \/ \E r \in Call : Snapshot(r) \/ Rebind(r)
  \/ \E s \in Socket :
       Deliver(s) \/ DeliverStray(s) \/ Lose(s) \/ GatewayHears(s)
  \/ PrevFails \/ Accept \/ ConnDies
  \/ ClientSends \/ PathValidated \/ PathReverts \/ GatewaySends

Spec == Init /\ [][Next]_vars

(* A call that runs keeps running; nothing is assumed of the network.      *)
FairSpec == Spec /\ \A r \in Call : WF_vars(Rebind(r))

-----------------------------------------------------------------------------
(* Properties                                                              *)

(* A call returns ok only if the gateway's own datagram reached the socket *)
(* this call bound, and the address it returns is that socket's.  What     *)
(* arrives late on the previous socket, which quinn keeps, proves nothing. *)
(* Noise on the new socket together with such a late datagram would pass   *)
(* for an answer, so this holds where the client hears only its gateway.   *)
OkMeansAnswered == \A r \in Call :
  verdict[r] = "ok" /\ ~noisy => local[r] = r /\ r \in answered

(* Once a call has succeeded and until the next one swaps again, the       *)
(* previous socket is let go and nothing has reached the gateway from a    *)
(* newer address than this one (rebind, rebind_abstract).  Not that the    *)
(* gateway stays there: if it cannot validate the new path it falls back   *)
(* to the old address, which nobody reads, until it hears the client again. *)
OkMeansMoved == \A r \in Call :
  verdict[r] = "ok" /\ cur = r /\ ~noisy => prev = NoSocket /\ newest = r

(* An answer that is there before the last look at the sockets counts,     *)
(* even if the deadline passes meanwhile: the loop looks for proof before  *)
(* it looks at the clock, and a caller is not sent to reconnect for a poll *)
(* interval.  Only the end of the connection overrules it.                 *)
AnswerInTimeCounts == \A r \in Call :
  (pc[r] \in {"checkClosed", "checkProof", "sleep"} /\ Proof(r)) ~>
    (verdict[r] = "ok" \/ closed)

(* ffi.rs: "return the new local address once the gateway has answered on  *)
(* it", of whatever calls run together (without noise, so that what the    *)
(* run finds is the calls' own doing).                                     *)
ReturnedAddressAnswered == \A r \in Call :
  verdict[r] = "ok" /\ ~noisy => local[r] \in answered

(* Every call returns, whatever the gateway and the network do.            *)
RebindReturns == \A r \in Call : Active(r) ~> pc[r] = "returned"
=============================================================================
