--------------------------- MODULE ClientLifecycle ---------------------------
(***************************************************************************)
(* The life of a QuicClient: the handshake that makes it (client.rs), the  *)
(* foreign calls that use it through the FFI (ffi.rs), and its teardown,   *)
(* which close() and Drop both reach through retire().                     *)
(*                                                                         *)
(* A process is whoever executes one FFI call: the task `on_rt` spawns on  *)
(* the runtime, or the foreign thread in a synchronous call.  `on_rt`      *)
(* detaches its task when the caller stops waiting, so a call runs to its  *)
(* end and keeps its Arc<QuicClient> until then, awaited or not.           *)
(*                                                                         *)
(* Each client stands for one bound endpoint: one run of `handshake`.      *)
(* quinn and h3 are external; they are modelled from how client.rs uses    *)
(* them and from what its comments say of them.                            *)
(***************************************************************************)
EXTENDS Integers, FiniteSets

CONSTANTS Client, Proc

ASSUME FiniteInstances == IsFiniteSet(Client) /\ IsFiniteSet(Proc)

VARIABLES
  client,     \* "unused", "dialing", "alive", "dropped", or "failed" connect
  conn,       \* the quinn connection: "none", "open", "closed"
  endpoint,   \* "unbound", "open", or "closed" by Endpoint::close
  handle,     \* an Endpoint handle is held by handshake or by the QuicClient
  epDriver,   \* quinn's endpoint driver task: "none", "running", "stopped"
  h3Driver,   \* the spawned h3 driver: "none", "running", "aborted", "ended"
  retired,    \* QuicClient::retired
  gauge,      \* LIVE_CONNECTIONS
  swift,      \* the foreign reference: "none", "waiting", "held", "released"
  stream,     \* the foreign side holds an open QuicStream of the client
  pc,         \* where each process is
  on,         \* the client it is working on
  dropping    \* it runs retire() from Drop, holding no reference itself

vars == <<client, conn, endpoint, handle, epDriver, h3Driver, retired, gauge,
          swift, stream, pc, on, dropping>>

RetireStep == {"closeConn", "abortDriver", "closeEndpoint", "swap", "sub",
               "retireDone"}

TypeOK ==
  /\ client \in [Client -> {"unused", "dialing", "alive", "dropped", "failed"}]
  /\ conn \in [Client -> {"none", "open", "closed"}]
  /\ endpoint \in [Client -> {"unbound", "open", "closed"}]
  /\ handle \in [Client -> BOOLEAN]
  /\ epDriver \in [Client -> {"none", "running", "stopped"}]
  /\ h3Driver \in [Client -> {"none", "running", "aborted", "ended"}]
  /\ retired \in [Client -> BOOLEAN]
  /\ gauge \in Nat
  /\ swift \in [Client -> {"none", "waiting", "held", "released"}]
  /\ stream \in [Client -> BOOLEAN]
  /\ pc \in [Proc -> {"idle", "handshake", "h3", "built", "openStream",
                      "recv", "rebind"} \cup RetireStep]
  /\ on \in [Proc -> Client]
  /\ dropping \in [Proc -> BOOLEAN]

Init ==
  /\ client = [c \in Client |-> "unused"]
  /\ conn = [c \in Client |-> "none"]
  /\ endpoint = [c \in Client |-> "unbound"]
  /\ handle = [c \in Client |-> FALSE]
  /\ epDriver = [c \in Client |-> "none"]
  /\ h3Driver = [c \in Client |-> "none"]
  /\ retired = [c \in Client |-> FALSE]
  /\ gauge = 0
  /\ swift = [c \in Client |-> "none"]
  /\ stream = [c \in Client |-> FALSE]
  /\ pc = [p \in Proc |-> "idle"]
  /\ on \in [Proc -> Client]
  /\ dropping = [p \in Proc |-> FALSE]

-----------------------------------------------------------------------------
(* References: who keeps the QuicClient of c from being dropped.           *)

HoldsClient(p, c) ==
  /\ on[p] = c
  /\ ~dropping[p]
  /\ pc[p] \in {"openStream", "rebind"} \cup RetireStep

Goto(p, at) == pc' = [pc EXCEPT ![p] = at]

Enter(p, c, at) ==
  /\ pc[p] = "idle"
  /\ Goto(p, at)
  /\ on' = [on EXCEPT ![p] = c]

(* p lets go of a reference to c.  The Arc count falls atomically: whoever *)
(* takes it to zero runs Drop, and Drop runs retire().                     *)
LetGo(p, c, foreign) ==
  IF foreign = "held" \/ \E q \in Proc \ {p} : HoldsClient(q, c)
  THEN /\ Goto(p, "idle")
       /\ UNCHANGED dropping
  ELSE /\ Goto(p, "closeConn")
       /\ dropping' = [dropping EXCEPT ![p] = TRUE]

-----------------------------------------------------------------------------
(* QuicChannel::connect, connect_obfuscated: one endpoint, one handshake.  *)

StartConnect(p, c) ==
  /\ client[c] = "unused"
  /\ Enter(p, c, "handshake")
  /\ client' = [client EXCEPT ![c] = "dialing"]
  /\ endpoint' = [endpoint EXCEPT ![c] = "open"]
  /\ handle' = [handle EXCEPT ![c] = TRUE]
  /\ epDriver' = [epDriver EXCEPT ![c] = "running"]
  /\ swift' = [swift EXCEPT ![c] = "waiting"]
  /\ UNCHANGED <<conn, h3Driver, retired, gauge, stream, dropping>>

HandshakeSucceeds(p) ==
  /\ pc[p] = "handshake"
  /\ epDriver[on[p]] = "running"
  /\ conn' = [conn EXCEPT ![on[p]] = "open"]
  /\ Goto(p, "h3")
  /\ UNCHANGED <<client, endpoint, handle, epDriver, h3Driver, retired, gauge,
                 swift, stream, on, dropping>>

(* Endpoint::close: refuse new connections, close every one there is.      *)
CloseEndpoint(c) ==
  /\ endpoint' = [endpoint EXCEPT ![c] = "closed"]
  /\ conn' = [conn EXCEPT ![c] = IF @ = "open" THEN "closed" ELSE @]

(* An early return of `handshake`: it closes the endpoint, and its handle  *)
(* goes with the stack frame.  The caller, if there is one, gets the error. *)
FailAttempt(p) ==
  /\ CloseEndpoint(on[p])
  /\ handle' = [handle EXCEPT ![on[p]] = FALSE]
  /\ client' = [client EXCEPT ![on[p]] = "failed"]
  /\ swift' = [swift EXCEPT ![on[p]] = "released"]
  /\ Goto(p, "idle")
  /\ UNCHANGED <<epDriver, h3Driver, retired, gauge, stream, on, dropping>>

(* Refused, timed out, or the endpoint died underneath it.                 *)
HandshakeFails(p) == pc[p] = "handshake" /\ FailAttempt(p)

(* Fault: the early return on an h3 error leaves the endpoint as it is.    *)
H3FailsOpen(p) ==
  /\ pc[p] = "h3"
  /\ handle' = [handle EXCEPT ![on[p]] = FALSE]
  /\ client' = [client EXCEPT ![on[p]] = "failed"]
  /\ swift' = [swift EXCEPT ![on[p]] = "released"]
  /\ Goto(p, "idle")
  /\ UNCHANGED <<conn, endpoint, epDriver, h3Driver, retired, gauge, stream, on,
                 dropping>>

(* h3::client::new: nothing bounds it but the life of the connection.      *)
H3Fails(p) == pc[p] = "h3" /\ FailAttempt(p)

H3Succeeds(p) ==
  /\ pc[p] = "h3"
  /\ conn[on[p]] = "open"
  /\ h3Driver' = [h3Driver EXCEPT ![on[p]] = "running"]
  /\ gauge' = gauge + 1
  /\ client' = [client EXCEPT ![on[p]] = "alive"]
  /\ Goto(p, "built")
  /\ UNCHANGED <<conn, endpoint, handle, epDriver, retired, swift, stream, on,
                 dropping>>

(* The caller's future is dropped; the task on the runtime goes on.        *)
CancelConnect(c) ==
  /\ swift[c] = "waiting"
  /\ swift' = [swift EXCEPT ![c] = "released"]
  /\ UNCHANGED <<client, conn, endpoint, handle, epDriver, h3Driver, retired,
                 gauge, stream, pc, on, dropping>>

(* Fault: a client built for a caller that left is forgotten.              *)
DeliverForgets(p) ==
  /\ pc[p] = "built"
  /\ swift' = [swift EXCEPT ![on[p]] = IF @ = "waiting" THEN "held" ELSE @]
  /\ Goto(p, "idle")
  /\ UNCHANGED <<client, conn, endpoint, handle, epDriver, h3Driver, retired,
                 gauge, stream, on, dropping>>

(* The task's output reaches the caller, or is dropped with nobody waiting. *)
Deliver(p) ==
  /\ pc[p] = "built"
  /\ swift' = [swift EXCEPT ![on[p]] = IF @ = "waiting" THEN "held" ELSE @]
  /\ LetGo(p, on[p], swift'[on[p]])
  /\ UNCHANGED <<client, conn, endpoint, handle, epDriver, h3Driver, retired,
                 gauge, stream, on>>

-----------------------------------------------------------------------------
(* The calls a foreign holder makes.                                       *)

OnlyProcs == UNCHANGED <<client, conn, endpoint, handle, epDriver, h3Driver,
                         retired, gauge, swift>>

StartOpenStream(p, c) ==
  /\ swift[c] = "held"
  /\ Enter(p, c, "openStream")
  /\ OnlyProcs /\ UNCHANGED <<stream, dropping>>

(* Fault: a parked open_stream is not woken by the end of the connection.  *)
OpenStreamSleeps(p) ==
  /\ pc[p] = "openStream"
  /\ conn[on[p]] = "open"
  /\ UNCHANGED stream
  /\ LetGo(p, on[p], swift[on[p]])
  /\ OnlyProcs /\ UNCHANGED on

(* send_request waits for the peer's stream credit; a closed connection    *)
(* ends the wait.  A stream opened for a caller that left is dropped.      *)
OpenStreamReturns(p) ==
  /\ pc[p] = "openStream"
  /\ \/ /\ conn[on[p]] = "open"
        /\ stream' = [stream EXCEPT ![on[p]] = TRUE]
     \/ UNCHANGED stream
  /\ LetGo(p, on[p], swift[on[p]])
  /\ OnlyProcs /\ UNCHANGED on

StartRebind(p, c) ==
  /\ swift[c] = "held"
  /\ Enter(p, c, "rebind")
  /\ OnlyProcs /\ UNCHANGED <<stream, dropping>>

(* rebind() polls up to a deadline, so it returns whatever the peer does.  *)
RebindReturns(p) ==
  /\ pc[p] = "rebind"
  /\ LetGo(p, on[p], swift[on[p]])
  /\ OnlyProcs /\ UNCHANGED <<stream, on>>

(* recv_message holds its stream, not the client.                          *)
StartRecv(p, c) ==
  /\ stream[c]
  /\ Enter(p, c, "recv")
  /\ OnlyProcs /\ UNCHANGED <<stream, dropping>>

RecvReturns(p) ==
  /\ pc[p] = "recv"
  /\ Goto(p, "idle")
  /\ OnlyProcs /\ UNCHANGED <<stream, on, dropping>>

ReleaseStream(c) ==
  /\ stream[c]
  /\ stream' = [stream EXCEPT ![c] = FALSE]
  /\ OnlyProcs /\ UNCHANGED <<pc, on, dropping>>

ReleaseChannel(p, c) ==
  /\ swift[c] = "held"
  /\ pc[p] = "idle"
  /\ swift' = [swift EXCEPT ![c] = "released"]
  /\ on' = [on EXCEPT ![p] = c]
  /\ LetGo(p, c, "released")
  /\ UNCHANGED <<client, conn, endpoint, handle, epDriver, h3Driver, retired,
                 gauge, stream>>

-----------------------------------------------------------------------------
(* retire(), one step per line: close() enters it here, Drop from LetGo.   *)

(* Fault: close() only takes the client off the gauge, and tears nothing   *)
(* down before Drop.                                                       *)
CloseOnlyCounts(p, c) ==
  /\ swift[c] = "held"
  /\ Enter(p, c, "swap")
  /\ OnlyProcs /\ UNCHANGED <<stream, dropping>>

Close(p, c) ==
  /\ swift[c] = "held"
  /\ Enter(p, c, "closeConn")
  /\ OnlyProcs /\ UNCHANGED <<stream, dropping>>

CloseConn(p) ==
  /\ pc[p] = "closeConn"
  /\ conn' = [conn EXCEPT ![on[p]] = "closed"]
  /\ Goto(p, "abortDriver")
  /\ UNCHANGED <<client, endpoint, handle, epDriver, h3Driver, retired, gauge,
                 swift, stream, on, dropping>>

(* Fault: the h3 driver is detached instead of aborted.                    *)
DriverDetached(p) ==
  /\ pc[p] = "abortDriver"
  /\ Goto(p, "closeEndpoint")
  /\ UNCHANGED <<client, conn, endpoint, handle, epDriver, h3Driver, retired,
                 gauge, swift, stream, on, dropping>>

AbortDriver(p) ==
  /\ pc[p] = "abortDriver"
  /\ h3Driver' =
       [h3Driver EXCEPT ![on[p]] = IF @ = "running" THEN "aborted" ELSE @]
  /\ Goto(p, "closeEndpoint")
  /\ UNCHANGED <<client, conn, endpoint, handle, epDriver, retired, gauge,
                 swift, stream, on, dropping>>

(* Fault: retire() closes the connection but leaves the endpoint to Drop.  *)
EndpointLeftOpen(p) ==
  /\ pc[p] = "closeEndpoint"
  /\ Goto(p, "swap")
  /\ UNCHANGED <<client, conn, endpoint, handle, epDriver, h3Driver, retired,
                 gauge, swift, stream, on, dropping>>

RetireEndpoint(p) ==
  /\ pc[p] = "closeEndpoint"
  /\ CloseEndpoint(on[p])
  /\ Goto(p, "swap")
  /\ UNCHANGED <<client, handle, epDriver, h3Driver, retired, gauge, swift,
                 stream, on, dropping>>

(* Fault: retire() forgets that it has run before.                         *)
SwapIgnored(p) ==
  /\ pc[p] = "swap"
  /\ retired' = [retired EXCEPT ![on[p]] = TRUE]
  /\ Goto(p, "sub")
  /\ UNCHANGED <<client, conn, endpoint, handle, epDriver, h3Driver, gauge,
                 swift, stream, on, dropping>>

SwapRetired(p) ==
  /\ pc[p] = "swap"
  /\ retired' = [retired EXCEPT ![on[p]] = TRUE]
  /\ Goto(p, IF retired[on[p]] THEN "retireDone" ELSE "sub")
  /\ UNCHANGED <<client, conn, endpoint, handle, epDriver, h3Driver, gauge,
                 swift, stream, on, dropping>>

SubGauge(p) ==
  /\ pc[p] = "sub"
  /\ gauge' = gauge - 1
  /\ Goto(p, "retireDone")
  /\ UNCHANGED <<client, conn, endpoint, handle, epDriver, h3Driver, retired,
                 swift, stream, on, dropping>>

(* close() returns and its borrow ends: it may have been the last one.     *)
CloseReturns(p) ==
  /\ pc[p] = "retireDone"
  /\ ~dropping[p]
  /\ LetGo(p, on[p], swift[on[p]])
  /\ OnlyProcs /\ UNCHANGED <<stream, on>>

(* Fault: drop takes the client off the gauge a second time.               *)
DropSubtracts(p) ==
  /\ pc[p] = "retireDone"
  /\ dropping[p]
  /\ client' = [client EXCEPT ![on[p]] = "dropped"]
  /\ handle' = [handle EXCEPT ![on[p]] = FALSE]
  /\ dropping' = [dropping EXCEPT ![p] = FALSE]
  /\ gauge' = gauge - 1
  /\ Goto(p, "idle")
  /\ UNCHANGED <<conn, endpoint, epDriver, h3Driver, retired, swift, stream, on>>

(* After Drop::drop the fields go: with them the last Endpoint handle.     *)
DropFields(p) ==
  /\ pc[p] = "retireDone"
  /\ dropping[p]
  /\ client' = [client EXCEPT ![on[p]] = "dropped"]
  /\ handle' = [handle EXCEPT ![on[p]] = FALSE]
  /\ dropping' = [dropping EXCEPT ![p] = FALSE]
  /\ Goto(p, "idle")
  /\ UNCHANGED <<conn, endpoint, epDriver, h3Driver, retired, gauge, swift,
                 stream, on>>

-----------------------------------------------------------------------------
(* quinn and h3, and the network behind them.                              *)

OnlyConn == UNCHANGED <<client, endpoint, handle, retired, gauge, swift,
                        stream, pc, on, dropping>>

(* Idle timeout, or the peer closed the connection.                        *)
ConnDies(c) ==
  /\ conn[c] = "open"
  /\ conn' = [conn EXCEPT ![c] = "closed"]
  /\ OnlyConn /\ UNCHANGED <<epDriver, h3Driver>>

(* poll_recv returns a receive error: quinn ends the driver, and every     *)
(* connection of the endpoint with it.                                     *)
EndpointFails(c) ==
  /\ epDriver[c] = "running"
  /\ epDriver' = [epDriver EXCEPT ![c] = "stopped"]
  /\ conn' = [conn EXCEPT ![c] = IF @ = "open" THEN "closed" ELSE @]
  /\ OnlyConn /\ UNCHANGED h3Driver

(* The driver may end once no handle and no connection is left.            *)
EndpointDriverStops(c) ==
  /\ epDriver[c] = "running"
  /\ ~handle[c]
  /\ conn[c] # "open"
  /\ epDriver' = [epDriver EXCEPT ![c] = "stopped"]
  /\ OnlyConn /\ UNCHANGED <<conn, h3Driver>>

H3DriverEnds(c) ==
  /\ \/ h3Driver[c] = "running" /\ conn[c] = "closed"
     \/ h3Driver[c] = "aborted"
  /\ h3Driver' = [h3Driver EXCEPT ![c] = "ended"]
  /\ OnlyConn /\ UNCHANGED <<conn, epDriver>>

-----------------------------------------------------------------------------
ForeignCall ==
  \/ \E p \in Proc, c \in Client :
       \/ StartConnect(p, c) \/ StartOpenStream(p, c) \/ StartRebind(p, c)
       \/ StartRecv(p, c) \/ ReleaseChannel(p, c) \/ Close(p, c)
  \/ \E c \in Client : CancelConnect(c) \/ ReleaseStream(c)

Handshake(p) == HandshakeSucceeds(p) \/ HandshakeFails(p)

Retire(p) == \/ CloseConn(p) \/ AbortDriver(p) \/ RetireEndpoint(p)
             \/ SwapRetired(p) \/ SubGauge(p) \/ CloseReturns(p)
             \/ DropFields(p)

Task == \E p \in Proc :
  \/ Handshake(p) \/ H3Succeeds(p) \/ H3Fails(p) \/ Deliver(p)
  \/ OpenStreamReturns(p) \/ RebindReturns(p) \/ RecvReturns(p)
  \/ Retire(p)

Network == \E c \in Client :
  ConnDies(c) \/ EndpointFails(c) \/ EndpointDriverStops(c) \/ H3DriverEnds(c)

Next == ForeignCall \/ Task \/ Network

Spec == Init /\ [][Next]_vars

(* RT has worker threads of its own, so a runnable task is polled.  The    *)
(* handshake has a timeout and rebind a deadline.  Nothing is assumed of   *)
(* the peer: h3 set-up, open_stream and recv are only sure to return once  *)
(* the connection is closed.  Nor is the foreign side assumed to release   *)
(* anything.  An endpoint driver is only sure to end once Endpoint::close  *)
(* has told it to: dropping the handle does not stop it (the comment on    *)
(* close_endpoint).                                                        *)
Fairness ==
  /\ \A p \in Proc :
       /\ WF_vars(Handshake(p))
       /\ WF_vars(Deliver(p))
       /\ WF_vars(RebindReturns(p))
       /\ WF_vars(Retire(p))
       /\ WF_vars(conn[on[p]] = "closed"
                  /\ (H3Fails(p) \/ OpenStreamReturns(p) \/ RecvReturns(p)))
  /\ \A c \in Client :
       /\ WF_vars(endpoint[c] = "closed" /\ EndpointDriverStops(c))
       /\ WF_vars(H3DriverEnds(c))

FairSpec == Spec /\ Fairness

-----------------------------------------------------------------------------
(* Properties                                                              *)

Counted ==
  {c \in Client : \/ client[c] = "alive" /\ ~retired[c]
                  \/ \E p \in Proc : pc[p] = "sub" /\ on[p] = c}

(* live_connections() never says less than there is: a client whose        *)
(* connection is still open is counted, so conns=0 in the RUNTIME line     *)
(* means that nothing was leaked (retire closes before it subtracts).      *)
GaugeCoversOpen ==
  Cardinality({c \in Client : client[c] = "alive" /\ conn[c] = "open"})
    <= gauge

(* The doc comment of live_connections(): "How many QUIC connections this  *)
(* process currently holds open.  Open, not referenced."                   *)
GaugeCountsOnlyOpen ==
  (\A p \in Proc : pc[p] \notin RetireStep) =>
    gauge <= Cardinality({c \in Client : conn[c] = "open"})

(* A client marked retired is already torn down, whichever of several      *)
(* racing close() calls and Drop marked it: its connection and its         *)
(* endpoint are closed and its h3 driver is not left running.              *)
RetiredIsTornDown == \A c \in Client :
  retired[c] => /\ conn[c] = "closed"
                /\ endpoint[c] = "closed"
                /\ h3Driver[c] # "running"

(* An endpoint nobody holds any more was closed first: neither an early    *)
(* return of handshake nor the drop of a client leaves one running         *)
(* (close_endpoint, "Every early return from here on").                    *)
NoEndpointLeftBehind == \A c \in Client :
  client[c] \in {"failed", "dropped"} =>
    /\ ~handle[c]
    /\ endpoint[c] = "closed"
    /\ conn[c] # "open"

(* The gauge counts each client from construction to first retirement,     *)
(* once, however many closes race with each other and with Drop.           *)
GaugeStatus ==
  [c \in Client |->
    IF client[c] \in {"unused", "dialing", "failed"} THEN "fresh"
    ELSE IF c \in Counted THEN "counted" ELSE "retired"]

GaugeIsLive == INSTANCE LiveGauge WITH live <- gauge, status <- GaugeStatus

GaugeSpec == GaugeIsLive!Spec

(* Every call pending on a closed connection returns: close() and a dying  *)
(* connection both wake a parked open_stream, recv_message or rebind.      *)
CallsReturnAfterClose == \A p \in Proc :
  (pc[p] # "idle" /\ conn[on[p]] = "closed") ~> pc[p] = "idle"

(* A client the foreign side let go of (or never received, having          *)
(* cancelled its connect) is dropped, unless an open_stream is parked on a *)
(* live connection; streams still held do not keep it.                     *)
ParkedOpenStream(c) ==
  conn[c] = "open" /\ \E p \in Proc : pc[p] = "openStream" /\ on[p] = c

ReleasedClientIsDropped == \A c \in Client :
  (client[c] = "alive" /\ swift[c] = "released") ~>
    (client[c] = "dropped" \/ ParkedOpenStream(c))

(* Nothing of a finished client runs on: its endpoint driver and its h3    *)
(* driver both stop (tests/runtime_drains.rs), held streams or not.  It    *)
(* rests on close_endpoint at every exit, since no driver is assumed to    *)
(* stop on an endpoint that was only dropped.                              *)
RuntimeDrains == \A c \in Client :
  client[c] \in {"failed", "dropped"} ~>
    (epDriver[c] = "stopped" /\ h3Driver[c] \in {"none", "ended"})
=============================================================================
