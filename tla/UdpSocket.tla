------------------------------ MODULE UdpSocket ------------------------------
(***************************************************************************)
(* One direction of the datagrams of a connection: quinn's transmits go    *)
(* through the sender's socket to the network, and from the receiver's     *)
(* socket to its endpoint driver.  Both sockets are a SpinFreeUdpSocket    *)
(* (spin_free_socket.rs), inside an ObfuscatedUdpSocket (obf_socket.rs)    *)
(* when there is a pre-shared key.                                         *)
(*                                                                         *)
(* External: tokio's readiness is set by the kernel and cleared by try_io  *)
(* on WouldBlock alone; quinn's endpoint driver polls until Pending, goes  *)
(* on after a ConnectionReset and ends at any other error.                 *)
(***************************************************************************)
EXTENDS Salamander

CONSTANTS
  NoPsk,                \* plain QUIC
  Packet,               \* what quinn sends
  Stray,                \* datagrams of others that may arrive
  MTUD_UPPER_BOUND,     \* the largest datagram quinn's MTU discovery tries
  PathMtu,              \* the largest the kernel takes
  Batch,                \* buffers of one poll_recv
  MaxSent, MaxArrivals  \* bounds

ASSUME SocketAssumption ==
  /\ NoPsk \notin Psk
  /\ Packet \subseteq Seq(Byte) \ {<<>>} /\ Stray \subseteq Seq(Byte)
  /\ {MTUD_UPPER_BOUND, PathMtu, MaxSent, MaxArrivals} \subseteq Nat
  /\ MTUD_UPPER_BOUND >= SALT_LEN
  /\ Batch \in Nat \ {0}

VARIABLES
  psk,          \* the key of the connection, the same at both ends, or NoPsk
  wrap,         \* the key in the sender's present socket, or NoPsk
  handed,       \* packets quinn has handed over
  out,          \* those it still has to send
  writable,     \* the sender's socket is thought to be writable
  routed,       \* the sender has always had a route
  net,          \* datagrams on the network, each with the packet it carries,
                \* <<>> for those of others
  rxq,          \* the receiver's kernel queue
  arrivals,     \* how many datagrams have reached it
  error,        \* its pending error, or "none"
  readable,     \* tokio's readiness of the receiver's socket
  driver,       \* the receiver's endpoint driver: polling, parked, ended
  received,     \* the socket's counter of delivered datagrams
  delivered,    \* what of them was not empty
  recvErrors, sendErrors

sender == <<wrap, handed, out, writable, routed, sendErrors>>
kernel == <<rxq, arrivals, error>>
receiver == <<readable, driver, received, delivered, recvErrors>>
vars == <<psk, sender, net, kernel, receiver>>

Init ==
  /\ psk \in Psk \cup {NoPsk}
  /\ wrap = psk
  /\ handed = 0 /\ out = <<>> /\ writable = TRUE /\ routed = TRUE
  /\ net = {} /\ rxq = <<>> /\ arrivals = 0 /\ error = "none"
  /\ readable = FALSE /\ driver = "polling"
  /\ received = 0 /\ delivered = {}
  /\ recvErrors = 0 /\ sendErrors = 0

-----------------------------------------------------------------------------
(* Sending                                                                 *)

(* obf_transport_config: the salt must fit as well.                        *)
QuicMtu ==
  IF psk = NoPsk THEN MTUD_UPPER_BOUND ELSE MTUD_UPPER_BOUND - SALT_LEN

Transmit(p) ==
  /\ handed < MaxSent /\ Len(p) <= QuicMtu
  /\ handed' = handed + 1
  /\ out' = Append(out, p)
  /\ UNCHANGED <<psk, wrap, writable, routed, sendErrors, net, kernel,
                 receiver>>

(* ObfuscatedUdpSocket::try_send: a fresh salt for every attempt.          *)
OnWire(p) ==
  IF wrap = NoPsk THEN {p} ELSE {obfuscate(wrap, p, salt) : salt \in Salt}

Sent ==
  /\ out # <<>> /\ writable
  /\ \E bytes \in OnWire(Head(out)) :
       /\ Len(bytes) <= PathMtu
       /\ net' = net \cup {[bytes |-> bytes, carries |-> Head(out)]}
  /\ out' = Tail(out)
  /\ UNCHANGED <<psk, wrap, handed, writable, routed, sendErrors, kernel,
                 receiver>>

(* Backpressure: the packet stays with quinn.                              *)
SendWouldBlock ==
  /\ out # <<>> /\ writable
  /\ writable' = FALSE
  /\ UNCHANGED <<psk, wrap, handed, out, routed, sendErrors, net, kernel,
                 receiver>>

(* Fault: a probe that is too large counts as a failure.                   *)
ProbeCounted ==
  /\ out # <<>> /\ writable
  /\ \E bytes \in OnWire(Head(out)) : Len(bytes) > PathMtu
  /\ out' = Tail(out)
  /\ sendErrors' = sendErrors + 1
  /\ UNCHANGED <<psk, wrap, handed, writable, routed, net, kernel, receiver>>

(* EMSGSIZE: Ok, and not counted.                                          *)
ProbeTooLarge ==
  /\ out # <<>> /\ writable
  /\ \E bytes \in OnWire(Head(out)) : Len(bytes) > PathMtu
  /\ out' = Tail(out)
  /\ UNCHANGED <<psk, wrap, handed, writable, routed, sendErrors, net, kernel,
                 receiver>>

(* No route, wrong address family: Ok to quinn, counted.                   *)
SendFailed ==
  /\ out # <<>> /\ writable
  /\ routed' = FALSE
  /\ out' = Tail(out)
  /\ sendErrors' = sendErrors + 1
  /\ UNCHANGED <<psk, wrap, handed, writable, net, kernel, receiver>>

(* poll_writable, woken by the kernel.                                     *)
Writable ==
  /\ ~writable
  /\ writable' = TRUE
  /\ UNCHANGED <<psk, wrap, handed, out, routed, sendErrors, net, kernel,
                 receiver>>

(* Fault: the replacement is a plain socket.                               *)
RebindPlain ==
  /\ wrap' = NoPsk
  /\ writable' = TRUE
  /\ UNCHANGED <<psk, handed, out, routed, sendErrors, net, kernel, receiver>>

(* client_socket builds a replacement, from the same recipe as the first.  *)
Rebind ==
  /\ wrap' = psk
  /\ writable' = TRUE
  /\ UNCHANGED <<psk, handed, out, routed, sendErrors, net, kernel, receiver>>

-----------------------------------------------------------------------------
(* The network and the receiver's kernel                                   *)

Enqueue(d) ==
  /\ arrivals < MaxArrivals /\ driver # "ended"
  /\ arrivals' = arrivals + 1
  /\ rxq' = Append(rxq, d)
  /\ readable' = TRUE
  /\ UNCHANGED <<psk, sender, net, error, driver, received, delivered,
                 recvErrors>>

(* In any order, late, more than once, or never.                           *)
Arrive == \E d \in net : Enqueue(d)

StrayArrives ==
  \E b \in Stray : Enqueue([bytes |-> b, carries |-> <<>>])

SocketError ==
  /\ error = "none" /\ driver # "ended"
  /\ error' \in {"ConnectionReset", "other"}
  /\ readable' = TRUE
  /\ UNCHANGED <<psk, sender, net, rxq, arrivals, driver, received,
                 delivered, recvErrors>>

-----------------------------------------------------------------------------
(* poll_recv                                                               *)

(* ObfuscatedUdpSocket::poll_recv: what is too short becomes empty.        *)
Unwrap(d) ==
  [d EXCEPT !.bytes =
     IF psk = NoPsk THEN @
     ELSE IF TooShort(@) THEN <<>>
     ELSE deobfuscate_in_place(psk, @)]

(* recv fills up to Batch buffers; quinn ignores the empty ones.           *)
Deliver(n) ==
  /\ driver = "polling" /\ readable /\ error = "none"
  /\ n \in 1..Len(rxq)
  /\ received' = received + n
  /\ delivered' = delivered \cup
       {d \in {Unwrap(rxq[i]) : i \in 1..n} : d.bytes # <<>>}
  /\ rxq' = SubSeq(rxq, n + 1, Len(rxq))
  /\ UNCHANGED <<psk, sender, net, arrivals, error, readable, driver,
                 recvErrors>>

(* WouldBlock: try_io has cleared the readiness, and the loop goes round.  *)
Park ==
  /\ driver = "polling" /\ readable /\ error = "none" /\ rxq = <<>>
  /\ readable' = FALSE
  /\ UNCHANGED <<psk, sender, net, kernel, driver, received, delivered,
                 recvErrors>>

Pending ==
  /\ driver = "polling" /\ ~readable
  /\ driver' = "parked"
  /\ UNCHANGED <<psk, sender, net, kernel, readable, received, delivered,
                 recvErrors>>

Wake ==
  /\ driver = "parked" /\ readable
  /\ driver' = "polling"
  /\ UNCHANGED <<psk, sender, net, kernel, readable, received, delivered,
                 recvErrors>>

(* Fault: a ConnectionReset reaches quinn as it is.                        *)
SameError(e) == e

endpoint_receive_error(e) == IF e = "ConnectionReset" THEN "other" ELSE e

(* The error is counted and returned.  It may stay pending.                *)
FailEndpoint ==
  /\ driver = "polling" /\ readable /\ error # "none"
  /\ recvErrors' = recvErrors + 1
  /\ driver' = IF endpoint_receive_error(error) = "ConnectionReset"
               THEN driver ELSE "ended"
  /\ error' \in {error, "none"}
  /\ UNCHANGED <<psk, sender, net, rxq, arrivals, readable, received,
                 delivered>>

poll_recv ==
  \/ \E n \in 1..Batch : Deliver(n)
  \/ Park \/ Pending \/ FailEndpoint

-----------------------------------------------------------------------------
try_send == Sent \/ SendWouldBlock \/ ProbeTooLarge \/ SendFailed

Next ==
  \/ \E p \in Packet : Transmit(p)
  \/ try_send \/ Writable \/ Rebind
  \/ Arrive \/ StrayArrives \/ SocketError
  \/ poll_recv \/ Wake

Spec == Init /\ [][Next]_vars

(* A driver that can go on is polled, and readiness wakes it.              *)
FairSpec == Spec /\ WF_vars(poll_recv) /\ WF_vars(Wake)

-----------------------------------------------------------------------------
(* Properties                                                              *)

(* quinn gets a packet of the peer exactly as the peer's quinn sent it,    *)
(* whatever the salts, lengths and stray datagrams, and also after the     *)
(* sender's socket was replaced; and no datagram is larger than the        *)
(* largest size MTU discovery may try.                                     *)
DatagramsIntact ==
  /\ \A d \in delivered : d.carries # <<>> => d.bytes = d.carries
  /\ \A d \in net : Len(d.bytes) <= MTUD_UPPER_BOUND

(* The two gauges tell failure from ordinary traffic: back-pressure and    *)
(* MTU probes count nothing, and a receive error is counted once, in its   *)
(* own direction, and is the end of the endpoint.                          *)
CountersMeanFailure ==
  /\ routed => sendErrors = 0
  /\ recvErrors = IF driver = "ended" THEN 1 ELSE 0

(* The driver neither misses a wake-up nor spins: what has arrived is      *)
(* delivered and an error, even one that stays pending, ends the endpoint. *)
ReceiverServes ==
  /\ rxq # <<>> ~> (rxq = <<>> \/ driver = "ended")
  /\ error # "none" ~> driver = "ended"
=============================================================================
