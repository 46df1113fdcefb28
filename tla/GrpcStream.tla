----------------------------- MODULE GrpcStream -----------------------------
(***************************************************************************)
(* One gRPC call: the FFI QuicStream (ffi.rs) over the split halves of     *)
(* client.rs and the framing of grpc.rs, after the response headers have   *)
(* been received.                                                          *)
(*                                                                         *)
(* Every call is a task on the runtime that queues for the mutex of its    *)
(* half (tokio's mutex is fair) and holds it until it returns; its caller  *)
(* may stop waiting at any time, which the task does not notice.  Taking   *)
(* a place in the queue is a call's first step here: a task that starts    *)
(* late is a call made late.                                               *)
(*                                                                         *)
(* QUIC delivers what the gateway writes in order; the client reads it in  *)
(* chunks of any size.  How much the client may write is up to the         *)
(* gateway's flow control, which owes it nothing.                          *)
(***************************************************************************)
EXTENDS GrpcFraming

CONSTANTS
  Recv, Send, Finish,   \* calls of recv_message, send_message and finish
  Request, Response,    \* message bodies of the client and of the gateway
  MaxMessages           \* bound: messages the gateway sends

ASSUME MessageAssumption ==
  /\ LenModulus \in Nat \ {0}
  /\ \A m \in Request \cup Response : m \in Seq(Nat) /\ Len(m) < LenModulus
  /\ MaxMessages \in Nat
  /\ Send \cap Finish = {}

VARIABLES
  sent,         \* messages the gateway has sent whole
  written,      \* units it has written
  fin,          \* it has ended its side of the stream
  received,     \* how many units recv_data has yielded
  buf,          \* QuicRecvStream::recv_buf
  taken,        \* messages take_frame has yielded
  recvQ,        \* the receive mutex: its holder, then those who wait
  inErr,        \* reads fail: the stream was reset or the connection is gone
  order,        \* messages of the send calls, in the order of the mutex
  out,          \* units written to the stream
  progress,     \* how many of them belong to the send in progress
  finOut,       \* the client has ended its side
  sendQ,        \* the send mutex
  outErr,       \* writes fail: stopped by the gateway, or no connection
  body,         \* the message of each send call
  result,       \* "none", "message", "ok", "end" or "err", for each call
  left          \* calls whose caller has stopped waiting

Call == Recv \cup Send \cup Finish

inbound == <<sent, written, fin, received, buf, taken, recvQ, inErr>>
outbound == <<order, out, progress, finOut, sendQ, outErr, body>>
vars == <<inbound, outbound, result, left>>

TypeOK ==
  /\ sent \in Seq(Response) /\ taken \in Seq(Response)
  /\ order \in Seq(Request)
  /\ written \in Seq(Nat) /\ buf \in Seq(Nat) /\ out \in Seq(Nat)
  /\ fin \in BOOLEAN /\ finOut \in BOOLEAN
  /\ inErr \in BOOLEAN /\ outErr \in BOOLEAN
  /\ received \in 0..Len(written)
  /\ progress \in 0..Len(out)
  /\ recvQ \in Seq(Recv) /\ sendQ \in Seq(Send \cup Finish)
  /\ body \in [Send -> Request]
  /\ result \in [Call -> {"none", "message", "ok", "end", "err"}]
  /\ left \subseteq Call

Init ==
  /\ sent = <<>> /\ written = <<>> /\ received = 0 /\ buf = <<>>
  /\ taken = <<>> /\ recvQ = <<>>
  /\ order = <<>> /\ out = <<>> /\ progress = 0 /\ sendQ = <<>>
  /\ fin = FALSE /\ finOut = FALSE /\ inErr = FALSE /\ outErr = FALSE
  /\ body \in [Send -> Request]
  /\ result = [c \in Call |-> "none"]
  /\ left = {}

Fresh(c, queue) ==
  /\ result[c] = "none"
  /\ \A i \in 1..Len(queue) : queue[i] # c

Holds(c, queue) == queue # <<>> /\ Head(queue) = c

Waits(c) == \/ \E i \in 1..Len(recvQ) : recvQ[i] = c
            \/ \E i \in 1..Len(sendQ) : sendQ[i] = c

Return(c, r) == result' = [result EXCEPT ![c] = r] /\ UNCHANGED left

-----------------------------------------------------------------------------
(* recv_message                                                            *)

StartRecv(c) ==
  /\ Fresh(c, recvQ)
  /\ recvQ' = Append(recvQ, c)
  /\ UNCHANGED <<sent, written, fin, received, buf, taken, inErr, outbound,
                 result, left>>

RecvFrame(c) ==
  /\ Holds(c, recvQ)
  /\ HasFrame(buf)
  /\ taken' = Append(taken, FrameBody(buf))
  /\ buf' = Rest(buf)
  /\ recvQ' = Tail(recvQ)
  /\ Return(c, "message")
  /\ UNCHANGED <<sent, written, fin, received, inErr, outbound>>

(* Fault: both halves behind one mutex.                                    *)
RecvDataOneMutex(c, k) ==
  /\ Holds(c, recvQ)
  /\ ~HasFrame(buf)
  /\ sendQ = <<>>
  /\ k \in 1..(Len(written) - received)
  /\ buf' = buf \o SubSeq(written, received + 1, received + k)
  /\ received' = received + k
  /\ UNCHANGED <<sent, written, fin, taken, recvQ, inErr, outbound, result,
                 left>>

(* recv_data yields a chunk of k units.                                    *)
RecvData(c, k) ==
  /\ Holds(c, recvQ)
  /\ ~HasFrame(buf)
  /\ k \in 1..(Len(written) - received)
  /\ buf' = buf \o SubSeq(written, received + 1, received + k)
  /\ received' = received + k
  /\ UNCHANGED <<sent, written, fin, taken, recvQ, inErr, outbound, result,
                 left>>

RecvStops(c, r) ==
  /\ recvQ' = Tail(recvQ)
  /\ Return(c, r)
  /\ UNCHANGED <<sent, written, fin, received, buf, taken, inErr, outbound>>

(* Fault: the end of the stream is looked for before the buffer.           *)
RecvEndFirst(c) ==
  /\ Holds(c, recvQ)
  /\ fin /\ received = Len(written)
  /\ RecvStops(c, "end")

(* The stream has ended: None, whatever is left in the buffer.             *)
RecvEnd(c) ==
  /\ Holds(c, recvQ)
  /\ ~HasFrame(buf)
  /\ fin /\ received = Len(written)
  /\ RecvStops(c, "end")

(* Fault: an error in the middle of a message is taken for a slow chunk.   *)
RecvErrBetweenFrames(c) ==
  /\ Holds(c, recvQ)
  /\ buf = <<>>
  /\ inErr
  /\ RecvStops(c, "err")

RecvErr(c) ==
  /\ Holds(c, recvQ)
  /\ ~HasFrame(buf)
  /\ inErr
  /\ RecvStops(c, "err")

RecvTask(c) ==
  \/ RecvFrame(c) \/ RecvEnd(c) \/ RecvErr(c)
  \/ \E k \in 1..Len(written) : RecvData(c, k)

-----------------------------------------------------------------------------
(* send_message and finish                                                 *)

StartSend(c) ==
  /\ Fresh(c, sendQ)
  /\ sendQ' = Append(sendQ, c)
  /\ order' = IF c \in Send THEN Append(order, body[c]) ELSE order
  /\ UNCHANGED <<out, progress, finOut, outErr, body, inbound, result, left>>

(* send_data writes as far as flow control lets it: a unit at a time here. *)
Write(c) ==
  /\ c \in Send
  /\ Holds(c, sendQ)
  /\ ~finOut /\ ~outErr
  /\ progress < Len(Encode(body[c]))
  /\ out' = Append(out, Encode(body[c])[progress + 1])
  /\ progress' = progress + 1
  /\ UNCHANGED <<order, finOut, sendQ, outErr, body, inbound, result, left>>

SendStops(c, r) ==
  /\ sendQ' = Tail(sendQ)
  /\ progress' = 0
  /\ Return(c, r)
  /\ UNCHANGED <<order, out, outErr, body, inbound>>

SendReturns(c) ==
  /\ c \in Send
  /\ Holds(c, sendQ)
  /\ progress = Len(Encode(body[c]))
  /\ SendStops(c, "ok")
  /\ UNCHANGED finOut

(* Fault: finish goes ahead of the sends that hold or await the mutex.     *)
FinishUnlocked(c) ==
  /\ c \in Finish
  /\ \E i \in 1..Len(sendQ) : sendQ[i] = c
  /\ ~finOut /\ ~outErr
  /\ finOut' = TRUE
  /\ sendQ' = SelectSeq(sendQ, LAMBDA x : x # c)
  /\ Return(c, "ok")
  /\ UNCHANGED <<order, out, progress, outErr, body, inbound>>

(* finish may write a last frame: when it returns is up to flow control.   *)
FinishReturns(c) ==
  /\ c \in Finish
  /\ Holds(c, sendQ)
  /\ ~finOut /\ ~outErr
  /\ finOut' = TRUE
  /\ SendStops(c, "ok")

(* Fault: a writer parked in flow control does not notice the error.       *)
SendErrUnlessParked(c) ==
  /\ Holds(c, sendQ)
  /\ progress = 0
  /\ finOut \/ outErr
  /\ SendStops(c, "err")
  /\ UNCHANGED finOut

SendErr(c) ==
  /\ Holds(c, sendQ)
  /\ finOut \/ outErr
  /\ SendStops(c, "err")
  /\ UNCHANGED finOut

SendTask(c) == Write(c) \/ SendReturns(c) \/ FinishReturns(c) \/ SendErr(c)

(* Fault: the work is cancelled with its caller.                           *)
CancelTask(c) ==
  /\ Waits(c)
  /\ left' = left \cup {c}
  /\ recvQ' = SelectSeq(recvQ, LAMBDA x : x # c)
  /\ sendQ' = SelectSeq(sendQ, LAMBDA x : x # c)
  /\ progress' = IF Holds(c, sendQ) THEN 0 ELSE progress
  /\ UNCHANGED <<sent, written, fin, received, buf, taken, inErr, order, out,
                 finOut, outErr, body, result>>

(* on_rt: the caller's future is dropped, the task is detached and goes on. *)
Cancel(c) ==
  /\ Waits(c) /\ c \notin left
  /\ left' = left \cup {c}
  /\ UNCHANGED <<inbound, outbound, result>>

-----------------------------------------------------------------------------
(* The gateway and the connection.                                         *)

GatewaySends(m) ==
  /\ ~fin /\ ~inErr
  /\ Len(sent) < MaxMessages
  /\ sent' = Append(sent, m)
  /\ written' = written \o Encode(m)
  /\ UNCHANGED <<fin, received, buf, taken, recvQ, inErr, outbound, result,
                 left>>

GatewayEnds ==
  /\ ~fin
  /\ fin' = TRUE
  /\ UNCHANGED <<sent, written, received, buf, taken, recvQ, inErr, outbound,
                 result, left>>

(* It may also end in the middle of a message: k units of its frame.       *)
GatewayCuts(m, k) ==
  /\ ~fin /\ ~inErr
  /\ k \in 1..(Len(Encode(m)) - 1)
  /\ written' = written \o SubSeq(Encode(m), 1, k)
  /\ fin' = TRUE
  /\ UNCHANGED <<sent, received, buf, taken, recvQ, inErr, outbound, result,
                 left>>

(* The gateway resets its side, stops the client's, or the connection goes. *)
Break(in, outg) ==
  /\ in \/ outg
  /\ inErr' = (inErr \/ in)
  /\ outErr' = (outErr \/ outg)
  /\ UNCHANGED <<sent, written, fin, received, buf, taken, recvQ, order, out,
                 progress, finOut, sendQ, body, result, left>>

Gateway ==
  \/ \E m \in Response : GatewaySends(m)
  \/ \E m \in Response : \E k \in 1..(Len(m) + 1) : GatewayCuts(m, k)
  \/ GatewayEnds
  \/ \E in, outg \in BOOLEAN : Break(in, outg)

Next ==
  \/ \E c \in Recv : StartRecv(c) \/ RecvTask(c)
  \/ \E c \in Send \cup Finish : StartSend(c) \/ SendTask(c)
  \/ \E c \in Call : Cancel(c)
  \/ Gateway

Spec == Init /\ [][Next]_vars

(* The runtime polls a task whose data, end or error has come; a stream    *)
(* that was reset may yield its unread data no more.  No write is fair,    *)
(* and finish writes too: the gateway may withhold its flow-control credit *)
(* for ever.                                                               *)
FairSpec ==
  /\ Spec
  /\ \A c \in Recv :
       WF_vars(\/ RecvFrame(c) \/ RecvEnd(c) \/ RecvErr(c)
               \/ ~inErr /\ \E k \in 1..Len(written) : RecvData(c, k))
  /\ \A c \in Send \cup Finish :
       WF_vars(SendReturns(c) \/ SendErr(c))

-----------------------------------------------------------------------------
(* Properties                                                              *)

(* What recv_message yields is what the gateway sent, message by message   *)
(* and in order, whatever the chunks and however calls queue or are left.  *)
Incoming == INSTANCE MessageFifo WITH Message <- Response
InboundFifo == Incoming!Spec

(* A reader of the whole messages in b, and of what follows them.          *)
Decode(b) ==
  LET from[i \in 1..(Len(b) + 1)] ==
        LET rest == SubSeq(b, i, Len(b))
        IN  IF HasFrame(rest)
            THEN [from[i + HEADER + rest[2]]
                    EXCEPT !.messages = <<FrameBody(rest)>> \o @]
            ELSE [messages |-> <<>>, rest |-> rest]
  IN  from[1]

(* What the gateway can decode of the client's side is the messages of the *)
(* send calls, whole and in the order of the mutex: concurrent sends do    *)
(* not interleave their bytes, nor does a send whose caller left stop      *)
(* half-way with another message after it.                                 *)
Outgoing == INSTANCE MessageFifo
  WITH Message <- Request, sent <- order, taken <- Decode(out).messages
OutboundFifo == Outgoing!Spec

(* The client half-closes on a message boundary: finish waits for the      *)
(* sends before it, and nothing is written after it.                       *)
FinishSealsMessages == finOut => Decode(out).rest = <<>>

(* None means the end: every message the gateway sent whole was taken.     *)
EndMeansAllTaken == \A c \in Recv :
  result[c] = "end" => taken = sent

(* ffi.rs: sender and receiver "never block each other".  A message that   *)
(* has come reaches a waiting receiver even while a send is parked in flow *)
(* control for ever.                                                       *)
DataReachesReceiver ==
  (recvQ # <<>> /\ Len(taken) < Len(sent)) ~>
    (recvQ = <<>> \/ Len(taken) = Len(sent))

(* A stream whose reads fail frees every receive on it: the one parked in  *)
(* recv_data, in the middle of a message or not, and those queued behind   *)
(* it for the mutex, whose turn only then comes.                           *)
BrokenReceivesReturn == \A c \in Recv :
  (inErr /\ Waits(c)) ~> ~Waits(c)

(* The same of the send half: a send parked in flow control, and the sends *)
(* and the finish queued behind it.                                        *)
BrokenSendsReturn == \A c \in Send \cup Finish :
  (outErr /\ Waits(c)) ~> ~Waits(c)
=============================================================================
