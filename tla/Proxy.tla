-------------------------------- MODULE Proxy --------------------------------
(***************************************************************************)
(* One gRPC call through the gateway (proxy.rs): the task of handle_conn   *)
(* that runs proxy_request, and the upload pump it spawns.  Calls share    *)
(* nothing but the client's QUIC connection.                               *)
(*                                                                         *)
(* External: QUIC and HTTP/2 deliver in order and grant credit as they     *)
(* please; a quinn stream that is dropped unfinished ends like one that is *)
(* finished; hyper ends a response body that the upstream resets with      *)
(* NO_ERROR or CANCEL like a complete one.                                 *)
(***************************************************************************)
EXTENDS ServerBounds, SequencesExt

VARIABLES
  link,      \* the client's connection is alive
  up,        \* chunks the client has written
  upEnd,     \* its side of the stream: "open", "fin" or "reset"
  reader,    \* the response: it "reads", is "parked" (grants no credit), or
             \* "gone" (has stopped the stream, or is no more)
  read,      \* chunks recv_data has yielded
  down,      \* frames written to the client
  call,      \* position of the call; "ok" or "err" once it has returned and
             \* the response stream has ended, finished or dropped
  pump,      \* the upload pump: "none", "recv", "send" or "done"
  chan,      \* body_tx .. body_rx
  rx,        \* the request body (body_rx) is still there
  got,       \* chunks the upstream has taken
  resp,      \* frames the upstream has written
  respEnd    \* "open", "end", "cancel" (or NO_ERROR) or "error"

client == <<link, up, upEnd, reader>>
proxy == <<read, down, call, pump>>
upstream == <<got, resp, respEnd>>
vars == <<client, proxy, chan, rx, upstream>>

Frame == Answer \cup {"headers", "trailers"}

TypeOK ==
  /\ {link, rx} \subseteq BOOLEAN
  /\ up \in Seq(Chunk) /\ chan \in Seq(Chunk) /\ got \in Seq(Chunk)
  /\ down \in Seq(Frame) /\ resp \in Seq(Frame)
  /\ reader \in {"reads", "parked", "gone"}
  /\ upEnd \in {"open", "fin", "reset"}
  /\ respEnd \in {"open", "end", "cancel", "error"}
  /\ call \in {"resolve", "dial", "head", "body", "ok", "err"}
  /\ pump \in {"none", "recv", "send", "done"}
  /\ read \in 0..Len(up)
  /\ Len(chan) <= Capacity

Init ==
  /\ link = TRUE /\ reader = "reads" /\ rx = TRUE
  /\ up = <<>> /\ upEnd = "open" /\ read = 0
  /\ down = <<>>
  /\ call = "resolve" /\ pump = "none"
  /\ chan = <<>> /\ got = <<>> /\ resp = <<>> /\ respEnd = "open"

-----------------------------------------------------------------------------
(* proxy_request                                                           *)

(* The h3 stream is dropped, the pump (if any) is not.                     *)
Fails ==
  /\ call' = "err"
  /\ UNCHANGED <<client, read, down, pump, chan, rx, upstream>>

(* A request that is malformed, or whose stream is lost, goes no further.  *)
Resolve ==
  /\ call = "resolve"
  /\ \/ /\ link /\ call' = "dial"
        /\ UNCHANGED <<client, read, down, pump, chan, rx, upstream>>
     \/ Fails

(* The upstream answers, the pump is spawned and the request goes out.     *)
Dial ==
  /\ call = "dial"
  /\ call' = "head" /\ pump' = "recv"
  /\ UNCHANGED <<client, read, down, chan, rx, upstream>>

DialFails == call = "dial" /\ Fails

Pending == Len(down) < Len(resp)

(* Fault: the response waits until the upload is over.                     *)
ForwardHalfDuplex ==
  /\ call \in {"head", "body"} /\ Pending /\ reader = "reads"
  /\ pump = "done"
  /\ down' = Append(down, resp[Len(down) + 1])
  /\ call' = "body"
  /\ UNCHANGED <<client, read, pump, chan, rx, upstream>>

(* send_response, then send_data and send_trailers, frame by frame.        *)
Forward ==
  /\ call \in {"head", "body"} /\ Pending /\ reader = "reads"
  /\ down' = Append(down, resp[Len(down) + 1])
  /\ call' = "body"
  /\ UNCHANGED <<client, read, pump, chan, rx, upstream>>

(* No response, or a body that breaks off.                                 *)
UpstreamFails ==
  /\ \/ call \in {"head", "body"} /\ respEnd = "error"
     \/ call = "head" /\ resp = <<>> /\ respEnd = "cancel"
  /\ Fails

(* The client is gone, or no longer wants the response.                    *)
ClientFails ==
  /\ \/ call \in {"head", "body"} /\ Pending
     \/ call = "body" /\ respEnd \in {"end", "cancel"}
  /\ reader = "gone"
  /\ Fails

(* Fault: trailers are made up when the upstream has sent none.            *)
FinishWithTrailers ==
  /\ call = "body" /\ ~Pending /\ respEnd \in {"end", "cancel"}
  /\ reader = "reads"
  /\ call' = "ok"
  /\ down' = IF Last(down) = "trailers" THEN down
             ELSE Append(down, "trailers")
  /\ UNCHANGED <<client, read, pump, chan, rx, upstream>>

Finish ==
  /\ call = "body" /\ ~Pending /\ respEnd \in {"end", "cancel"}
  /\ reader = "reads"
  /\ call' = "ok"
  /\ UNCHANGED <<client, read, down, pump, chan, rx, upstream>>

-----------------------------------------------------------------------------
(* The upload pump                                                         *)

(* The chunk in hand while pump = "send" is up[read].                      *)
PumpReads ==
  /\ pump = "recv" /\ link /\ read < Len(up)
  /\ read' = read + 1
  /\ pump' = "send"
  /\ UNCHANGED <<client, down, call, chan, rx, upstream>>

(* Fault: a full channel loses the chunk (try_send).                       *)
PumpTrySends ==
  /\ pump = "send" /\ rx
  /\ chan' = IF Len(chan) < Capacity THEN Append(chan, up[read]) ELSE chan
  /\ pump' = "recv"
  /\ UNCHANGED <<client, read, down, call, rx, upstream>>

(* Fault: an unbounded channel.                                            *)
PumpSendsUnbounded ==
  /\ pump = "send" /\ rx
  /\ chan' = Append(chan, up[read])
  /\ pump' = "recv"
  /\ UNCHANGED <<client, read, down, call, rx, upstream>>

PumpSends ==
  /\ pump = "send" /\ rx /\ Len(chan) < Capacity
  /\ chan' = Append(chan, up[read])
  /\ pump' = "recv"
  /\ UNCHANGED <<client, read, down, call, rx, upstream>>

(* The loop breaks: upstream gone, end of the upload, or an error; body_tx *)
(* is dropped in every case alike.                                         *)
PumpBreaks ==
  /\ \/ pump = "send" /\ ~rx
     \/ pump = "recv" /\ upEnd = "fin" /\ read = Len(up)
     \/ pump = "recv" /\ (upEnd = "reset" \/ ~link)
  /\ pump' = "done"
  /\ UNCHANGED <<client, read, down, call, chan, rx, upstream>>

(* Fault: the upload is cut on the error returns alone.                    *)
PumpAbortedOnErr ==
  /\ call = "err" /\ pump \in {"recv", "send"}
  /\ pump' = "done"
  /\ UNCHANGED <<client, read, down, call, chan, rx, upstream>>

(* c2u.abort(): only the last line of a call that succeeds.  The task may  *)
(* take a few more steps before the runtime drops it.                      *)
PumpAborted ==
  /\ call = "ok" /\ pump \in {"recv", "send"}
  /\ pump' = "done"
  /\ UNCHANGED <<client, read, down, call, chan, rx, upstream>>

-----------------------------------------------------------------------------
(* The client                                                              *)

(* A client whose stream the gateway no longer reads is told to stop.      *)
ClientWrites(c) ==
  /\ link /\ upEnd = "open" /\ Len(up) < MaxUp /\ pump # "done"
  /\ up' = Append(up, c)
  /\ UNCHANGED <<link, upEnd, reader, proxy, chan, rx, upstream>>

ClientEnds(how) ==
  /\ link /\ upEnd = "open"
  /\ upEnd' = how
  /\ UNCHANGED <<link, up, reader, proxy, chan, rx, upstream>>

(* It withholds or grants credit, or stops the response; or disappears.    *)
ClientTurns ==
  /\ link
  /\ \/ /\ reader # "gone" /\ reader' \in {"reads", "parked", "gone"}
        /\ UNCHANGED link
     \/ link' = FALSE /\ reader' = "gone"
  /\ UNCHANGED <<up, upEnd, proxy, chan, rx, upstream>>

(* The upstream                                                            *)

UpstreamTakes ==
  /\ rx /\ chan # <<>>
  /\ got' = Append(got, Head(chan))
  /\ chan' = Tail(chan)
  /\ UNCHANGED <<client, proxy, rx, resp, respEnd>>

UpstreamWrites(f) ==
  /\ call \in {"head", "body"} /\ respEnd = "open" /\ Len(resp) < MaxDown
  /\ (resp = <<>>) <=> (f = "headers")
  /\ resp # <<>> => Last(resp) # "trailers"
  /\ resp' = Append(resp, f)
  /\ UNCHANGED <<client, proxy, chan, rx, got, respEnd>>

(* A stream or connection that fails takes the request body with it.       *)
UpstreamEnds(how) ==
  /\ pump # "none" /\ respEnd = "open"
  /\ how = "end" => resp # <<>>
  /\ respEnd' = how
  /\ rx' = (how = "end")
  /\ UNCHANGED <<client, proxy, chan, got, resp>>

(* An upstream that has answered may refuse the rest of the upload.        *)
UpstreamRefuses ==
  /\ respEnd = "end" /\ rx
  /\ rx' = FALSE
  /\ UNCHANGED <<client, proxy, chan, upstream>>

-----------------------------------------------------------------------------
Call ==
  \/ Resolve \/ Dial \/ DialFails
  \/ Forward \/ UpstreamFails \/ ClientFails \/ Finish

Pump == PumpReads \/ PumpSends \/ PumpBreaks \/ PumpAborted

Environment ==
  \/ \E c \in Chunk : ClientWrites(c)
  \/ \E how \in {"fin", "reset"} : ClientEnds(how)
  \/ ClientTurns
  \/ UpstreamTakes
  \/ \E f \in Frame : UpstreamWrites(f)
  \/ \E how \in {"end", "cancel", "error"} : UpstreamEnds(how)
  \/ UpstreamRefuses

Next == Call \/ Pump \/ Environment

Spec == Init /\ [][Next]_vars

(* The runtime polls what can go on.  Dialling has no timeout, and nothing *)
(* is assumed of the client or of the upstream.                            *)
Fairness ==
  /\ WF_vars(Forward) /\ WF_vars(UpstreamFails \/ ClientFails \/ Finish)
  /\ WF_vars(PumpReads \/ PumpSends \/ PumpBreaks)
  /\ WF_vars(PumpAborted)

-----------------------------------------------------------------------------
(* Properties                                                              *)

(* The upstream gets the client's chunks whole, in order and once each,    *)
(* through the channel, whatever happens to the call meanwhile.            *)
Upload == INSTANCE MessageFifo WITH Message <- Chunk, sent <- up, taken <- got
UploadFifo == Upload!Spec

(* What the upstream sees as the complete request.                         *)
RequestComplete == pump = "done" /\ rx /\ chan = <<>>

(* A truncated upload looks complete to the upstream only if the client    *)
(* reset it or is gone, or once the call has succeeded.  In particular an  *)
(* error return, such as a client that stops the response, cuts nothing.   *)
CompleteMeansWhole ==
  RequestComplete =>
    \/ upEnd = "fin" /\ got = up
    \/ upEnd = "reset" \/ ~link \/ call = "ok"

(* The end of the response says nothing, since a dropped stream and a      *)
(* cancelled body end alike.  Trailers do: a client that has them has been *)
(* sent the whole answer, in order.                                        *)
TrailersMeanWhole ==
  /\ IsPrefix(down, resp)
  /\ Contains(down, "trailers") => down = resp

(* Full duplex: while the client reads, the answer reaches it, also when   *)
(* the upload is parked on a full channel that the upstream never drains.  *)
ResponseFlows ==
  (call \in {"head", "body"} /\ Pending) ~>
    (~Pending \/ reader # "reads" \/ respEnd = "error")

(* The pump does not outlive a call that succeeded, nor, unless it is      *)
(* parked on a full channel, a client that has gone.                       *)
PumpEnds ==
  /\ call = "ok" ~> pump = "done"
  /\ (~link /\ pump \in {"recv", "send"}) ~>
       (pump = "done" \/ (pump = "send" /\ Len(chan) = Capacity))
=============================================================================
