------------------------------- MODULE Servers -------------------------------
(***************************************************************************)
(* The two programs that serve HTTP/3 on an endpoint: the gateway          *)
(* (bin/gateway.rs) runs the proxy, the stand-alone server (main.rs) the   *)
(* echo.  Which one was started is fixed in the initial state.             *)
(***************************************************************************)
EXTENDS ServerBounds

VARIABLES
  program,      \* "gateway" or "main"
  link, up, upEnd, reader, read, down, call, pump, chan,
  rx, got, resp, respEnd,
  live, opened, sent, closed, parked, serving, step, heard, echoed

P == INSTANCE Proxy
E == INSTANCE EchoServer

proxyVars ==
  <<link, up, upEnd, reader, read, down, call, pump, chan,
    rx, got, resp, respEnd>>
echoVars ==
  <<live, opened, sent, closed, parked, serving, step, heard, echoed>>
vars == <<program, proxyVars, echoVars>>

TypeOK == program \in {"gateway", "main"} /\ P!TypeOK /\ E!TypeOK

Init == program \in {"gateway", "main"} /\ P!Init /\ E!Init

Next ==
  \/ program = "gateway" /\ P!Next /\ UNCHANGED <<program, echoVars>>
  \/ program = "main" /\ E!Next /\ UNCHANGED <<program, proxyVars>>

Spec == Init /\ [][Next]_vars

(* The program that was not started has no step that fairness could ask    *)
(* for.                                                                    *)
FairSpec == Spec /\ P!Fairness /\ E!Fairness

-----------------------------------------------------------------------------
(* The properties are those of the two components; see there.              *)

(* proxy.rs: the upload reaches the upstream in order and once each.       *)
UploadFifo == P!UploadFifo

(* proxy.rs: a request that looks complete is whole, unless the client cut *)
(* it or the call was over.                                                *)
CompleteMeansWhole == P!CompleteMeansWhole

(* proxy.rs: trailers certify the whole answer.                            *)
TrailersMeanWhole == P!TrailersMeanWhole

(* proxy.rs: a parked upload does not hold up the answer.                  *)
ResponseFlows == P!ResponseFlows

(* proxy.rs: the upload pump ends with the call or with the client.        *)
PumpEnds == P!PumpEnds

(* echo_server.rs: trailers certify the whole echo, in turn.               *)
EchoedWhole == E!EchoedWhole

(* echo_server.rs: response headers need no request data.                  *)
HeadersFirst == E!HeadersFirst
=============================================================================
