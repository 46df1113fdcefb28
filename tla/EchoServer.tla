----------------------------- MODULE EchoServer -----------------------------
(***************************************************************************)
(* One connection of the echo server (echo_server.rs, handle_conn): its    *)
(* requests are served one after the other, and the first that fails ends  *)
(* the connection with all the others.                                     *)
(***************************************************************************)
EXTENDS ServerBounds, SequencesExt

VARIABLES
  live,     \* the connection is alive
  opened,   \* requests the client has opened, in order
  sent,     \* what it has sent on each
  closed,   \* its side of each: "open", "fin" or "reset"
  parked,   \* requests whose response it gives no credit
  serving,  \* the request handle_conn is at, or 0
  step,     \* where it is: "accept", "head", "recv" or "send"
  heard,    \* data frames of the request that recv_data has yielded
  echoed    \* frames written on each

clientVars == <<opened, sent, closed, parked>>
serverVars == <<serving, step, heard, echoed>>
vars == <<live, clientVars, serverVars>>

Request == 1..Requests

TypeOK ==
  /\ live \in BOOLEAN
  /\ opened \in 0..Requests
  /\ sent \in [Request -> Seq(Chunk)]
  /\ closed \in [Request -> {"open", "fin", "reset"}]
  /\ parked \subseteq Request
  /\ serving \in 0..opened
  /\ step \in {"accept", "head", "recv", "send"}
  /\ step # "accept" => serving # 0 /\ heard \in 0..Len(sent[serving])
  /\ echoed \in [Request -> Seq(Chunk \cup {"headers", "trailers"})]

Init ==
  /\ live = TRUE /\ opened = 0 /\ parked = {}
  /\ sent = [r \in Request |-> <<>>]
  /\ closed = [r \in Request |-> "open"]
  /\ serving = 0 /\ step = "accept" /\ heard = 0
  /\ echoed = [r \in Request |-> <<>>]

-----------------------------------------------------------------------------
(* handle_conn                                                             *)

Accept ==
  /\ live /\ step = "accept" /\ serving < opened
  /\ serving' = serving + 1
  /\ step' = "head" /\ heard' = 0
  /\ UNCHANGED <<live, clientVars, echoed>>

CanWrite == live /\ closed[serving] # "reset" /\ serving \notin parked

(* Fault: the headers wait for the client's first frame.                   *)
HeadersWithData ==
  /\ step = "head" /\ CanWrite
  /\ sent[serving] # <<>>
  /\ echoed' = [echoed EXCEPT ![serving] = <<"headers">>]
  /\ step' = "recv"
  /\ UNCHANGED <<live, clientVars, serving, heard>>

Headers ==
  /\ step = "head" /\ CanWrite
  /\ echoed' = [echoed EXCEPT ![serving] = <<"headers">>]
  /\ step' = "recv"
  /\ UNCHANGED <<live, clientVars, serving, heard>>

Receive ==
  /\ live /\ step = "recv" /\ heard < Len(sent[serving])
  /\ heard' = heard + 1
  /\ step' = "send"
  /\ UNCHANGED <<live, clientVars, serving, echoed>>

Echo ==
  /\ step = "send" /\ CanWrite
  /\ echoed' = [echoed EXCEPT ![serving] = Append(@, sent[serving][heard])]
  /\ step' = "recv"
  /\ UNCHANGED <<live, clientVars, serving, heard>>

(* The client half-closed: trailers, finish, and the next request.         *)
Trailers ==
  /\ step = "recv" /\ CanWrite
  /\ closed[serving] = "fin" /\ heard = Len(sent[serving])
  /\ echoed' = [echoed EXCEPT ![serving] = Append(@, "trailers")]
  /\ step' = "accept"
  /\ UNCHANGED <<live, clientVars, serving, heard>>

(* Fault: a request that fails is skipped.                                 *)
FailSkips ==
  /\ live /\ step # "accept" /\ closed[serving] = "reset"
  /\ step' = "accept"
  /\ UNCHANGED <<live, clientVars, serving, heard, echoed>>

(* Any `?` ends handle_conn, which drops the h3 connection and closes it.  *)
Fail ==
  /\ live /\ step # "accept" /\ closed[serving] = "reset"
  /\ live' = FALSE
  /\ UNCHANGED <<clientVars, serverVars>>

-----------------------------------------------------------------------------
(* The client                                                              *)

Open ==
  /\ live /\ opened < Requests
  /\ opened' = opened + 1
  /\ UNCHANGED <<live, sent, closed, parked, serverVars>>

Write(r, b) ==
  /\ live /\ r <= opened /\ closed[r] = "open" /\ Len(sent[r]) < MaxEchoed
  /\ sent' = [sent EXCEPT ![r] = Append(@, b)]
  /\ UNCHANGED <<live, opened, closed, parked, serverVars>>

(* A reset stands also for a response the client has stopped.              *)
End(r, how) ==
  /\ live /\ r <= opened
  /\ closed[r] = "open" \/ (closed[r] = "fin" /\ how = "reset")
  /\ closed' = [closed EXCEPT ![r] = how]
  /\ UNCHANGED <<live, opened, sent, parked, serverVars>>

Park(r) ==
  /\ live /\ r <= opened
  /\ parked' = IF r \in parked THEN parked \ {r} ELSE parked \cup {r}
  /\ UNCHANGED <<live, opened, sent, closed, serverVars>>

Vanish == live /\ live' = FALSE /\ UNCHANGED <<clientVars, serverVars>>

-----------------------------------------------------------------------------
Server == Accept \/ Headers \/ Receive \/ Echo \/ Trailers \/ Fail

Client ==
  \/ Open \/ Vanish
  \/ \E r \in Request : \/ \E b \in Chunk : Write(r, b)
                        \/ \E how \in {"fin", "reset"} : End(r, how)
                        \/ Park(r)

Next == Server \/ Client

Spec == Init /\ [][Next]_vars

(* The task of the connection is polled whenever it can go on.             *)
Fairness == WF_vars(Server)

-----------------------------------------------------------------------------
(* Properties                                                              *)

Answered(r) == Contains(echoed[r], "trailers")

(* Trailers certify the echo: all that the client sent, headers first, and *)
(* only after every earlier request on the connection was answered too.    *)
EchoedWhole == \A r \in Request :
  Answered(r) =>
    /\ echoed[r] = <<"headers">> \o sent[r] \o <<"trailers">>
    /\ closed[r] # "open"
    /\ \A q \in 1..(r - 1) : Answered(q)

(* The headers of a request need none of its data: they come once every    *)
(* earlier request has been answered, unless the client gives no credit,   *)
(* resets a request or is gone.  Requests do wait for each other: one the  *)
(* client leaves open keeps all later ones without a response.             *)
HeadersFirst == \A r \in Request :
  (r <= opened /\ \A q \in 1..(r - 1) : Answered(q)) ~>
    (echoed[r] # <<>> \/ r \in parked \/ ~live)
=============================================================================
