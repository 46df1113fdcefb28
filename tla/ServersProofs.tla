---------------------------- MODULE ServersProofs ----------------------------
(***************************************************************************)
(* Proofs about the two servers, for any chunks and answers, any capacity  *)
(* of the proxy's channel, any number of frames and of requests.           *)
(***************************************************************************)
EXTENDS Servers, SequenceTheorems, TLAPS

(* The proxy: what the upstream has, then what the channel holds, is the   *)
(* upload so far; the pump has at most one more chunk in hand.             *)
Passed == Len(got) + Len(chan)

FlowInv ==
  /\ Passed <= read
  /\ \A i \in 1..Len(got) : got[i] = up[i]
  /\ \A i \in 1..Len(chan) : chan[i] = up[Len(got) + i]
  /\ call \in {"resolve", "dial"} => pump = "none"
  /\ pump \in {"none", "recv"} => read = Passed
  /\ pump = "send" => read = Passed + 1

(* Why a pump has ended: the request body is gone, the whole upload is     *)
(* through, or one of the excuses of CompleteMeansWhole.                   *)
DoneInv ==
  /\ ~rx => respEnd # "open"
  /\ pump = "done" => \/ ~rx
                      \/ upEnd = "fin" /\ Passed = Len(up)
                      \/ upEnd = "reset" \/ ~link \/ call = "ok"

(* The response reaches the client from the front, and trailers end it.    *)
DownInv ==
  /\ Len(down) <= Len(resp)
  /\ \A i \in 1..Len(down) : down[i] = resp[i]
  /\ \A i \in 1..Len(resp) : resp[i] = "trailers" => i = Len(resp)

ProxyInv == P!TypeOK /\ FlowInv /\ DoneInv /\ DownInv

(* The echo server: what it has written on request r is the headers and    *)
(* the first n data frames.                                                *)
EchoedUpTo(r, n) ==
  /\ Len(echoed[r]) = n + 1
  /\ echoed[r][1] = "headers"
  /\ n <= Len(sent[r])
  /\ \A i \in 1..n : echoed[r][i + 1] = sent[r][i]

(* A request that it is through with.                                      *)
Finished(r) ==
  /\ closed[r] # "open"
  /\ Len(echoed[r]) = Len(sent[r]) + 2
  /\ echoed[r][1] = "headers"
  /\ \A i \in 1..Len(sent[r]) : echoed[r][i + 1] = sent[r][i]
  /\ echoed[r][Len(sent[r]) + 2] = "trailers"

ServedInv ==
  /\ step = "head" => heard = 0 /\ echoed[serving] = <<>>
  /\ step = "recv" => EchoedUpTo(serving, heard)
  /\ step = "send" => heard > 0 /\ EchoedUpTo(serving, heard - 1)

TurnInv == \A r \in E!Request :
  /\ r < serving \/ (r = serving /\ step = "accept") => Finished(r)
  /\ r > serving => echoed[r] = <<>>

EchoInv == E!TypeOK /\ ServedInv /\ TurnInv

IInv == program \in {"gateway", "main"} /\ ProxyInv /\ EchoInv

-----------------------------------------------------------------------------
(* The proxy                                                               *)

LEMMA ProxyCases ==
  ASSUME P!Next
  PROVE  \/ P!Resolve \/ P!Dial \/ P!DialFails \/ P!Forward
         \/ P!UpstreamFails \/ P!ClientFails \/ P!Finish
         \/ P!PumpReads \/ P!PumpSends \/ P!PumpBreaks \/ P!PumpAborted
         \/ \E c \in Chunk : P!ClientWrites(c)
         \/ \E how \in {"fin", "reset"} : P!ClientEnds(how)
         \/ P!ClientTurns \/ P!UpstreamTakes
         \/ \E f \in P!Frame : P!UpstreamWrites(f)
         \/ \E how \in {"end", "cancel", "error"} : P!UpstreamEnds(how)
         \/ P!UpstreamRefuses
BY DEF P!Next, P!Call, P!Pump, P!Environment

LEMMA ProxyInit == P!Init => ProxyInv
BY ServerAssumption
   DEF P!Init, ProxyInv, P!TypeOK, FlowInv, DoneInv, DownInv, Passed

LEMMA ProxyStep == ProxyInv /\ P!Next => ProxyInv'
<1> SUFFICES ASSUME ProxyInv, P!Next PROVE ProxyInv'
  OBVIOUS
<1> USE ServerAssumption
    DEF ProxyInv, P!TypeOK, FlowInv, DoneInv, DownInv, Passed, P!Fails,
        P!client, P!proxy, P!upstream
<1>1. CASE P!Resolve
  BY <1>1 DEF P!Resolve
<1>2. CASE P!Dial
  BY <1>2 DEF P!Dial
<1>3. CASE P!DialFails
  BY <1>3 DEF P!DialFails
<1>4. CASE P!Forward
  BY <1>4 DEF P!Forward, P!Pending
<1>5. CASE P!UpstreamFails
  BY <1>5 DEF P!UpstreamFails
<1>6. CASE P!ClientFails
  BY <1>6 DEF P!ClientFails, P!Pending
<1>7. CASE P!Finish
  BY <1>7 DEF P!Finish, P!Pending
<1>8. CASE P!PumpReads
  BY <1>8 DEF P!PumpReads
<1>9. CASE P!PumpSends
  BY <1>9 DEF P!PumpSends
<1>10. CASE P!PumpBreaks
  <2> USE <1>10 DEF P!PumpBreaks
  <2>1. P!TypeOK'
    OBVIOUS
  <2>2. FlowInv'
    OBVIOUS
  <2>3. DoneInv'
    OBVIOUS
  <2>4. DownInv'
    OBVIOUS
  <2> QED
    BY <2>1, <2>2, <2>3, <2>4
<1>11. CASE P!PumpAborted
  BY <1>11 DEF P!PumpAborted
<1>12. ASSUME NEW c \in Chunk, P!ClientWrites(c) PROVE ProxyInv'
  <2> USE <1>12 DEF P!ClientWrites
  <2>0. /\ up' \in Seq(Chunk) /\ Len(up') = Len(up) + 1
        /\ \A i \in 1..Len(up) : up'[i] = up[i]
    OBVIOUS
  <2>1. P!TypeOK'
    BY <2>0
  <2>2. FlowInv'
    <3>1. \A i \in 1..Len(got) : i \in 1..Len(up)
      OBVIOUS
    <3>2. \A i \in 1..Len(chan) : Len(got) + i \in 1..Len(up)
      OBVIOUS
    <3> QED
      BY <2>0, <3>1, <3>2
  <2>3. DoneInv' /\ DownInv'
    BY <2>0
  <2> QED
    BY <2>1, <2>2, <2>3
<1>13. ASSUME NEW how \in {"fin", "reset"}, P!ClientEnds(how)
       PROVE  ProxyInv'
  <2>1. P!TypeOK'
    BY <1>13 DEF P!ClientEnds
  <2>2. FlowInv'
    BY <1>13 DEF P!ClientEnds
  <2>3. DoneInv'
    BY <1>13 DEF P!ClientEnds
  <2>4. DownInv'
    BY <1>13 DEF P!ClientEnds
  <2> QED
    BY <2>1, <2>2, <2>3, <2>4
<1>14. CASE P!ClientTurns
  <2> USE <1>14 DEF P!ClientTurns
  <2>1. P!TypeOK'
    OBVIOUS
  <2>2. FlowInv'
    OBVIOUS
  <2>3. DoneInv'
    OBVIOUS
  <2>4. DownInv'
    OBVIOUS
  <2> QED
    BY <2>1, <2>2, <2>3, <2>4
<1>15. CASE P!UpstreamTakes
  <2> USE <1>15 DEF P!UpstreamTakes
  <2>0. 1 \in 1..Len(chan) /\ chan[1] = up[Len(got) + 1]
    OBVIOUS
  <2>1. /\ Len(got') = Len(got) + 1
        /\ \A i \in 1..Len(got) : got'[i] = got[i]
        /\ got'[Len(got) + 1] = chan[1]
    OBVIOUS
  <2>2. /\ chan' \in Seq(Chunk) /\ Len(chan') = Len(chan) - 1
        /\ \A i \in 1..Len(chan') : chan'[i] = chan[i + 1]
    OBVIOUS
  <2>3. P!TypeOK'
    BY <2>2
  <2>4. FlowInv'
    <3>1. Passed' = Passed
      BY <2>1, <2>2
    <3>2. \A i \in 1..Len(got') : got'[i] = up'[i]
      <4> SUFFICES ASSUME NEW i \in 1..Len(got') PROVE got'[i] = up[i]
        OBVIOUS
      <4>1. CASE i \in 1..Len(got)
        BY <2>1, <4>1
      <4>2. CASE i \notin 1..Len(got)
        <5>1. i = Len(got) + 1
          BY <2>1, <4>2
        <5> QED
          BY <2>0, <2>1, <5>1
      <4> QED
        BY <4>1, <4>2
    <3>3. \A i \in 1..Len(chan') : chan'[i] = up'[Len(got') + i]
      BY <2>1, <2>2
    <3> QED
      BY <3>1, <3>2, <3>3
  <2>5. DoneInv' /\ DownInv'
    BY <2>1, <2>2
  <2> QED
    BY <2>3, <2>4, <2>5
<1>16. ASSUME NEW f \in P!Frame, P!UpstreamWrites(f) PROVE ProxyInv'
  BY <1>16 DEF P!UpstreamWrites, P!Last
<1>17. ASSUME NEW how \in {"end", "cancel", "error"}, P!UpstreamEnds(how)
       PROVE  ProxyInv'
  BY <1>17 DEF P!UpstreamEnds
<1>18. CASE P!UpstreamRefuses
  BY <1>18 DEF P!UpstreamRefuses
<1> QED
  BY ProxyCases, <1>1, <1>2, <1>3, <1>4, <1>5, <1>6, <1>7, <1>8, <1>9,
     <1>10, <1>11, <1>12, <1>13, <1>14, <1>15, <1>16, <1>17, <1>18

LEMMA ProxyStutters == ProxyInv /\ UNCHANGED proxyVars => ProxyInv'
<1> SUFFICES ASSUME ProxyInv, UNCHANGED proxyVars PROVE ProxyInv'
  OBVIOUS
<1> USE DEF ProxyInv, proxyVars
<1>1. P!TypeOK'
  BY DEF P!TypeOK
<1>2. FlowInv'
  BY DEF FlowInv, Passed
<1>3. DoneInv'
  BY DEF DoneInv, Passed
<1>4. DownInv'
  BY DEF DownInv
<1> QED
  BY <1>1, <1>2, <1>3, <1>4

-----------------------------------------------------------------------------
(* The echo server                                                         *)

LEMMA EchoInit == E!Init => EchoInv
BY ServerAssumption
   DEF E!Init, E!Request, EchoInv, E!TypeOK, ServedInv, TurnInv

(* What is written on the request being served changes no other request.   *)
LEMMA WriteEffect ==
  ASSUME E!TypeOK, step # "accept",
         NEW frames \in Seq(Chunk \cup {"headers", "trailers"}),
         echoed' = [echoed EXCEPT ![serving] = frames]
  PROVE  /\ serving \in E!Request
         /\ echoed' \in [E!Request -> Seq(Chunk \cup {"headers", "trailers"})]
         /\ echoed'[serving] = frames
         /\ \A r \in E!Request : r # serving => echoed'[r] = echoed[r]
BY ServerAssumption DEF E!TypeOK, E!Request

(* Steps that leave requests and echoes alone keep what is said of them.   *)
LEMMA EchoKept ==
  ASSUME ServedInv, TurnInv,
         UNCHANGED <<serving, step, heard, echoed, sent, closed>>
  PROVE  ServedInv' /\ TurnInv'
<1>1. ServedInv'
  BY DEF ServedInv, EchoedUpTo
<1>2. ASSUME NEW r \in E!Request PROVE Finished(r)' <=> Finished(r)
  BY DEF Finished
<1>3. TurnInv'
  BY <1>2 DEF TurnInv
<1> QED
  BY <1>1, <1>3

(* A step that writes on the request being served leaves the others be.    *)
LEMMA EchoStep == EchoInv /\ E!Next => EchoInv'
<1> SUFFICES ASSUME EchoInv, E!Next PROVE EchoInv'
  OBVIOUS
<1> USE ServerAssumption DEF EchoInv, E!Request, E!clientVars, E!serverVars
<1>1. CASE E!Accept
  <2> USE <1>1 DEF E!Accept, E!TypeOK
  <2>1. E!TypeOK'
    OBVIOUS
  <2>2. serving' \in E!Request /\ echoed[serving'] = <<>>
    BY DEF TurnInv
  <2>3. ServedInv'
    BY <2>2 DEF ServedInv
  <2>4. TurnInv'
    BY DEF TurnInv, Finished
  <2> QED
    BY <2>1, <2>3, <2>4
<1>2. CASE E!Headers
  <2> USE <1>2 DEF E!Headers
  <2>1. /\ serving \in E!Request
        /\ echoed' \in [E!Request -> Seq(Chunk \cup {"headers", "trailers"})]
        /\ echoed'[serving] = <<"headers">>
        /\ \A r \in E!Request : r # serving => echoed'[r] = echoed[r]
    <3>1. <<"headers">> \in Seq(Chunk \cup {"headers", "trailers"})
      OBVIOUS
    <3> QED
      BY <3>1, WriteEffect
  <2>2. E!TypeOK'
    BY <2>1 DEF E!TypeOK
  <2>3. heard = 0
    BY DEF ServedInv
  <2>4. ServedInv'
    BY <2>1, <2>3 DEF ServedInv, EchoedUpTo, E!TypeOK
  <2>5. TurnInv'
    BY <2>1 DEF TurnInv, Finished, E!TypeOK
  <2> QED
    BY <2>2, <2>4, <2>5
<1>3. CASE E!Receive
  <2> USE <1>3 DEF E!Receive, E!TypeOK
  <2>1. E!TypeOK'
    OBVIOUS
  <2>2. ServedInv'
    BY DEF ServedInv, EchoedUpTo
  <2>3. TurnInv'
    BY DEF TurnInv, Finished
  <2> QED
    BY <2>1, <2>2, <2>3
<1>4. CASE E!Echo
  <2> USE <1>4 DEF E!Echo
  <2> DEFINE frame == sent[serving][heard]
             old == echoed[serving]
  <2>1. /\ serving \in E!Request /\ heard \in 1..Len(sent[serving])
        /\ old \in Seq(Chunk \cup {"headers", "trailers"})
        /\ frame \in Chunk
    <3>1. serving \in E!Request /\ heard \in 1..Len(sent[serving])
      BY DEF ServedInv, E!TypeOK
    <3>2. /\ sent[serving] \in Seq(Chunk)
          /\ old \in Seq(Chunk \cup {"headers", "trailers"})
      BY <3>1 DEF E!TypeOK
    <3>3. PICK s : s = sent[serving]
      OBVIOUS
    <3>4. s[heard] \in Chunk
      BY <3>1, <3>2, <3>3
    <3> QED
      BY <3>1, <3>2, <3>3, <3>4
  <2>2. /\ Append(old, frame) \in Seq(Chunk \cup {"headers", "trailers"})
        /\ Len(Append(old, frame)) = Len(old) + 1
        /\ \A i \in 1..Len(old) : Append(old, frame)[i] = old[i]
        /\ Append(old, frame)[Len(old) + 1] = frame
    BY <2>1
  <2>3. /\ echoed' \in [E!Request -> Seq(Chunk \cup {"headers", "trailers"})]
        /\ echoed'[serving] = Append(old, frame)
        /\ \A r \in E!Request : r # serving => echoed'[r] = echoed[r]
    BY <2>2, WriteEffect
  <2>4. E!TypeOK'
    BY <2>3 DEF E!TypeOK
  <2>5. /\ EchoedUpTo(serving, heard - 1)
        /\ old \in Seq(Chunk \cup {"headers", "trailers"})
    BY <2>1 DEF ServedInv
  <2>6. EchoedUpTo(serving, heard)'
    BY <2>1, <2>2, <2>3, <2>5 DEF EchoedUpTo
  <2>7. ServedInv'
    BY <2>6 DEF ServedInv
  <2>8. TurnInv'
    BY <2>1, <2>3 DEF TurnInv, Finished, E!TypeOK
  <2> QED
    BY <2>4, <2>7, <2>8
<1>5. CASE E!Trailers
  <2> USE <1>5 DEF E!Trailers
  <2> DEFINE old == echoed[serving]
  <2>1. /\ serving \in E!Request /\ heard = Len(sent[serving]) /\ heard \in Nat
        /\ old \in Seq(Chunk \cup {"headers", "trailers"})
        /\ EchoedUpTo(serving, heard)
    <3>1. /\ serving \in E!Request
          /\ heard = Len(sent[serving]) /\ heard \in Nat
      BY DEF E!TypeOK
    <3> QED
      BY <3>1 DEF ServedInv, E!TypeOK
  <2>2. /\ Append(old, "trailers") \in Seq(Chunk \cup {"headers", "trailers"})
        /\ Len(Append(old, "trailers")) = Len(old) + 1
        /\ \A i \in 1..Len(old) : Append(old, "trailers")[i] = old[i]
        /\ Append(old, "trailers")[Len(old) + 1] = "trailers"
    BY <2>1
  <2>3. /\ echoed' \in [E!Request -> Seq(Chunk \cup {"headers", "trailers"})]
        /\ echoed'[serving] = Append(old, "trailers")
        /\ \A r \in E!Request : r # serving => echoed'[r] = echoed[r]
    BY <2>2, WriteEffect
  <2>4. E!TypeOK'
    BY <2>3 DEF E!TypeOK
  <2>5. ServedInv'
    BY DEF ServedInv
  <2>6. Finished(serving)'
    <3> DEFINE new == Append(old, "trailers")
               n == Len(sent[serving])
    <3>1. /\ n \in Nat /\ Len(old) = n + 1 /\ old[1] = "headers"
          /\ \A k \in 1..n : old[k + 1] = sent[serving][k]
      BY <2>1 DEF EchoedUpTo, E!TypeOK
    <3>2. /\ Len(new) = n + 2 /\ new[1] = "headers" /\ new[n + 2] = "trailers"
          /\ \A k \in 1..n : new[k + 1] = sent[serving][k]
      <4> HIDE DEF n
      <4>1. /\ Len(new) = Len(old) + 1 /\ new[Len(old) + 1] = "trailers"
            /\ \A k \in 1..Len(old) : new[k] = old[k]
        BY <2>2
      <4> HIDE DEF new, old
      <4>2. /\ Len(old) + 1 = n + 2 /\ 1 \in 1..Len(old)
            /\ \A k \in 1..n : k + 1 \in 1..Len(old)
        BY <3>1
      <4> QED
        BY <3>1, <4>1, <4>2
    <3>3. closed'[serving'] # "open" /\ sent' = sent /\ serving' = serving
          /\ echoed'[serving] = new
      BY <2>3
    <3> HIDE DEF new
    <3> QED
      BY <3>2, <3>3 DEF Finished
  <2>7. TurnInv'
    BY <2>1, <2>3, <2>6 DEF TurnInv, Finished, E!TypeOK
  <2> QED
    BY <2>4, <2>5, <2>7
<1>6. CASE E!Fail \/ E!Vanish
  <2> USE <1>6 DEF E!Fail, E!Vanish
  <2>1. E!TypeOK'
    BY DEF E!TypeOK
  <2>2. UNCHANGED <<serving, step, heard, echoed, sent, closed>>
    OBVIOUS
  <2>3. ServedInv' /\ TurnInv'
    BY <2>2, EchoKept
  <2> QED
    BY <2>1, <2>3
<1>7. CASE E!Open
  <2> USE <1>7 DEF E!Open
  <2>1. E!TypeOK'
    BY DEF E!TypeOK
  <2>2. UNCHANGED <<serving, step, heard, echoed, sent, closed>>
    OBVIOUS
  <2>3. ServedInv' /\ TurnInv'
    BY <2>2, EchoKept
  <2> QED
    BY <2>1, <2>3
<1>8. ASSUME NEW r \in E!Request, NEW b \in Chunk, E!Write(r, b)
      PROVE  EchoInv'
  <2> USE <1>8 DEF E!Write, E!TypeOK
  <2>1. /\ sent'[r] \in Seq(Chunk) /\ Len(sent'[r]) = Len(sent[r]) + 1
        /\ \A i \in 1..Len(sent[r]) : sent'[r][i] = sent[r][i]
        /\ \A q \in E!Request : q # r => sent'[q] = sent[q]
    <3>1. PICK s : s = sent[r]
      OBVIOUS
    <3>2. s \in Seq(Chunk)
      BY <3>1
    <3>3. /\ sent'[r] = Append(s, b)
          /\ \A q \in E!Request : q # r => sent'[q] = sent[q]
      BY <3>1
    <3>4. /\ Append(s, b) \in Seq(Chunk) /\ Len(Append(s, b)) = Len(s) + 1
          /\ \A i \in 1..Len(s) : Append(s, b)[i] = s[i]
      BY <3>2
    <3> QED
      BY <3>1, <3>3, <3>4
  <2>2. E!TypeOK'
    BY <2>1
  <2>3. \A n \in Nat : step # "accept" /\ EchoedUpTo(serving, n)
                         => EchoedUpTo(serving, n)'
    BY <2>1 DEF EchoedUpTo
  <2>4. ServedInv'
    BY <2>3 DEF ServedInv
  <2>5. TurnInv'
    BY <2>1 DEF TurnInv, Finished
  <2> QED
    BY <2>2, <2>4, <2>5
<1>9. ASSUME NEW r \in E!Request, NEW how \in {"fin", "reset"}, E!End(r, how)
      PROVE  EchoInv'
  <2> USE <1>9 DEF E!End, E!TypeOK
  <2>1. E!TypeOK'
    OBVIOUS
  <2>2. ServedInv'
    BY DEF ServedInv, EchoedUpTo
  <2>3. TurnInv'
    BY DEF TurnInv, Finished
  <2> QED
    BY <2>1, <2>2, <2>3
<1>10. ASSUME NEW r \in E!Request, E!Park(r) PROVE EchoInv'
  <2> USE <1>10 DEF E!Park
  <2>1. E!TypeOK'
    BY DEF E!TypeOK
  <2>2. UNCHANGED <<serving, step, heard, echoed, sent, closed>>
    OBVIOUS
  <2>3. ServedInv' /\ TurnInv'
    BY <2>2, EchoKept
  <2> QED
    BY <2>1, <2>3
<1> QED
  <2>1. CASE E!Server
    BY <2>1, <1>1, <1>2, <1>3, <1>4, <1>5, <1>6 DEF E!Server
  <2>2. CASE E!Client
    BY <2>2, <1>6, <1>7, <1>8, <1>9, <1>10 DEF E!Client
  <2> QED
    BY <2>1, <2>2 DEF E!Next

LEMMA EchoStutters == EchoInv /\ UNCHANGED echoVars => EchoInv'
<1> SUFFICES ASSUME EchoInv, UNCHANGED echoVars PROVE EchoInv'
  OBVIOUS
<1>1. E!TypeOK'
  BY DEF EchoInv, E!TypeOK, echoVars
<1>2. ServedInv' /\ TurnInv'
  BY EchoKept DEF EchoInv, echoVars
<1> QED
  BY <1>1, <1>2 DEF EchoInv

-----------------------------------------------------------------------------
(* The program, whichever it is                                            *)

(* IInv is an invariant: the program that runs keeps its part, and the one *)
(* that does not run is at its start.                                      *)
THEOREM InductiveInvariant == Spec => []IInv
<1>1. Init => IInv
  BY ProxyInit, EchoInit DEF Init, IInv
<1>2. IInv /\ [Next]_vars => IInv'
  <2> SUFFICES ASSUME IInv, [Next]_vars PROVE IInv'
    OBVIOUS
  <2> USE ProxyStep, ProxyStutters, EchoStep, EchoStutters DEF IInv
  <2>1. CASE program = "gateway" /\ P!Next /\ UNCHANGED <<program, echoVars>>
    BY <2>1
  <2>2. CASE program = "main" /\ E!Next /\ UNCHANGED <<program, proxyVars>>
    BY <2>2
  <2>3. CASE UNCHANGED vars
    BY <2>3 DEF vars
  <2> QED
    BY <2>1, <2>2, <2>3 DEF Next
<1> QED
  BY <1>1, <1>2, PTL DEF Spec

(* Type correctness of both servers; in particular the channel of the      *)
(* upload never holds more than its capacity (proxy.rs, mpsc::channel).    *)
THEOREM TypeCorrect == Spec => []TypeOK
<1>1. IInv => TypeOK
  BY DEF IInv, ProxyInv, EchoInv, TypeOK
<1> QED
  BY <1>1, InductiveInvariant, PTL

(* proxy.rs, upload pump: the upstream sees a truncated upload end as if   *)
(* complete only after a reset, with the client gone, or once the call has *)
(* succeeded.                                                              *)
THEOREM CompleteMeansWholeAlways == Spec => []CompleteMeansWhole
<1>1. IInv => CompleteMeansWhole
  <2> SUFFICES ASSUME IInv, P!RequestComplete, upEnd # "reset", link,
                      call # "ok"
               PROVE  upEnd = "fin" /\ got = up
    BY DEF CompleteMeansWhole, P!CompleteMeansWhole
  <2>1. upEnd = "fin" /\ Len(got) = Len(up)
    BY DEF IInv, ProxyInv, P!TypeOK, DoneInv, Passed, P!RequestComplete
  <2>2. \A i \in 1..Len(got) : got[i] = up[i]
    BY DEF IInv, ProxyInv, FlowInv
  <2> QED
    BY <2>1, <2>2 DEF IInv, ProxyInv, P!TypeOK
<1> QED
  BY <1>1, InductiveInvariant, PTL

(* proxy.rs, response loop: the client has a prefix of the answer, and all *)
(* of it once it has trailers.                                             *)
THEOREM TrailersMeanWholeAlways == Spec => []TrailersMeanWhole
<1>1. IInv => TrailersMeanWhole
  <2> SUFFICES ASSUME IInv
               PROVE  /\ P!IsPrefix(down, resp)
                      /\ P!Contains(down, "trailers") => down = resp
    BY DEF TrailersMeanWhole, P!TrailersMeanWhole
  <2> USE DEF IInv, ProxyInv, P!TypeOK, DownInv
  <2>1. P!IsPrefix(down, resp)
    BY DEF P!IsPrefix
  <2>2. ASSUME P!Contains(down, "trailers") PROVE down = resp
    <3>1. PICK i \in 1..Len(down) : down[i] = "trailers"
      BY <2>2 DEF P!Contains
    <3>2. i \in 1..Len(resp) /\ resp[i] = "trailers"
      BY <3>1
    <3>3. Len(down) = Len(resp)
      BY <3>2
    <3>4. down \in Seq(P!Frame) /\ resp \in Seq(P!Frame)
      OBVIOUS
    <3>5. \A k \in 1..Len(down) : down[k] = resp[k]
      OBVIOUS
    <3> QED
      BY <3>3, <3>4, <3>5, SeqEqual
  <2> QED
    BY <2>1, <2>2
<1> QED
  BY <1>1, InductiveInvariant, PTL

(* echo_server.rs, handle_conn: a request with trailers has been echoed    *)
(* whole, was closed by its client, and follows answered ones only.        *)
THEOREM EchoedWholeAlways == Spec => []EchoedWhole
<1>1. IInv => EchoedWhole
  <2> SUFFICES ASSUME IInv, NEW r \in E!Request, E!Answered(r)
               PROVE  /\ echoed[r] = <<"headers">> \o sent[r] \o <<"trailers">>
                      /\ closed[r] # "open"
                      /\ \A q \in 1..(r - 1) : E!Answered(q)
    BY DEF EchoedWhole, E!EchoedWhole
  <2> USE ServerAssumption DEF IInv, EchoInv, E!TypeOK, E!Request
  <2> PICK i \in 1..Len(echoed[r]) : echoed[r][i] = "trailers"
    BY DEF E!Answered, E!Contains
  <2>1. Finished(r) /\ (r < serving \/ (r = serving /\ step = "accept"))
    <3>1. r <= serving
      BY DEF TurnInv
    <3>2. ASSUME r = serving, NEW n \in 0..Len(sent[r]), EchoedUpTo(r, n)
          PROVE  FALSE
      <4>1. CASE i = 1
        BY <3>2, <4>1 DEF EchoedUpTo
      <4>2. CASE i # 1
        <5>1. i - 1 \in 1..n /\ i - 1 \in 1..Len(sent[r]) /\ i = (i - 1) + 1
          BY <3>2, <4>2 DEF EchoedUpTo
        <5>2. sent[r][i - 1] \in Chunk /\ echoed[r][i] = sent[r][i - 1]
          <6>1. echoed[r][(i - 1) + 1] = sent[r][i - 1]
            BY <3>2, <5>1 DEF EchoedUpTo
          <6>2. PICK s : s = sent[r]
            OBVIOUS
          <6>3. s \in Seq(Chunk) /\ i - 1 \in 1..Len(s)
            BY <5>1, <6>2
          <6>4. s[i - 1] \in Chunk
            BY <6>3
          <6> QED
            BY <5>1, <6>1, <6>2, <6>4
        <5> QED
          BY <5>2
      <4> QED
        BY <4>1, <4>2
    <3>3. r = serving => step = "accept"
      <4> SUFFICES ASSUME r = serving, step # "accept" PROVE FALSE
        OBVIOUS
      <4>1. CASE step = "head"
        BY <4>1 DEF ServedInv
      <4>2. CASE step = "recv"
        BY <4>2, <3>2 DEF ServedInv
      <4>3. CASE step = "send"
        BY <4>3, <3>2 DEF ServedInv
      <4> QED
        BY <4>1, <4>2, <4>3
    <3> QED
      BY <3>1, <3>3 DEF TurnInv
  <2>2. echoed[r] = <<"headers">> \o sent[r] \o <<"trailers">>
    <3> DEFINE s == sent[r]
               whole == <<"headers">> \o s \o <<"trailers">>
               Frames == Chunk \cup {"headers", "trailers"}
    <3>1. s \in Seq(Frames) /\ <<"headers">> \in Seq(Frames)
          /\ <<"trailers">> \in Seq(Frames) /\ echoed[r] \in Seq(Frames)
      OBVIOUS
    <3> HIDE DEF s, Frames
    <3>2. /\ whole \in Seq(Frames) /\ Len(whole) = Len(s) + 2
          /\ whole[1] = "headers"
          /\ \A k \in 1..Len(s) : whole[k + 1] = s[k]
          /\ whole[Len(s) + 2] = "trailers"
      BY <3>1
    <3>3. \A k \in 1..(Len(s) + 2) :
            k = 1 \/ k = Len(s) + 2 \/ k - 1 \in 1..Len(s)
      BY <3>1
    <3>4. /\ Len(echoed[r]) = Len(s) + 2
          /\ echoed[r][1] = "headers"
          /\ \A k \in 1..Len(s) : echoed[r][k + 1] = s[k]
          /\ echoed[r][Len(s) + 2] = "trailers"
      BY <2>1 DEF Finished, s
    <3>5. \A k \in 1..Len(whole) : echoed[r][k] = whole[k]
      <4> SUFFICES ASSUME NEW k \in 1..Len(whole)
                   PROVE  echoed[r][k] = whole[k]
        OBVIOUS
      <4>1. CASE k = 1 \/ k = Len(s) + 2
        BY <4>1, <3>2, <3>4
      <4>2. CASE k - 1 \in 1..Len(s)
        <5>1. echoed[r][(k - 1) + 1] = s[k - 1]
          BY <4>2, <3>4
        <5>2. whole[(k - 1) + 1] = s[k - 1]
          BY <4>2, <3>2
        <5>3. k = (k - 1) + 1
          BY <3>1, <3>2
        <5> QED
          BY <5>1, <5>2, <5>3
      <4> QED
        BY <3>2, <3>3, <4>1, <4>2
    <3> QED
      BY <3>1, <3>2, <3>4, <3>5 DEF s
  <2>3. \A q \in 1..(r - 1) : E!Answered(q)
    <3> SUFFICES ASSUME NEW q \in 1..(r - 1) PROVE E!Answered(q)
      OBVIOUS
    <3>1. q \in E!Request /\ q < serving
      BY <2>1
    <3>2. Finished(q)
      BY <3>1 DEF TurnInv
    <3>3. Len(sent[q]) + 2 \in 1..Len(echoed[q])
      BY <3>1, <3>2 DEF Finished
    <3> QED
      BY <3>2, <3>3 DEF E!Answered, E!Contains, Finished
  <2> QED
    BY <2>1, <2>2, <2>3 DEF Finished
<1> QED
  BY <1>1, InductiveInvariant, PTL

(* proxy.rs, upload pump and channel: the gateway implements a queue of    *)
(* messages between the client and the upstream, which neither loses nor   *)
(* repeats nor reorders what it hands over.                                *)
THEOREM UploadImplementsFifo == Spec => UploadFifo
<1> USE DEF P!Upload!Init, P!Upload!vars
<1>1. Init => P!Upload!Init
  BY DEF Init, P!Init
<1>2. ASSUME IInv, [Next]_vars PROVE [P!Upload!Next]_(P!Upload!vars)
  <2> USE DEF P!client, P!proxy, P!upstream, P!Fails
  <2>1. CASE UNCHANGED <<up, got>>
    BY <2>1
  <2>2. ASSUME NEW c \in Chunk, P!ClientWrites(c)
        PROVE  P!Upload!Next
    BY <2>2 DEF P!ClientWrites, P!Upload!Next, P!Upload!Put
  <2>3. CASE P!UpstreamTakes
    <3>1. 1 \in 1..Len(chan) /\ chan[1] = up[Len(got) + 1]
          /\ Len(got) < Len(up)
      <4>1. 1 \in 1..Len(chan)
        BY <1>2, <2>3 DEF P!UpstreamTakes, IInv, ProxyInv, P!TypeOK
      <4> QED
        BY <1>2, <4>1, ServerAssumption
           DEF IInv, ProxyInv, P!TypeOK, FlowInv, Passed
    <3> QED
      BY <2>3, <3>1 DEF P!UpstreamTakes, P!Upload!Next, P!Upload!Take
  <2>4. ASSUME program = "gateway", P!Next
        PROVE  \/ UNCHANGED <<up, got>>
               \/ \E c \in Chunk : P!ClientWrites(c)
               \/ P!UpstreamTakes
    <3>1. P!Call => UNCHANGED <<up, got>>
      BY DEF P!Call, P!Resolve, P!Dial, P!DialFails, P!Forward,
             P!UpstreamFails, P!ClientFails, P!Finish
    <3>2. P!Pump => UNCHANGED <<up, got>>
      BY DEF P!Pump, P!PumpReads, P!PumpSends, P!PumpBreaks, P!PumpAborted
    <3>3. P!Environment => \/ UNCHANGED <<up, got>>
                           \/ \E c \in Chunk : P!ClientWrites(c)
                           \/ P!UpstreamTakes
      BY DEF P!Environment, P!ClientEnds, P!ClientTurns, P!UpstreamWrites,
             P!UpstreamEnds, P!UpstreamRefuses
    <3> QED
      BY <2>4, <3>1, <3>2, <3>3 DEF P!Next
  <2> QED
    BY <1>2, <2>1, <2>2, <2>3, <2>4 DEF Next, vars, proxyVars
<1> QED
  BY <1>1, <1>2, InductiveInvariant, PTL DEF Spec, UploadFifo, P!UploadFifo,
     P!Upload!Spec
=============================================================================
