-------------------------- MODULE GrpcStreamProofs --------------------------
(***************************************************************************)
(* Proofs about GrpcStream, for any calls, any messages shorter than       *)
(* LenModulus and any chunks: each direction of a call implements          *)
(* MessageFifo.  The proofs follow the boundaries of the frames in the     *)
(* stream.                                                                 *)
(***************************************************************************)
EXTENDS GrpcStream, SequenceTheorems, LeastNatural, TLAPS

(* After the first o units of the stream w comes the frame of m.           *)
FrameAt(w, o, m) ==
  /\ w[o + 1] = 0 /\ w[o + 2] = Len(m)
  /\ \A j \in 1..Len(m) : w[o + HEADER + j] = m[j]

(* The stream w starts with the frames of the first n messages of msgs,    *)
(* and b[i] units are in the first i of them.                              *)
Laid(w, msgs, n, b) ==
  /\ b \in [0..n -> 0..Len(w)]
  /\ b[0] = 0
  /\ \A i \in 1..n : /\ FrameAt(w, b[i - 1], msgs[i])
                     /\ b[i] = b[i - 1] + HEADER + Len(msgs[i])

(* There is no whole frame after the first o units.                        *)
Unfinished(w, o) == Len(w) - o >= HEADER => Len(w) - o < HEADER + w[o + 2]

Body == {m \in Seq(Nat) : Len(m) < LenModulus}

(* encode_frame: a body whose length fits the header becomes its frame.    *)
LEMMA EncodeLemma ==
  ASSUME NEW m \in Body
  PROVE  /\ Encode(m) \in Seq(Nat) /\ Len(Encode(m)) = HEADER + Len(m)
         /\ FrameAt(Encode(m), 0, m)
<1>1. Len(m) \in Nat /\ Len(m) % LenModulus = Len(m)
  BY MessageAssumption DEF Body
<1> DEFINE h == <<0, Len(m)>>
<1>2. h \in Seq(Nat) /\ Len(h) = 2 /\ h[1] = 0 /\ h[2] = Len(m)
  BY <1>1
<1>3. Encode(m) = h \o m
  BY <1>1 DEF Encode
<1> HIDE DEF h
<1>4. /\ h \o m \in Seq(Nat) /\ Len(h \o m) = 2 + Len(m)
      /\ \A i \in 1..(2 + Len(m)) :
           (h \o m)[i] = IF i <= 2 THEN h[i] ELSE m[i - 2]
  <2>1. m \in Seq(Nat)
    BY DEF Body
  <2>2. /\ h \o m \in Seq(Nat) /\ Len(h \o m) = Len(h) + Len(m)
        /\ \A i \in 1..(Len(h) + Len(m)) :
             (h \o m)[i] = IF i <= Len(h) THEN h[i] ELSE m[i - Len(h)]
    BY <1>2, <2>1, ConcatProperties
  <2> QED
    BY <1>2, <2>2
<1>5. \A j \in 1..Len(m) : (h \o m)[2 + j] = m[j]
  BY <1>1, <1>4
<1> QED
  BY <1>1, <1>2, <1>3, <1>4, <1>5 DEF FrameAt, HEADER

(* A longer stream keeps the frames it starts with.                        *)
LEMMA LaidLonger ==
  ASSUME NEW w \in Seq(Nat), NEW v \in Seq(Nat), NEW msgs \in Seq(Body),
         NEW n \in 0..Len(msgs), NEW b, Laid(w, msgs, n, b),
         Len(w) <= Len(v), \A i \in 1..Len(w) : v[i] = w[i]
  PROVE  Laid(v, msgs, n, b)
<1>1. b \in [0..n -> 0..Len(v)]
  BY DEF Laid
<1>2. ASSUME NEW i \in 1..n PROVE FrameAt(v, b[i - 1], msgs[i])
  <2>1. /\ b[i - 1] \in Nat /\ b[i] <= Len(w) /\ Len(msgs[i]) \in Nat
        /\ b[i] = b[i - 1] + HEADER + Len(msgs[i])
        /\ FrameAt(w, b[i - 1], msgs[i])
    BY DEF Laid, Body
  <2>2. /\ b[i - 1] + 1 \in 1..Len(w) /\ b[i - 1] + 2 \in 1..Len(w)
        /\ \A j \in 1..Len(msgs[i]) : b[i - 1] + HEADER + j \in 1..Len(w)
    <3> DEFINE o == b[i - 1]
               len == Len(msgs[i])
    <3>1. /\ o \in Nat /\ len \in Nat /\ Len(w) \in Nat
          /\ o + HEADER + len <= Len(w)
      BY <2>1
    <3> HIDE DEF o, len
    <3>2. /\ o + 1 \in 1..Len(w) /\ o + 2 \in 1..Len(w)
          /\ \A j \in 1..len : o + HEADER + j \in 1..Len(w)
      BY <3>1 DEF HEADER
    <3> QED
      BY <3>2 DEF o, len
  <2> QED
    BY <2>1, <2>2 DEF FrameAt
<1> QED
  BY <1>1, <1>2 DEF Laid

(* One more frame.                                                         *)
LEMMA LaidNext ==
  ASSUME NEW w \in Seq(Nat), NEW msgs \in Seq(Body),
         NEW n \in Nat, n + 1 \in 1..Len(msgs), NEW b, Laid(w, msgs, n, b),
         Len(w) = b[n] + HEADER + Len(msgs[n + 1]),
         FrameAt(w, b[n], msgs[n + 1])
  PROVE  \E bb : /\ Laid(w, msgs, n + 1, bb) /\ bb[n + 1] = Len(w)
                 /\ \A i \in 0..n : bb[i] = b[i]
<1> DEFINE bb == [i \in 0..(n + 1) |-> IF i <= n THEN b[i] ELSE Len(w)]
<1>1. bb \in [0..(n + 1) -> 0..Len(w)] /\ bb[0] = 0 /\ bb[n + 1] = Len(w)
      /\ \A i \in 0..n : bb[i] = b[i]
  BY DEF Laid
<1> HIDE DEF bb
<1>2. ASSUME NEW i \in 1..(n + 1)
      PROVE  /\ FrameAt(w, bb[i - 1], msgs[i])
             /\ bb[i] = bb[i - 1] + HEADER + Len(msgs[i])
  <2>1. CASE i = n + 1
    BY <1>1, <2>1
  <2>2. CASE i \in 1..n
    <3>1. i - 1 \in 0..n /\ i \in 0..n
      BY <2>2
    <3> QED
      BY <1>1, <2>2, <3>1 DEF Laid
  <2> QED
    BY <2>1, <2>2
<1> QED
  BY <1>1, <1>2 DEF Laid

(* The frames depend on the messages they are of alone.                    *)
LEMMA LaidSame ==
  ASSUME NEW w, NEW msgs, NEW more, NEW n \in Nat, NEW b, Laid(w, msgs, n, b),
         \A i \in 1..n : more[i] = msgs[i]
  PROVE  Laid(w, more, n, b)
BY DEF Laid

(* No frame at all.                                                        *)
LEMMA LaidNone ==
  ASSUME NEW w \in Seq(Nat), NEW msgs
  PROVE  \E b : Laid(w, msgs, 0, b)
<1> DEFINE b == [i \in 0..0 |-> 0]
<1>1. b \in [0..0 -> 0..Len(w)] /\ b[0] = 0
  OBVIOUS
<1> HIDE DEF b
<1>2. Laid(w, msgs, 0, b)
  BY <1>1 DEF Laid
<1> QED
  BY <1>2

-----------------------------------------------------------------------------
(* The receiving half.  recv_buf is what has been read of the stream after *)
(* the frames that were taken, and these are the first ones of the stream. *)
InType ==
  /\ sent \in Seq(Response) /\ taken \in Seq(Response)
  /\ written \in Seq(Nat) /\ buf \in Seq(Nat)
  /\ fin \in BOOLEAN /\ inErr \in BOOLEAN
  /\ received \in 0..Len(written)
  /\ recvQ \in Seq(Recv)

TakenInv ==
  Len(taken) <= Len(sent) /\ \A i \in 1..Len(taken) : taken[i] = sent[i]

InFrames(b) ==
  /\ Laid(written, sent, Len(sent), b)
  /\ Unfinished(written, b[Len(sent)])
  /\ ~fin => b[Len(sent)] = Len(written)
  /\ b[Len(taken)] + Len(buf) = received
  /\ \A j \in 1..Len(buf) : buf[j] = written[b[Len(taken)] + j]

InInv == InType /\ TakenInv /\ \E b : InFrames(b)

(* Every message fits.                                                     *)
LEMMA ResponsesAreBodies == Response \subseteq Body /\ Request \subseteq Body
BY MessageAssumption DEF Body

(* take_frame finds a frame only where one begins, and then the next.      *)
LEMMA NextFrame ==
  ASSUME InType, TakenInv, NEW b, InFrames(b), HasFrame(buf)
  PROVE  /\ Len(taken) + 1 \in 1..Len(sent)
         /\ FrameBody(buf) = sent[Len(taken) + 1]
         /\ Rest(buf) \in Seq(Nat)
         /\ b[Len(taken) + 1] + Len(Rest(buf)) = received
         /\ \A j \in 1..Len(Rest(buf)) :
              Rest(buf)[j] = written[b[Len(taken) + 1] + j]
<1> DEFINE t == Len(taken)
           o == b[t]
<1>1. /\ t \in 0..Len(sent) /\ Len(sent) \in Nat /\ Len(written) \in Nat
      /\ o \in 0..Len(written) /\ o + Len(buf) = received
      /\ buf \in Seq(Nat) /\ Len(buf) >= 2 /\ buf[2] \in Nat
      /\ Len(buf) >= 2 + buf[2] /\ received <= Len(written)
  BY DEF InType, TakenInv, InFrames, Laid, HasFrame, HEADER
<1>2. \A j \in 1..Len(buf) : buf[j] = written[o + j]
  BY DEF InFrames
<1>3. buf[2] = written[o + 2]
  BY <1>1, <1>2
<1>4. t # Len(sent)
  <2> SUFFICES ASSUME t = Len(sent) PROVE FALSE
    OBVIOUS
  <2>1. Unfinished(written, o)
    BY DEF InFrames
  <2> HIDE DEF t, o
  <2>2. Len(written) - o >= Len(buf) /\ written[o + 2] = buf[2]
    BY <1>1, <1>3
  <2>3. Len(written) - o >= 2 /\ Len(written) - o >= 2 + buf[2]
    BY <1>1, <2>2
  <2>4. Len(written) - o < 2 + buf[2]
    BY <2>1, <2>2, <2>3 DEF Unfinished, HEADER
  <2> QED
    BY <1>1, <2>3, <2>4
<1> DEFINE m == sent[t + 1]
<1>5. /\ t + 1 \in 1..Len(sent) /\ m \in Seq(Nat) /\ m \in Response
      /\ FrameAt(written, o, m) /\ b[t + 1] = o + 2 + Len(m)
  <2>1. t + 1 \in 1..Len(sent) /\ (t + 1) - 1 = t
    BY <1>1, <1>4
  <2>2. m \in Response /\ m \in Seq(Nat)
    BY <2>1, ResponsesAreBodies DEF InType, Body
  <2> QED
    BY <2>1, <2>2 DEF InFrames, Laid, HEADER
<1> HIDE DEF t, o, m
<1>6. buf[2] = Len(m) /\ Len(m) \in Nat
  BY <1>3, <1>5 DEF FrameAt
<1>7. FrameBody(buf) = m
  <2> DEFINE f == SubSeq(buf, 3, 2 + Len(m))
  <2>1. \A i \in 3..(2 + Len(m)) : buf[i] \in Nat
    <3>1. \A i \in 1..Len(buf) : buf[i] \in Nat
      BY <1>1, ElementOfSeq, Zenon
    <3>2. \A i \in 3..(2 + Len(m)) : i \in 1..Len(buf)
      BY <1>1, <1>6
    <3> QED
      BY <3>1, <3>2
  <2>2. f \in Seq(Nat) /\ Len(f) = Len(m)
        /\ \A i \in 1..Len(m) : f[i] = buf[2 + i]
    BY <1>6, <2>1, SubSeqProperties
  <2>3. \A i \in 1..Len(m) : 2 + i \in 1..Len(buf) /\ o + (2 + i) = o + 2 + i
    BY <1>1, <1>6
  <2>4. \A i \in 1..Len(m) : buf[2 + i] = m[i]
    BY <1>2, <1>5, <2>3 DEF FrameAt, HEADER
  <2>5. FrameBody(buf) = f
    BY <1>6 DEF FrameBody, HEADER
  <2> HIDE DEF f
  <2>6. \A i \in 1..Len(f) : f[i] = m[i]
    BY <2>2, <2>4
  <2>7. m \in Seq(Nat) /\ f \in Seq(Nat) /\ Len(f) = Len(m)
    BY <1>5, <2>2
  <2>8. f = m
    BY <2>6, <2>7, SeqEqual
  <2> QED
    BY <2>5, <2>8
<1>8. /\ Rest(buf) \in Seq(Nat) /\ Len(Rest(buf)) = Len(buf) - 2 - Len(m)
      /\ \A j \in 1..Len(Rest(buf)) : Rest(buf)[j] = buf[2 + Len(m) + j]
  <2>1. \A i \in (3 + Len(m))..Len(buf) : buf[i] \in Nat
    <3>1. \A i \in 1..Len(buf) : buf[i] \in Nat
      BY <1>1, ElementOfSeq, Zenon
    <3>2. \A i \in (3 + Len(m))..Len(buf) : i \in 1..Len(buf)
      BY <1>6
    <3> QED
      BY <3>1, <3>2
  <2>2. Rest(buf) = SubSeq(buf, 3 + Len(m), Len(buf))
    BY <1>6 DEF Rest, HEADER
  <2>3. 3 + Len(m) \in Int /\ Len(buf) \in Int /\ 2 + Len(m) <= Len(buf)
    BY <1>1, <1>6
  <2> DEFINE f == SubSeq(buf, 3 + Len(m), Len(buf))
  <2>4. /\ f \in Seq(Nat)
        /\ Len(f) = IF 3 + Len(m) <= Len(buf)
                    THEN Len(buf) - (3 + Len(m)) + 1 ELSE 0
        /\ \A j \in 1..(Len(buf) - (3 + Len(m)) + 1) :
             f[j] = buf[(3 + Len(m)) + j - 1]
    BY <2>1, <2>3, SubSeqProperties
  <2> HIDE DEF f
  <2>5. Len(f) = Len(buf) - 2 - Len(m)
    BY <1>6, <2>3, <2>4
  <2>6. \A j \in 1..Len(f) : /\ j \in 1..(Len(buf) - (3 + Len(m)) + 1)
                            /\ (3 + Len(m)) + j - 1 = 2 + Len(m) + j
    BY <1>6, <2>3, <2>5
  <2>7. \A j \in 1..Len(f) : f[j] = buf[2 + Len(m) + j]
    BY <2>4, <2>6
  <2> QED
    BY <2>2, <2>4, <2>5, <2>7 DEF f
<1>9. \A j \in 1..Len(Rest(buf)) : Rest(buf)[j] = written[b[t + 1] + j]
  <2> SUFFICES ASSUME NEW j \in 1..Len(Rest(buf))
               PROVE  Rest(buf)[j] = written[b[t + 1] + j]
    OBVIOUS
  <2>1. 2 + Len(m) + j \in 1..Len(buf) /\ o + (2 + Len(m) + j) = b[t + 1] + j
    BY <1>1, <1>5, <1>6, <1>8
  <2> QED
    BY <1>2, <1>8, <2>1
<1>10. b[t + 1] + Len(Rest(buf)) = received
  BY <1>1, <1>5, <1>6, <1>8
<1> QED
  BY <1>5, <1>7, <1>8, <1>9, <1>10 DEF t, m

(* With the whole stream read and no frame left, all were taken.           *)
LEMMA NothingLeft ==
  ASSUME InInv, ~HasFrame(buf), received = Len(written)
  PROVE  taken = sent
<1> PICK b : InFrames(b)
  BY DEF InInv
<1> DEFINE t == Len(taken)
<1>1. /\ t \in 0..Len(sent) /\ Len(sent) \in Nat /\ Len(written) \in Nat
      /\ b[t] \in 0..Len(written) /\ b[t] + Len(buf) = Len(written)
      /\ Len(buf) \in Nat
  BY DEF InInv, InType, TakenInv, InFrames, Laid
<1>2. t = Len(sent)
  <2> SUFFICES ASSUME t # Len(sent) PROVE FALSE
    OBVIOUS
  <2>1. t + 1 \in 1..Len(sent) /\ (t + 1) - 1 = t
    BY <1>1
  <2> DEFINE m == sent[t + 1]
  <2>2. m \in Seq(Nat)
    BY <2>1, ResponsesAreBodies DEF InInv, InType, Body
  <2>3. /\ b[t + 1] \in 0..Len(written) /\ b[t + 1] = b[t] + 2 + Len(m)
        /\ written[b[t] + 2] = Len(m)
    BY <2>1 DEF InFrames, Laid, FrameAt, HEADER
  <2>4. Len(buf) >= 2 + Len(m) /\ Len(m) \in Nat
    <3> DEFINE o == b[t]
               n == Len(m)
    <3>1. /\ o \in Nat /\ n \in Nat /\ o + Len(buf) = Len(written)
          /\ o + 2 + n <= Len(written)
      BY <1>1, <2>2, <2>3
    <3> HIDE DEF o, n
    <3>2. Len(buf) >= 2 + n /\ n \in Nat
      BY <1>1, <3>1
    <3> QED
      BY <3>2 DEF n
  <2>5. buf[2] = Len(m)
    <3>1. 2 \in 1..Len(buf)
      BY <1>1, <2>4
    <3> QED
      BY <2>3, <3>1 DEF InFrames
  <2> QED
    BY <2>4, <2>5 DEF HasFrame, HEADER
<1>3. \A i \in 1..t : taken[i] = sent[i]
  BY DEF InInv, TakenInv
<1> QED
  BY <1>2, <1>3, SeqEqual DEF InInv, InType

(* The gateway's next units, after what it has written.                    *)
LEMMA Written ==
  ASSUME InType, NEW m \in Response, NEW k \in 1..Len(Encode(m)),
         written' = written \o SubSeq(Encode(m), 1, k)
  PROVE  /\ written' \in Seq(Nat) /\ Len(written') = Len(written) + k
         /\ \A i \in 1..Len(written) : written'[i] = written[i]
         /\ \A i \in 1..k : written'[Len(written) + i] = Encode(m)[i]
<1> DEFINE e == SubSeq(Encode(m), 1, k)
<1>1. Encode(m) \in Seq(Nat) /\ Len(Encode(m)) \in Nat
  BY EncodeLemma, ResponsesAreBodies
<1>2. \A i \in 1..k : Encode(m)[i] \in Nat
  BY <1>1
<1>3. e \in Seq(Nat) /\ Len(e) = k /\ \A i \in 1..k : e[i] = Encode(m)[i]
  BY <1>2, SubSeqProperties
<1> HIDE DEF e
<1>4. /\ written \o e \in Seq(Nat) /\ Len(written \o e) = Len(written) + k
      /\ \A i \in 1..(Len(written) + k) : (written \o e)[i] =
           IF i <= Len(written) THEN written[i] ELSE e[i - Len(written)]
  BY <1>3, ConcatProperties DEF InType
<1>5. Len(written) \in Nat
  BY DEF InType
<1> QED
  BY <1>3, <1>4, <1>5 DEF e

(* What recv_buf holds lies in the stream.                                 *)
LEMMA BufInStream ==
  ASSUME InType, TakenInv, NEW b, InFrames(b)
  PROVE  \A j \in 1..Len(buf) : b[Len(taken)] + j \in 1..Len(written)
<1> DEFINE o == b[Len(taken)]
<1>1. /\ o \in Nat /\ o + Len(buf) = received /\ received <= Len(written)
      /\ Len(buf) \in Nat /\ Len(written) \in Nat
  BY DEF InFrames, Laid, InType, TakenInv
<1> HIDE DEF o
<1>2. \A j \in 1..Len(buf) : o + j \in 1..Len(written)
  BY <1>1
<1> QED
  BY <1>2 DEF o

(* Every step keeps the frames of the receiving half in place.             *)
LEMMA InInvStep ==
  ASSUME InInv, [Next]_vars
  PROVE  InInv'
<1> PICK b : InFrames(b)
  BY DEF InInv
<1> USE DEF InInv
<1>1. ASSUME UNCHANGED <<sent, written, received, buf, taken>>,
             fin' \in BOOLEAN, inErr' \in BOOLEAN, recvQ' \in Seq(Recv),
             fin => fin'
      PROVE  InInv'
  <2>1. InType' /\ TakenInv'
    BY <1>1 DEF InType, TakenInv
  <2>2. InFrames(b)'
    BY <1>1 DEF InFrames, InType
  <2> QED
    BY <2>1, <2>2
<1>2. ASSUME NEW c \in Recv, StartRecv(c) PROVE InInv'
  BY <1>1, <1>2 DEF StartRecv, InType
<1>3. ASSUME NEW c \in Recv, RecvFrame(c) PROVE InInv'
  <2> DEFINE t == Len(taken)
  <2>1. /\ t + 1 \in 1..Len(sent)
        /\ taken' = Append(taken, sent[t + 1])
        /\ buf' = Rest(buf) /\ Rest(buf) \in Seq(Nat)
        /\ b[t + 1] + Len(Rest(buf)) = received
        /\ \A j \in 1..Len(Rest(buf)) : Rest(buf)[j] = written[b[t + 1] + j]
    BY <1>3, NextFrame DEF RecvFrame
  <2>2. recvQ' \in Seq(Recv) /\ UNCHANGED <<sent, written, fin, received, inErr>>
    BY <1>3 DEF RecvFrame, Holds, InType
  <2>3. /\ taken' \in Seq(Response) /\ Len(taken') = t + 1
        /\ taken'[t + 1] = sent[t + 1]
        /\ \A i \in 1..t : taken'[i] = taken[i]
    BY <2>1 DEF InType
  <2>4. InType'
    BY <2>1, <2>2, <2>3 DEF InType
  <2>5. TakenInv'
    BY <2>1, <2>2, <2>3 DEF TakenInv, InType
  <2>6. InFrames(b)'
    BY <2>1, <2>2, <2>3 DEF InFrames
  <2> QED
    BY <2>4, <2>5, <2>6
<1>4. ASSUME NEW c \in Recv, NEW k \in 1..Len(written), RecvData(c, k)
      PROVE  InInv'
  <2> DEFINE e == SubSeq(written, received + 1, received + k)
  <2>1. /\ k \in 1..(Len(written) - received)
        /\ buf' = buf \o e /\ received' = received + k
        /\ UNCHANGED <<sent, written, fin, taken, recvQ, inErr>>
    BY <1>4 DEF RecvData
  <2>2. k \in Nat /\ received \in Nat /\ Len(written) \in Nat
        /\ received + k <= Len(written) /\ Len(buf) \in Nat
    BY <2>1 DEF InType
  <2>3. e \in Seq(Nat) /\ Len(e) = k
        /\ \A i \in 1..k : e[i] = written[received + i]
    <3>1. \A i \in (received + 1)..(received + k) : written[i] \in Nat
      BY <2>2 DEF InType
    <3> QED
      BY <2>1, <2>2, <3>1, SubSeqProperties
  <2> HIDE DEF e
  <2>4. /\ buf' \in Seq(Nat) /\ Len(buf') = Len(buf) + k
        /\ \A i \in 1..(Len(buf) + k) :
             buf'[i] = IF i <= Len(buf) THEN buf[i] ELSE e[i - Len(buf)]
    BY <2>1, <2>3, ConcatProperties DEF InType
  <2>5. InType'
    BY <2>1, <2>2, <2>4 DEF InType
  <2>6. TakenInv'
    BY <2>1 DEF TakenInv
  <2>7. b[Len(taken)] + Len(buf) = received /\ b[Len(taken)] \in Nat
    BY DEF InFrames, Laid, TakenInv, InType
  <2>8. \A j \in 1..(Len(buf) + k) : buf'[j] = written[b[Len(taken)] + j]
    <3> SUFFICES ASSUME NEW j \in 1..(Len(buf) + k)
                 PROVE  buf'[j] = written[b[Len(taken)] + j]
      OBVIOUS
    <3>1. CASE j \in 1..Len(buf)
      <4>1. buf'[j] = buf[j]
        BY <2>2, <2>4, <3>1
      <4>2. buf[j] = written[b[Len(taken)] + j]
        BY <3>1 DEF InFrames
      <4> QED
        BY <4>1, <4>2
    <3>2. CASE j - Len(buf) \in 1..k
      <4>1. received + (j - Len(buf)) = b[Len(taken)] + j
        BY <2>2, <2>7
      <4>2. buf'[j] = e[j - Len(buf)]
        BY <2>2, <2>4, <3>2
      <4> QED
        BY <2>3, <3>2, <4>1, <4>2
    <3> QED
      BY <2>2, <3>1, <3>2
  <2>9. InFrames(b)'
    <3>1. b[Len(taken')] + Len(buf') = received'
      <4> DEFINE o == b[Len(taken)]
      <4>1. o \in Nat /\ o + Len(buf) = received
        BY <2>7
      <4> HIDE DEF o
      <4>2. o + (Len(buf) + k) = received + k
        BY <2>2, <4>1
      <4>3. b[Len(taken')] = o
        BY <2>1 DEF o
      <4> QED
        BY <2>1, <2>4, <4>2, <4>3
    <3>2. \A j \in 1..Len(buf') : buf'[j] = written'[b[Len(taken')] + j]
      BY <2>1, <2>4, <2>8
    <3> QED
      BY <2>1, <3>1, <3>2 DEF InFrames
  <2> QED
    BY <2>5, <2>6, <2>9
<1>5. ASSUME NEW c \in Recv, RecvEnd(c) \/ RecvErr(c) PROVE InInv'
  <2>1. recvQ' \in Seq(Recv)
        /\ UNCHANGED <<sent, written, fin, received, buf, taken, inErr>>
    <3>1. recvQ # <<>> /\ recvQ' = Tail(recvQ)
          /\ UNCHANGED <<sent, written, fin, received, buf, taken, inErr>>
      BY <1>5 DEF RecvEnd, RecvErr, RecvStops, Holds
    <3> QED
      BY <3>1, HeadTailProperties DEF InType
  <2> QED
    BY <1>1, <2>1 DEF InType
<1>6. ASSUME NEW c \in Send \cup Finish, StartSend(c) \/ SendTask(c)
      PROVE  InInv'
  <2>1. UNCHANGED inbound
    BY <1>6 DEF StartSend, SendTask, Write, SendReturns, FinishReturns, SendErr,
                SendStops
  <2> QED
    BY <1>1, <2>1 DEF inbound, InType
<1>7. ASSUME NEW c \in Call, Cancel(c) PROVE InInv'
  BY <1>1, <1>7 DEF Cancel, inbound, InType
<1>8. ASSUME NEW m \in Response, GatewaySends(m) PROVE InInv'
  <2> DEFINE n == Len(sent)
  <2>1. /\ ~fin /\ sent' = Append(sent, m) /\ written' = written \o Encode(m)
        /\ UNCHANGED <<fin, received, buf, taken, recvQ, inErr>>
    BY <1>8 DEF GatewaySends
  <2>2. /\ m \in Body /\ Encode(m) \in Seq(Nat)
        /\ Len(Encode(m)) = 2 + Len(m) /\ Len(m) \in Nat
        /\ FrameAt(Encode(m), 0, m)
    BY EncodeLemma, ResponsesAreBodies DEF HEADER, Body
  <2>3. SubSeq(Encode(m), 1, Len(Encode(m))) = Encode(m)
    BY <2>2, SubSeqFull
  <2>4. /\ written' \in Seq(Nat) /\ Len(written') = Len(written) + 2 + Len(m)
        /\ \A i \in 1..Len(written) : written'[i] = written[i]
        /\ \A i \in 1..(2 + Len(m)) : written'[Len(written) + i] = Encode(m)[i]
    <3> DEFINE k == Len(Encode(m))
    <3>1. written' = written \o SubSeq(Encode(m), 1, k)
      BY <2>1, <2>3
    <3>0. k \in 1..Len(Encode(m))
      BY <2>2
    <3> HIDE DEF k
    <3>2. /\ written' \in Seq(Nat) /\ Len(written') = Len(written) + k
          /\ \A i \in 1..Len(written) : written'[i] = written[i]
          /\ \A i \in 1..k : written'[Len(written) + i] = Encode(m)[i]
      BY <3>0, <3>1, Written
    <3>3. k = 2 + Len(m) /\ Len(written) + k = Len(written) + 2 + Len(m)
      BY <2>2 DEF k, InType
    <3> QED
      BY <3>2, <3>3
  <2>5. /\ sent' \in Seq(Response) /\ Len(sent') = n + 1 /\ sent'[n + 1] = m
        /\ \A i \in 1..n : sent'[i] = sent[i]
        /\ n \in Nat /\ Len(written) \in Nat
    BY <2>1 DEF InType
  <2>6. sent \in Seq(Body) /\ sent' \in Seq(Body)
    BY <2>5, ResponsesAreBodies, SeqMonotonic DEF InType
  <2>7. FrameAt(written', Len(written), m)
    <3>1. \A j \in 1..Len(m) : 2 + j \in 1..(2 + Len(m))
                               /\ Len(written) + (2 + j) = Len(written) + 2 + j
                               /\ 0 + 2 + j = 2 + j
      BY <2>2, <2>5
    <3>2. 1 \in 1..(2 + Len(m)) /\ 2 \in 1..(2 + Len(m))
      BY <2>2
    <3>3. written'[Len(written) + 1] = 0 /\ written'[Len(written) + 2] = Len(m)
      BY <2>2, <2>4, <3>2 DEF FrameAt
    <3>4. \A j \in 1..Len(m) : written'[Len(written) + 2 + j] = m[j]
      BY <2>2, <2>4, <3>1 DEF FrameAt, HEADER
    <3> QED
      BY <3>3, <3>4 DEF FrameAt, HEADER
  <2>8. Laid(written', sent', n, b) /\ b[n] = Len(written)
    <3>1. Laid(written, sent, n, b) /\ b[n] = Len(written)
      BY <2>1 DEF InFrames
    <3>2. Len(written) <= Len(written')
      BY <2>2, <2>4, <2>5
    <3>3. Laid(written', sent, n, b)
      <4>1. n \in 0..Len(sent) /\ written \in Seq(Nat)
        BY <2>5 DEF InType
      <4> HIDE DEF n
      <4> QED
        BY <2>4, <2>6, <3>1, <3>2, <4>1, LaidLonger
    <3> QED
      BY <2>5, <3>1, <3>3, LaidSame
  <2> HIDE DEF n
  <2>9. PICK bb : /\ Laid(written', sent', n + 1, bb)
                  /\ bb[n + 1] = Len(written')
                  /\ \A i \in 0..n : bb[i] = b[i]
    <3>1. /\ n + 1 \in 1..Len(sent')
          /\ Len(written') = b[n] + HEADER + Len(sent'[n + 1])
      BY <2>4, <2>5, <2>8 DEF HEADER
    <3>2. FrameAt(written', b[n], sent'[n + 1])
      BY <2>5, <2>7, <2>8
    <3>3. written' \in Seq(Nat) /\ sent' \in Seq(Body) /\ n \in Nat
      BY <2>4, <2>5, <2>6
    <3>4. Laid(written', sent', n, b)
      BY <2>8
    <3> DEFINE w == written'
               s == sent'
    <3> HIDE DEF w, s
    <3>5. /\ w \in Seq(Nat) /\ s \in Seq(Body) /\ n \in Nat
          /\ n + 1 \in 1..Len(s) /\ Laid(w, s, n, b)
          /\ Len(w) = b[n] + HEADER + Len(s[n + 1])
          /\ FrameAt(w, b[n], s[n + 1])
      BY <3>1, <3>2, <3>3, <3>4 DEF w, s
    <3>6. \E bb : /\ Laid(w, s, n + 1, bb) /\ bb[n + 1] = Len(w)
                  /\ \A i \in 0..n : bb[i] = b[i]
      BY <3>5, LaidNext
    <3> QED
      BY <3>6 DEF w, s
  <2>10. InType'
    BY <2>1, <2>2, <2>4, <2>5 DEF InType
  <2>11. TakenInv'
    BY <2>1, <2>5 DEF TakenInv, n, InType
  <2>12. InFrames(bb)'
    <3>1. Len(taken') \in 0..n /\ bb[Len(taken')] = b[Len(taken)]
      BY <2>1, <2>5, <2>9 DEF TakenInv, InType, n
    <3>2. Unfinished(written', Len(written'))
      BY <2>4 DEF Unfinished, HEADER
    <3>3. \A j \in 1..Len(buf) : b[Len(taken)] + j \in 1..Len(written)
      BY BufInStream
    <3>4. \A j \in 1..Len(buf') : buf'[j] = written'[bb[Len(taken')] + j]
      BY <2>1, <2>4, <3>1, <3>3 DEF InFrames
    <3>5. bb[Len(taken')] + Len(buf') = received'
      BY <2>1, <3>1 DEF InFrames
    <3> QED
      BY <2>5, <2>9, <3>2, <3>4, <3>5 DEF InFrames
  <2> QED
    BY <2>10, <2>11, <2>12
<1>9. ASSUME NEW m \in Response, NEW k \in 1..(Len(m) + 1), GatewayCuts(m, k)
      PROVE  InInv'
  <2> DEFINE n == Len(sent)
  <2>1. /\ ~fin /\ fin' = TRUE
        /\ written' = written \o SubSeq(Encode(m), 1, k)
        /\ UNCHANGED <<sent, received, buf, taken, recvQ, inErr>>
    BY <1>9 DEF GatewayCuts
  <2>2. /\ Len(Encode(m)) = 2 + Len(m) /\ Len(m) \in Nat
        /\ FrameAt(Encode(m), 0, m)
    BY EncodeLemma, ResponsesAreBodies DEF HEADER, Body
  <2>3. /\ written' \in Seq(Nat) /\ Len(written') = Len(written) + k
        /\ \A i \in 1..Len(written) : written'[i] = written[i]
        /\ \A i \in 1..k : written'[Len(written) + i] = Encode(m)[i]
    <3>1. k \in 1..Len(Encode(m))
      BY <2>2
    <3> QED
      BY <2>1, <3>1, Written
  <2>4. Len(written) \in Nat /\ n \in Nat /\ sent \in Seq(Body)
        /\ written \in Seq(Nat)
    BY ResponsesAreBodies, SeqMonotonic DEF InType
  <2>5. Laid(written', sent, n, b) /\ b[n] = Len(written)
    <3>1. Laid(written, sent, n, b) /\ b[n] = Len(written)
      BY <2>1 DEF InFrames
    <3>2. Len(written) <= Len(written') /\ n \in 0..Len(sent)
      BY <2>3, <2>4
    <3> HIDE DEF n
    <3> QED
      BY <2>3, <2>4, <3>1, <3>2, LaidLonger
  <2>6. Unfinished(written', b[n])
    <3>1. CASE k = 1
      BY <2>3, <2>4, <2>5, <3>1 DEF Unfinished, HEADER
    <3>2. CASE k # 1
      <4>1. 2 \in 1..k /\ k < 2 + Len(m)
        BY <2>2, <3>2
      <4>2. written'[Len(written) + 2] = Len(m)
        BY <2>2, <2>3, <4>1 DEF FrameAt
      <4> QED
        BY <2>2, <2>3, <2>4, <2>5, <4>1, <4>2 DEF Unfinished, HEADER
    <3> QED
      BY <3>1, <3>2
  <2>7. InType' /\ TakenInv'
    BY <2>1, <2>3, <2>4 DEF InType, TakenInv
  <2>8. InFrames(b)'
    <3>1. \A j \in 1..Len(buf) : b[Len(taken)] + j \in 1..Len(written)
      BY BufInStream
    <3>2. \A j \in 1..Len(buf') : buf'[j] = written'[b[Len(taken')] + j]
      BY <2>1, <2>3, <3>1 DEF InFrames
    <3> QED
      BY <2>1, <2>5, <2>6, <3>2 DEF InFrames
  <2> QED
    BY <2>7, <2>8
<1>10. CASE GatewayEnds
  BY <1>1, <1>10 DEF GatewayEnds, InType
<1>11. ASSUME NEW in \in BOOLEAN, NEW outg \in BOOLEAN, Break(in, outg)
       PROVE  InInv'
  BY <1>1, <1>11 DEF Break, InType
<1>12. CASE UNCHANGED vars
  BY <1>1, <1>12 DEF vars, inbound, InType
<1> QED
  BY <1>2, <1>3, <1>4, <1>5, <1>6, <1>7, <1>8, <1>9, <1>10, <1>11, <1>12
     DEF Next, RecvTask, Gateway

(* A stream starts empty.                                                  *)
LEMMA InInvInit ==
  ASSUME Init
  PROVE  InInv
<1>1. /\ sent = <<>> /\ taken = <<>> /\ written = <<>> /\ buf = <<>>
      /\ received = 0 /\ recvQ = <<>> /\ fin \in BOOLEAN /\ inErr \in BOOLEAN
  BY DEF Init
<1>2. InType /\ TakenInv
  <2>1. /\ <<>> \in Seq(Response) /\ <<>> \in Seq(Nat) /\ <<>> \in Seq(Recv)
        /\ Len(sent) = 0 /\ Len(taken) = 0 /\ Len(written) = 0
    BY <1>1
  <2>2. InType
    BY <1>1, <2>1 DEF InType
  <2>3. TakenInv
    BY <2>1 DEF TakenInv
  <2> QED
    BY <2>2, <2>3
<1>3. PICK b : Laid(written, sent, 0, b)
  BY <1>2, LaidNone DEF InType
<1>4. b[0] = 0
  BY <1>3 DEF Laid
<1>5. Unfinished(written, b[Len(sent)])
  BY <1>1, <1>4 DEF Unfinished, HEADER
<1>6. InFrames(b)
  BY <1>1, <1>3, <1>4, <1>5 DEF InFrames
<1> QED
  BY <1>2, <1>6 DEF InInv

-----------------------------------------------------------------------------
(* The results.  Once a receiver was told of the end there is nothing that *)
(* could still come.                                                       *)
ResultType ==
  /\ result \in [Call -> {"none", "message", "ok", "end", "err"}]
  /\ left \subseteq Call

EndInv == \A c \in Recv : result[c] = "end" => fin /\ taken = sent

(* A call returns one of the results.                                      *)
LEMMA ResultTypeStep ==
  ASSUME ResultType, [Next]_vars
  PROVE  ResultType'
<1>1. ASSUME NEW c \in Call, NEW r \in {"message", "ok", "end", "err"},
             Return(c, r)
      PROVE  ResultType'
  BY <1>1 DEF Return, ResultType
<1>2. ASSUME NEW c \in Recv, StartRecv(c) \/ RecvTask(c) PROVE ResultType'
  <2>1. c \in Call
    BY DEF Call
  <2>2. CASE UNCHANGED <<result, left>>
    BY <2>2 DEF ResultType
  <2> QED
    BY <1>1, <1>2, <2>1, <2>2
       DEF StartRecv, RecvTask, RecvFrame, RecvData, RecvEnd, RecvErr, RecvStops
<1>3. ASSUME NEW c \in Send \cup Finish, StartSend(c) \/ SendTask(c)
      PROVE  ResultType'
  <2>1. c \in Call
    BY DEF Call
  <2>2. CASE UNCHANGED <<result, left>>
    BY <2>2 DEF ResultType
  <2> QED
    BY <1>1, <1>3, <2>1, <2>2
       DEF StartSend, SendTask, Write, SendReturns, FinishReturns, SendErr,
           SendStops
<1>4. ASSUME NEW c \in Call, Cancel(c) PROVE ResultType'
  BY <1>4 DEF Cancel, ResultType
<1>5. CASE Gateway
  BY <1>5 DEF Gateway, GatewaySends, GatewayCuts, GatewayEnds, Break, ResultType
<1>6. CASE UNCHANGED vars
  BY <1>6 DEF vars, ResultType
<1> QED
  BY <1>2, <1>3, <1>4, <1>5, <1>6 DEF Next

(* Once the end was told, nothing is taken and nothing is sent.            *)
LEMMA EndInvStep ==
  ASSUME InInv, ResultType, EndInv, [Next]_vars
  PROVE  EndInv'
<1>1. ASSUME UNCHANGED <<sent, taken>>, fin => fin',
             \A d \in Recv : result'[d] = "end" => result[d] = "end"
      PROVE  EndInv'
  BY <1>1 DEF EndInv
<1>2. ASSUME NEW c \in Call, NEW r, Return(c, r), NEW d \in Recv,
             result'[d] = "end", r # "end"
      PROVE  result[d] = "end"
  <2>1. d \in Call
    BY DEF Call
  <2> QED
    BY <1>2, <2>1 DEF Return, ResultType
<1>3. ASSUME NEW c \in Recv, RecvFrame(c) PROVE EndInv'
  <2>1. Len(taken) + 1 \in 1..Len(sent)
    BY <1>3, NextFrame DEF RecvFrame, InInv
  <2>2. taken # sent
    BY <2>1 DEF InInv, InType
  <2>3. c \in Call /\ Return(c, "message")
    BY <1>3 DEF RecvFrame, Call
  <2>4. \A d \in Recv : result'[d] # "end"
    BY <1>2, <2>2, <2>3 DEF EndInv
  <2> QED
    BY <2>4 DEF EndInv
<1>4. ASSUME NEW c \in Recv, RecvEnd(c) PROVE EndInv'
  <2>1. taken = sent /\ fin
    BY <1>4, NothingLeft DEF RecvEnd
  <2> QED
    BY <1>4, <2>1 DEF RecvEnd, RecvStops, EndInv
<1>5. ASSUME NEW c \in Recv, RecvErr(c) PROVE EndInv'
  <2>1. c \in Call /\ Return(c, "err") /\ UNCHANGED <<sent, taken, fin>>
    BY <1>5 DEF RecvErr, RecvStops, Call
  <2> QED
    BY <1>1, <1>2, <2>1
<1>6. ASSUME NEW c \in Recv, StartRecv(c) PROVE EndInv'
  BY <1>1, <1>6 DEF StartRecv
<1>7. ASSUME NEW c \in Recv, NEW k, RecvData(c, k) PROVE EndInv'
  BY <1>1, <1>7 DEF RecvData
<1>8. ASSUME NEW c \in Send \cup Finish, StartSend(c) \/ SendTask(c)
      PROVE  EndInv'
  <2>1. /\ c \in Call /\ UNCHANGED <<sent, taken, fin>>
        /\ UNCHANGED result \/ Return(c, "ok") \/ Return(c, "err")
    BY <1>8 DEF StartSend, SendTask, Write, SendReturns, FinishReturns,
                SendErr, SendStops, inbound, Call
  <2> QED
    BY <1>1, <1>2, <2>1
<1>9. ASSUME NEW c \in Call, Cancel(c) PROVE EndInv'
  BY <1>1, <1>9 DEF Cancel, inbound
<1>10. ASSUME NEW m \in Response, GatewaySends(m) PROVE EndInv'
  BY <1>10 DEF GatewaySends, EndInv
<1>11. CASE \/ \E m \in Response : \E k \in 1..(Len(m) + 1) : GatewayCuts(m, k)
            \/ GatewayEnds
            \/ \E in, outg \in BOOLEAN : Break(in, outg)
  BY <1>1, <1>11 DEF GatewayCuts, GatewayEnds, Break
<1>12. CASE UNCHANGED vars
  BY <1>1, <1>12 DEF vars, inbound
<1> QED
  BY <1>3, <1>4, <1>5, <1>6, <1>7, <1>8, <1>9, <1>10, <1>11, <1>12
     DEF Next, RecvTask, Gateway

-----------------------------------------------------------------------------
(* The sending half.  The stream holds the frames of the first d messages  *)
(* in the order of the mutex, and maybe the start of the next one.         *)
OutType ==
  /\ order \in Seq(Request) /\ out \in Seq(Nat)
  /\ finOut \in BOOLEAN /\ outErr \in BOOLEAN
  /\ progress \in 0..Len(out)
  /\ sendQ \in Seq(Send \cup Finish)
  /\ body \in [Send -> Request]

PrefixAt(w, o, m) ==
  /\ Len(w) - o <= HEADER + Len(m)
  /\ \A j \in 1..(Len(w) - o) : w[o + j] = Encode(m)[j]

OutFrames(d, b) ==
  /\ d \in 0..Len(order)
  /\ Laid(out, order, d, b)
  /\ \/ Len(out) = b[d]
     \/ d < Len(order) /\ PrefixAt(out, b[d], order[d + 1])
  /\ finOut => Len(out) = b[d]

(* What of the stream is not in whole frames is of the send that has the   *)
(* mutex.                                                                  *)
HeadInv(d, b) ==
  /\ Len(out) = b[d] + progress
  /\ progress > 0 => sendQ # <<>> /\ Head(sendQ) \in Send

(* q[i] messages have been sent when the first i calls of the queue have   *)
(* returned.                                                               *)
Queued(d, q) ==
  /\ q \in [0..Len(sendQ) -> 0..Len(order)]
  /\ q[0] = d /\ q[Len(sendQ)] = Len(order)
  /\ \A i \in 1..Len(sendQ) :
       /\ sendQ[i] \in Send => /\ q[i] = q[i - 1] + 1
                               /\ order[q[i]] = body[sendQ[i]]
       /\ sendQ[i] \notin Send => q[i] = q[i - 1]

Working == ~finOut /\ ~outErr

OutInv ==
  /\ OutType
  /\ \E d, b : /\ OutFrames(d, b)
               /\ Working => HeadInv(d, b) /\ \E q : Queued(d, q)

(* And so does the client's side.                                          *)
LEMMA OutInvInit ==
  ASSUME Init
  PROVE  OutInv
<1>1. /\ order = <<>> /\ out = <<>> /\ progress = 0 /\ sendQ = <<>>
      /\ finOut \in BOOLEAN /\ outErr \in BOOLEAN /\ body \in [Send -> Request]
  BY DEF Init
<1>2. /\ <<>> \in Seq(Request) /\ <<>> \in Seq(Nat)
      /\ <<>> \in Seq(Send \cup Finish)
      /\ Len(out) = 0 /\ Len(order) = 0 /\ Len(sendQ) = 0
  BY <1>1
<1>3. OutType
  BY <1>1, <1>2 DEF OutType
<1>4. PICK b : Laid(out, order, 0, b)
  BY <1>3, LaidNone DEF OutType
<1>5. b[0] = 0
  BY <1>4 DEF Laid
<1>6. OutFrames(0, b) /\ HeadInv(0, b)
  BY <1>1, <1>2, <1>4, <1>5 DEF OutFrames, HeadInv
<1>7. \E q : Queued(0, q)
  <2> DEFINE q == [i \in 0..0 |-> 0]
  <2>1. q \in [0..0 -> 0..0] /\ q[0] = 0
    OBVIOUS
  <2> HIDE DEF q
  <2>2. Queued(0, q)
    BY <1>2, <2>1 DEF Queued
  <2> QED
    BY <2>2
<1> QED
  BY <1>3, <1>6, <1>7 DEF OutInv

(* While a send has the mutex, its message is the next one.                *)
LEMMA NextMessage ==
  ASSUME OutType, NEW d, NEW b, OutFrames(d, b), NEW q, Queued(d, q),
         NEW c \in Send, Holds(c, sendQ)
  PROVE  /\ d \in Nat /\ d + 1 \in 1..Len(order) /\ order[d + 1] = body[c]
         /\ body[c] \in Body /\ q[1] = d + 1
<1>1. 1 \in 1..Len(sendQ) /\ sendQ[1] = c
  BY DEF OutType, Holds
<1>2. q[1] = q[0] + 1 /\ order[q[1]] = body[c]
  <2>1. 1 - 1 = 0
    OBVIOUS
  <2> QED
    BY <1>1, <2>1 DEF Queued
<1>3. q[0] = d /\ q[1] \in 0..Len(order) /\ d \in 0..Len(order)
      /\ Len(order) \in Nat
  BY <1>1 DEF Queued, OutFrames, OutType
<1>4. body[c] \in Body
  BY ResponsesAreBodies DEF OutType
<1> QED
  BY <1>2, <1>3, <1>4

(* The queue without its head.                                             *)
LEMMA QueuePops ==
  ASSUME OutType, NEW d, NEW q, Queued(d, q), sendQ # <<>>,
         sendQ' = Tail(sendQ), UNCHANGED <<order, body>>
  PROVE  \E p : Queued(q[1], p)'
<1> DEFINE n == Len(sendQ)
<1>0. PICK p : p = [i \in 0..(n - 1) |-> q[i + 1]]
  OBVIOUS
<1>1. /\ n \in Nat \ {0} /\ Len(sendQ') = n - 1
      /\ \A i \in 1..(n - 1) : sendQ'[i] = sendQ[i + 1]
  BY HeadTailProperties DEF OutType
<1> HIDE DEF n
<1>2. p \in [0..(n - 1) -> 0..Len(order)]
      /\ \A i \in 0..(n - 1) : p[i] = q[i + 1]
  BY <1>0, <1>1 DEF Queued, n
<1>3. p[0] = q[1] /\ p[n - 1] = q[n]
  BY <1>1, <1>2
<1>4. ASSUME NEW i \in 1..(n - 1)
      PROVE  /\ sendQ'[i] \in Send => /\ p[i] = p[i - 1] + 1
                                      /\ order[p[i]] = body[sendQ'[i]]
             /\ sendQ'[i] \notin Send => p[i] = p[i - 1]
  <2>1. /\ i + 1 \in 1..n /\ (i + 1) - 1 = i /\ i \in 0..(n - 1)
        /\ i - 1 \in 0..(n - 1) /\ (i - 1) + 1 = i
    BY <1>1
  <2>2. p[i] = q[i + 1] /\ p[i - 1] = q[i] /\ sendQ'[i] = sendQ[i + 1]
    BY <1>1, <1>2, <2>1
  <2>3. /\ sendQ[i + 1] \in Send => /\ q[i + 1] = q[i] + 1
                                    /\ order[q[i + 1]] = body[sendQ[i + 1]]
        /\ sendQ[i + 1] \notin Send => q[i + 1] = q[i]
    BY <2>1 DEF Queued, n
  <2> QED
    BY <2>2, <2>3
<1>5. p[n - 1] = Len(order)
  BY <1>3 DEF Queued, n
<1>6. Queued(q[1], p)'
  <2>1. /\ p \in [0..Len(sendQ') -> 0..Len(order')] /\ p[0] = q[1]
        /\ p[Len(sendQ')] = Len(order')
    BY <1>1, <1>2, <1>3, <1>5
  <2>2. \A i \in 1..Len(sendQ') :
          /\ sendQ'[i] \in Send => /\ p[i] = p[i - 1] + 1
                                   /\ order'[p[i]] = body'[sendQ'[i]]
          /\ sendQ'[i] \notin Send => p[i] = p[i - 1]
    BY <1>1, <1>4
  <2> QED
    BY <2>1, <2>2 DEF Queued
<1> QED
  BY <1>6

(* One more call in the queue, and its message in the order.               *)
LEMMA QueueGrows ==
  ASSUME OutType, NEW d, NEW q, Queued(d, q), NEW c \in Send \cup Finish,
         sendQ' = Append(sendQ, c), UNCHANGED body,
         order' = IF c \in Send THEN Append(order, body[c]) ELSE order
  PROVE  \E p : Queued(d, p)'
<1> DEFINE n == Len(sendQ)
<1>0. PICK p : p = [i \in 0..(n + 1) |-> IF i <= n THEN q[i] ELSE Len(order')]
  OBVIOUS
<1>1. /\ n \in Nat /\ Len(sendQ') = n + 1 /\ sendQ'[n + 1] = c
      /\ \A i \in 1..n : sendQ'[i] = sendQ[i]
  BY DEF OutType
<1>2. /\ Len(order) \in Nat /\ Len(order') \in Nat /\ Len(order) <= Len(order')
      /\ \A i \in 1..Len(order) : order'[i] = order[i]
      /\ c \in Send => /\ Len(order') = Len(order) + 1
                        /\ order'[Len(order')] = body[c]
      /\ c \notin Send => Len(order') = Len(order)
  BY DEF OutType
<1>3. q \in [0..n -> 0..Len(order)] /\ q[0] = d /\ q[n] = Len(order)
  BY DEF Queued
<1> HIDE DEF n
<1>4. /\ p \in [0..(n + 1) -> 0..Len(order')]
      /\ \A i \in 0..n : p[i] = q[i]
      /\ p[n + 1] = Len(order') /\ p[0] = d
  BY <1>0, <1>1, <1>2, <1>3
<1>5. ASSUME NEW i \in 1..(n + 1)
      PROVE  /\ sendQ'[i] \in Send => /\ p[i] = p[i - 1] + 1
                                      /\ order'[p[i]] = body[sendQ'[i]]
             /\ sendQ'[i] \notin Send => p[i] = p[i - 1]
  <2>1. CASE i = n + 1
    <3>1. p[i] = Len(order') /\ p[i - 1] = Len(order) /\ sendQ'[i] = c
      BY <1>1, <1>3, <1>4, <2>1
    <3> QED
      BY <1>2, <3>1
  <2>2. CASE i \in 1..n
    <3>1. p[i] = q[i] /\ p[i - 1] = q[i - 1] /\ sendQ'[i] = sendQ[i]
          /\ q[i] \in 0..Len(order) /\ q[i - 1] \in 0..Len(order)
      BY <1>1, <1>3, <1>4, <2>2
    <3>2. /\ sendQ[i] \in Send => /\ q[i] = q[i - 1] + 1
                                  /\ order[q[i]] = body[sendQ[i]]
          /\ sendQ[i] \notin Send => q[i] = q[i - 1]
      BY <2>2 DEF Queued, n
    <3>3. sendQ[i] \in Send => q[i] \in 1..Len(order)
      BY <1>2, <3>1, <3>2
    <3> QED
      BY <1>2, <3>1, <3>2, <3>3
  <2>3. i = n + 1 \/ i \in 1..n
    BY <1>1
  <2> QED
    BY <2>1, <2>2, <2>3
<1>6. Queued(d, p)'
  <2>1. /\ p \in [0..Len(sendQ') -> 0..Len(order')]
        /\ p[Len(sendQ')] = Len(order')
    BY <1>1, <1>4
  <2>2. \A i \in 1..Len(sendQ') :
          /\ sendQ'[i] \in Send => /\ p[i] = p[i - 1] + 1
                                   /\ order'[p[i]] = body'[sendQ'[i]]
          /\ sendQ'[i] \notin Send => p[i] = p[i - 1]
    BY <1>1, <1>5
  <2> QED
    BY <1>4, <2>1, <2>2 DEF Queued
<1> QED
  BY <1>6

(* A call that joins the queue.                                            *)
LEMMA StartSendStep ==
  ASSUME OutInv, NEW c \in Send \cup Finish, StartSend(c)
  PROVE  OutInv'
<1> PICK d, b : /\ OutFrames(d, b)
                /\ Working => HeadInv(d, b) /\ \E q : Queued(d, q)
  BY DEF OutInv
<1>1. /\ sendQ' = Append(sendQ, c)
      /\ order' = IF c \in Send THEN Append(order, body[c]) ELSE order
      /\ UNCHANGED <<out, progress, finOut, outErr, body>>
  BY DEF StartSend
<1>2. OutType
  BY DEF OutInv
<1>3. /\ order' \in Seq(Request) /\ Len(order) \in Nat /\ Len(order') \in Nat
      /\ Len(order) <= Len(order')
      /\ \A i \in 1..Len(order) : order'[i] = order[i]
  BY <1>1, <1>2 DEF OutType
<1>4. OutType'
  BY <1>1, <1>2, <1>3 DEF OutType
<1>5. OutFrames(d, b)'
  <2>1. d \in 0..Len(order) /\ Laid(out, order, d, b)
    BY DEF OutFrames
  <2>2. d \in Nat /\ d \in 0..Len(order') /\ \A i \in 1..d : order'[i] = order[i]
    BY <1>3, <2>1
  <2>3. Laid(out, order', d, b)
    BY <2>1, <2>2, LaidSame
  <2>4. d < Len(order) => d < Len(order') /\ order'[d + 1] = order[d + 1]
    BY <1>3, <2>2
  <2> QED
    BY <1>1, <2>2, <2>3, <2>4 DEF OutFrames
<1>6. ASSUME Working PROVE HeadInv(d, b)' /\ \E q : Queued(d, q)'
  <2> PICK q : Queued(d, q)
    BY <1>6
  <2>1. \E p : Queued(d, p)'
    BY <1>1, <1>2, QueueGrows
  <2>2. sendQ # <<>> => sendQ' # <<>> /\ Head(sendQ') = Head(sendQ)
    BY <1>1, <1>2 DEF OutType
  <2>3. HeadInv(d, b)'
    BY <1>1, <1>6, <2>2 DEF HeadInv
  <2> QED
    BY <2>1, <2>3
<1>7. Working' = Working
  BY <1>1 DEF Working
<1> QED
  BY <1>4, <1>5, <1>6, <1>7 DEF OutInv

(* A unit of the frame of the send that has the mutex.                     *)
LEMMA WriteStep ==
  ASSUME OutType, NEW d, NEW b, OutFrames(d, b), HeadInv(d, b),
         NEW q, Queued(d, q), NEW c \in Send, Write(c)
  PROVE  OutInv' /\ OutFrames(d, b)' /\ HeadInv(d, b)' /\ Queued(d, q)'
<1> DEFINE m == body[c]
           o == b[d]
           x == Encode(m)[progress + 1]
<1>1. /\ Holds(c, sendQ) /\ ~finOut /\ ~outErr /\ progress < Len(Encode(m))
      /\ out' = Append(out, x) /\ progress' = progress + 1
      /\ UNCHANGED <<order, finOut, sendQ, outErr, body>>
  BY DEF Write
<1>2. d \in Nat /\ d + 1 \in 1..Len(order) /\ order[d + 1] = m /\ m \in Body
  BY <1>1, NextMessage
<1>3. /\ Encode(m) \in Seq(Nat) /\ Len(Encode(m)) = 2 + Len(m)
      /\ Len(m) \in Nat
  BY <1>2, EncodeLemma DEF HEADER, Body
<1>4. progress \in Nat /\ Len(out) \in Nat
  BY DEF OutType
<1>5. x \in Nat
  BY <1>1, <1>3, <1>4
<1>6. o \in Nat /\ Len(out) = o + progress
  BY <1>2 DEF OutFrames, Laid, HeadInv
<1> HIDE DEF x, o, m
<1>7. /\ out' \in Seq(Nat) /\ Len(out') = Len(out) + 1
      /\ out'[Len(out) + 1] = x /\ \A i \in 1..Len(out) : out'[i] = out[i]
  BY <1>1, <1>5 DEF OutType
<1>8. OutType'
  BY <1>1, <1>4, <1>7 DEF OutType
<1>9. \A j \in 1..progress : out[o + j] = Encode(m)[j]
  <2>1. CASE progress = 0
    BY <2>1
  <2>2. CASE progress # 0
    <3>1. Len(out) # o /\ Len(out) - o = progress
      BY <1>4, <1>6, <2>2
    <3>2. PrefixAt(out, o, m)
      BY <1>2, <3>1 DEF OutFrames, o
    <3> QED
      BY <3>1, <3>2 DEF PrefixAt
  <2> QED
    BY <2>1, <2>2
<1>10. PrefixAt(out', o, m)
  <2>1. Len(out') - o = progress + 1 /\ progress + 1 <= 2 + Len(m)
    BY <1>1, <1>3, <1>4, <1>6, <1>7
  <2>2. ASSUME NEW j \in 1..(progress + 1) PROVE out'[o + j] = Encode(m)[j]
    <3>1. CASE j \in 1..progress
      <4>1. o + j \in 1..Len(out)
        BY <1>4, <1>6, <3>1
      <4> QED
        BY <1>7, <1>9, <3>1, <4>1
    <3>2. CASE j = progress + 1
      <4>1. o + j = Len(out) + 1
        BY <1>4, <1>6, <3>2
      <4> QED
        BY <1>7, <3>2, <4>1 DEF x
    <3>3. j \in 1..progress \/ j = progress + 1
      BY <1>4
    <3> QED
      BY <3>1, <3>2, <3>3
  <2> QED
    BY <2>1, <2>2 DEF PrefixAt, HEADER
<1>11. Laid(out', order, d, b)
  <2>1. /\ out \in Seq(Nat) /\ order \in Seq(Body) /\ d \in 0..Len(order)
        /\ Laid(out, order, d, b) /\ Len(out) <= Len(out')
    BY <1>4, <1>7, ResponsesAreBodies, SeqMonotonic DEF OutType, OutFrames
  <2> QED
    BY <1>7, <2>1, LaidLonger
<1>12. OutFrames(d, b)'
  <2>1. d \in 0..Len(order) /\ d < Len(order)
    BY <1>2
  <2> QED
    BY <1>1, <1>2, <1>10, <1>11, <2>1 DEF OutFrames, o
<1>13. HeadInv(d, b)'
  <2>1. Len(out') = o + progress'
    BY <1>1, <1>4, <1>6, <1>7
  <2> QED
    BY <1>1, <2>1 DEF HeadInv, Holds, o
<1>14. Queued(d, q)'
  BY <1>1 DEF Queued
<1> QED
  BY <1>8, <1>12, <1>13, <1>14 DEF OutInv

(* A frame that is written whole is one more frame.                        *)
LEMMA FrameDone ==
  ASSUME NEW w \in Seq(Nat), NEW msgs \in Seq(Body),
         NEW n \in Nat, n + 1 \in 1..Len(msgs), NEW b, Laid(w, msgs, n, b),
         PrefixAt(w, b[n], msgs[n + 1]),
         Len(w) = b[n] + HEADER + Len(msgs[n + 1])
  PROVE  \E bb : Laid(w, msgs, n + 1, bb) /\ bb[n + 1] = Len(w)
<1> DEFINE m == msgs[n + 1]
           o == b[n]
<1>1. m \in Body /\ o \in Nat /\ PrefixAt(w, o, m)
      /\ Len(w) = o + 2 + Len(m)
  BY DEF Laid, HEADER
<1> HIDE DEF o, m
<1>2. Len(m) \in Nat /\ FrameAt(Encode(m), 0, m)
  BY <1>1, EncodeLemma DEF Body
<1>3. Len(w) - o = 2 + Len(m)
  BY <1>1, <1>2
<1>4. \A j \in 1..(2 + Len(m)) : w[o + j] = Encode(m)[j]
  BY <1>1, <1>3 DEF PrefixAt
<1>5. FrameAt(w, o, m)
  <2>1. 1 \in 1..(2 + Len(m)) /\ 2 \in 1..(2 + Len(m))
        /\ \A j \in 1..Len(m) : /\ 2 + j \in 1..(2 + Len(m))
                                /\ o + (2 + j) = o + 2 + j /\ 0 + 2 + j = 2 + j
    BY <1>1, <1>2
  <2>2. w[o + 1] = 0 /\ w[o + 2] = Len(m)
    BY <1>2, <1>4, <2>1 DEF FrameAt
  <2>3. \A j \in 1..Len(m) : w[o + 2 + j] = m[j]
    BY <1>2, <1>4, <2>1 DEF FrameAt, HEADER
  <2> QED
    BY <2>2, <2>3 DEF FrameAt, HEADER
<1>6. FrameAt(w, b[n], msgs[n + 1])
  BY <1>5 DEF o, m
<1>7. \E bb : /\ Laid(w, msgs, n + 1, bb) /\ bb[n + 1] = Len(w)
              /\ \A i \in 0..n : bb[i] = b[i]
  BY <1>6, LaidNext
<1> QED
  BY <1>7

(* A send that has written its whole frame returns.                        *)
LEMMA SendReturnsStep ==
  ASSUME OutType, NEW d, NEW b, OutFrames(d, b), HeadInv(d, b),
         NEW q, Queued(d, q), NEW c \in Send, SendReturns(c)
  PROVE  \E bb : OutFrames(d + 1, bb)' /\ HeadInv(d + 1, bb)'
<1> DEFINE m == body[c]
           o == b[d]
<1>1. /\ Holds(c, sendQ) /\ progress = Len(Encode(m)) /\ progress' = 0
      /\ UNCHANGED <<order, out, finOut, outErr, body>>
  BY DEF SendReturns, SendStops
<1>2. d \in Nat /\ d + 1 \in 1..Len(order) /\ order[d + 1] = m /\ m \in Body
  BY <1>1, NextMessage
<1>3. Len(Encode(m)) = HEADER + Len(m) /\ Len(m) \in Nat
  BY <1>2, EncodeLemma DEF Body
<1>4. o \in Nat /\ Len(out) = o + progress /\ Len(out) \in Nat
  BY <1>2 DEF OutFrames, Laid, HeadInv, OutType
<1> HIDE DEF o, m
<1>5. Len(out) = o + HEADER + Len(m) /\ Len(out) # o
  BY <1>1, <1>3, <1>4 DEF HEADER
<1>6. PICK bb : Laid(out, order, d + 1, bb) /\ bb[d + 1] = Len(out)
  <2>1. /\ out \in Seq(Nat) /\ order \in Seq(Body) /\ Laid(out, order, d, b)
    BY ResponsesAreBodies, SeqMonotonic DEF OutType, OutFrames
  <2>2. Len(out) = b[d] + HEADER + Len(order[d + 1])
    BY <1>2, <1>5 DEF o
  <2>3. PrefixAt(out, b[d], order[d + 1])
    BY <1>5 DEF OutFrames, o
  <2> QED
    BY <1>2, <2>1, <2>2, <2>3, FrameDone
<1>7. OutFrames(d + 1, bb)'
  <2>1. d + 1 \in 0..Len(order)
    BY <1>2
  <2> QED
    BY <1>1, <1>6, <2>1 DEF OutFrames
<1>8. HeadInv(d + 1, bb)'
  BY <1>1, <1>4, <1>6 DEF HeadInv
<1> QED
  BY <1>7, <1>8

(* Every step keeps the frames of the sending half in place.               *)
LEMMA OutInvStep ==
  ASSUME OutInv, [Next]_vars
  PROVE  OutInv'
<1> PICK d, b : /\ OutFrames(d, b)
                /\ Working => HeadInv(d, b) /\ \E q : Queued(d, q)
  BY DEF OutInv
<1>1. OutType
  BY DEF OutInv
<1>2. ASSUME UNCHANGED <<order, out, progress, finOut, sendQ, body>>,
             outErr' \in BOOLEAN, Working' => Working
      PROVE  OutInv'
  <2>1. OutType'
    BY <1>1, <1>2 DEF OutType
  <2>2. OutFrames(d, b)'
    BY <1>2 DEF OutFrames
  <2>3. ASSUME Working' PROVE HeadInv(d, b)' /\ \E q : Queued(d, q)'
    <3> PICK q : Queued(d, q)
      BY <1>2, <2>3
    <3>1. Queued(d, q)'
      BY <1>2 DEF Queued
    <3>2. HeadInv(d, b)'
      BY <1>2, <2>3 DEF HeadInv
    <3> QED
      BY <3>1, <3>2
  <2> QED
    BY <2>1, <2>2, <2>3 DEF OutInv
<1>3. ASSUME UNCHANGED outbound PROVE OutInv'
  BY <1>1, <1>2, <1>3 DEF outbound, OutType, Working
<1>4. ASSUME NEW c \in Recv, StartRecv(c) \/ RecvTask(c) PROVE OutInv'
  BY <1>3, <1>4 DEF StartRecv, RecvTask, RecvFrame, RecvData, RecvEnd, RecvErr,
                    RecvStops
<1>5. ASSUME NEW c \in Send \cup Finish, StartSend(c) PROVE OutInv'
  BY <1>5, StartSendStep
<1>6. ASSUME NEW c \in Send \cup Finish, Write(c) PROVE OutInv'
  <2>1. c \in Send /\ Working
    BY <1>6 DEF Write, Working
  <2> PICK q : Queued(d, q)
    BY <2>1
  <2> QED
    BY <1>1, <1>6, <2>1, WriteStep
<1>7. ASSUME NEW c, NEW r, SendStops(c, r), Holds(c, sendQ)
      PROVE  /\ progress' = 0 /\ UNCHANGED <<order, out, outErr, body>>
             /\ sendQ # <<>> /\ sendQ' = Tail(sendQ)
             /\ finOut' \in BOOLEAN => OutType'
  <2>1. sendQ # <<>> /\ sendQ' = Tail(sendQ)
    BY <1>7 DEF SendStops, Holds
  <2>2. sendQ' \in Seq(Send \cup Finish)
    BY <1>1, <2>1, HeadTailProperties DEF OutType
  <2>3. progress' = 0 /\ UNCHANGED <<order, out, outErr, body>>
    BY <1>7 DEF SendStops
  <2>4. 0 \in 0..Len(out)
    BY <1>1 DEF OutType
  <2> QED
    BY <1>1, <2>1, <2>2, <2>3, <2>4 DEF OutType
<1>8. ASSUME ~Working, UNCHANGED <<order, out, finOut, outErr>>, OutType'
      PROVE  OutInv'
  <2>1. OutFrames(d, b)'
    BY <1>8 DEF OutFrames
  <2>2. ~Working'
    BY <1>8 DEF Working
  <2> QED
    BY <1>8, <2>1, <2>2 DEF OutInv
<1>9. ASSUME NEW c \in Send \cup Finish, SendReturns(c) PROVE OutInv'
  <2>1. c \in Send /\ Holds(c, sendQ) /\ SendStops(c, "ok") /\ UNCHANGED finOut
    BY <1>9 DEF SendReturns
  <2>2. /\ progress' = 0 /\ UNCHANGED <<order, out, outErr, body>>
        /\ sendQ # <<>> /\ sendQ' = Tail(sendQ)
    BY <1>7, <2>1
  <2>3. finOut' \in BOOLEAN
    BY <1>1, <2>1 DEF OutType
  <2>4. OutType'
    BY <1>7, <2>1, <2>3
  <2>5. CASE ~Working
    BY <1>8, <2>1, <2>2, <2>4, <2>5
  <2>6. CASE Working
    <3> PICK q : Queued(d, q)
      BY <2>6
    <3>1. PICK bb : OutFrames(d + 1, bb)' /\ HeadInv(d + 1, bb)'
      BY <1>1, <1>9, <2>1, <2>6, SendReturnsStep
    <3>2. q[1] = d + 1
      BY <1>1, <2>1, NextMessage
    <3>3. \E p : Queued(q[1], p)'
      BY <1>1, <2>2, QueuePops
    <3>4. \E p : Queued(d + 1, p)'
      BY <3>2, <3>3
    <3> QED
      BY <2>4, <3>1, <3>4 DEF OutInv
  <2> QED
    BY <2>5, <2>6
<1>10. ASSUME NEW c \in Send \cup Finish, FinishReturns(c) PROVE OutInv'
  <2>1. /\ c \in Finish /\ Holds(c, sendQ) /\ SendStops(c, "ok")
        /\ Working /\ finOut' = TRUE
    BY <1>10 DEF FinishReturns, Working
  <2>2. OutType' /\ UNCHANGED <<order, out>>
    BY <1>7, <2>1
  <2>3. Head(sendQ) \notin Send
    BY <2>1, MessageAssumption DEF Holds
  <2>4. Len(out) = b[d]
    <3>1. d \in 0..Len(order) /\ b[d] \in Nat /\ progress \in Nat
      BY <1>1 DEF OutFrames, Laid, OutType
    <3>2. Len(out) = b[d] + progress /\ ~(progress > 0)
      BY <2>1, <2>3 DEF HeadInv
    <3> QED
      BY <3>1, <3>2
  <2>5. OutFrames(d, b)'
    BY <2>2, <2>4 DEF OutFrames
  <2>6. ~Working'
    BY <2>1 DEF Working
  <2> QED
    BY <2>2, <2>5, <2>6 DEF OutInv
<1>11. ASSUME NEW c \in Send \cup Finish, SendErr(c) PROVE OutInv'
  <2>1. /\ Holds(c, sendQ) /\ SendStops(c, "err") /\ ~Working
        /\ UNCHANGED finOut
    BY <1>11 DEF SendErr, Working
  <2>2. finOut' \in BOOLEAN
    BY <1>1, <2>1 DEF OutType
  <2>3. OutType' /\ UNCHANGED <<order, out, outErr>>
    BY <1>7, <2>1, <2>2
  <2> QED
    BY <1>8, <2>1, <2>3
<1>12. ASSUME NEW c \in Call, Cancel(c) PROVE OutInv'
  BY <1>3, <1>12 DEF Cancel
<1>13. CASE \/ \E m \in Response : GatewaySends(m)
            \/ \E m \in Response : \E k \in 1..(Len(m) + 1) : GatewayCuts(m, k)
            \/ GatewayEnds
  BY <1>3, <1>13 DEF GatewaySends, GatewayCuts, GatewayEnds
<1>14. ASSUME NEW in \in BOOLEAN, NEW outg \in BOOLEAN, Break(in, outg)
       PROVE  OutInv'
  <2>1. /\ UNCHANGED <<order, out, progress, finOut, sendQ, body>>
        /\ outErr' = (outErr \/ outg)
    BY <1>14 DEF Break
  <2>2. outErr' \in BOOLEAN /\ (Working' => Working)
    BY <2>1 DEF Working
  <2> QED
    BY <1>2, <2>1, <2>2
<1>15. CASE UNCHANGED vars
  BY <1>3, <1>15 DEF vars
<1> QED
  BY <1>4, <1>5, <1>6, <1>9, <1>10, <1>11, <1>12, <1>13, <1>14, <1>15
     DEF Next, SendTask, Gateway

-----------------------------------------------------------------------------
(* What the gateway decodes.  Decode calls itself with larger arguments    *)
(* only, so its recursion is well founded.                                 *)
Unfold(N, Has, nxt, hd, stop, g) ==
  [i \in 1..N |-> IF i \in Has
                  THEN [g[nxt[i]] EXCEPT !.messages = hd[i] \o @]
                  ELSE stop[i]]

(* Such a recursion has a solution.                                        *)
LEMMA UpwardRecursion ==
  ASSUME NEW N \in Nat, NEW Has, NEW nxt, NEW hd, NEW stop,
         \A i \in 1..N : i \in Has => nxt[i] \in (i + 1)..N
  PROVE  \E g : g = Unfold(N, Has, nxt, hd, stop, g)
<1> DEFINE Def(g, i) == IF i \in Has
                        THEN [g[nxt[i]] EXCEPT !.messages = hd[i] \o @]
                        ELSE stop[i]
           Good(g, n) == /\ g = [i \in 1..N |-> g[i]]
                         /\ \A i \in 1..N : i > N - n => g[i] = Def(g, i)
           T == {n \in 0..N : ~\E g : Good(g, n)}
<1>1. ASSUME NEW f, NEW g, NEW i, i \in Has => f[nxt[i]] = g[nxt[i]]
      PROVE  Def(f, i) = Def(g, i)
  BY <1>1
<1> HIDE DEF Def
<1>2. T = {}
  <2> SUFFICES ASSUME T # {} PROVE FALSE
    OBVIOUS
  <2>1. PICK n \in T : \A k \in T : n <= k
    <3>1. T \in SUBSET Nat
      OBVIOUS
    <3> HIDE DEF T
    <3> QED
      BY <3>1, LeastElement
  <2>2. n \in 0..N /\ ~\E g : Good(g, n)
    BY <2>1
  <2>3. n # 0
    <3> DEFINE g == [i \in 1..N |-> 0]
    <3>1. Good(g, 0)
      OBVIOUS
    <3> QED
      BY <2>2, <3>1
  <2>4. n - 1 \in 0..N /\ n - 1 \notin T
    BY <2>1, <2>2, <2>3
  <2>5. PICK g : Good(g, n - 1)
    BY <2>4
  <2> DEFINE k == N - n + 1
             f == [g EXCEPT ![k] = Def(g, k)]
  <2>6. k \in 1..N /\ \A i \in 1..N : (i > N - n <=> i = k \/ i > N - (n - 1))
                                    /\ (i > N - (n - 1) => i > k)
    BY <2>2, <2>3
  <2> HIDE DEF k
  <2>7. /\ f = [i \in 1..N |-> f[i]] /\ f[k] = Def(g, k)
        /\ \A i \in 1..N : i # k => f[i] = g[i]
    BY <2>5, <2>6
  <2> HIDE DEF f
  <2>8. ASSUME NEW i \in 1..N, i >= k PROVE Def(f, i) = Def(g, i)
    <3>1. ASSUME i \in Has PROVE f[nxt[i]] = g[nxt[i]]
      <4>1. nxt[i] \in 1..N /\ nxt[i] # k
        BY <2>6, <2>8, <3>1
      <4> QED
        BY <2>7, <4>1
    <3> QED
      BY <1>1, <3>1
  <2>9. ASSUME NEW i \in 1..N, i > N - n PROVE f[i] = Def(f, i)
    <3>1. CASE i = k
      BY <2>6, <2>7, <2>8, <3>1
    <3>2. CASE i > N - (n - 1)
      <4>1. i > k /\ i # k /\ i >= k
        BY <2>6, <3>2
      <4>2. g[i] = Def(g, i)
        BY <2>5, <3>2
      <4> QED
        BY <2>7, <2>8, <4>1, <4>2
    <3> QED
      BY <2>6, <2>9, <3>1, <3>2
  <2> QED
    BY <2>2, <2>7, <2>9
<1>3. N \in 0..N
  OBVIOUS
<1>4. PICK g : Good(g, N)
  BY <1>2, <1>3
<1>5. g = [i \in 1..N |-> Def(g, i)]
  BY <1>4
<1> QED
  BY <1>5 DEF Def, Unfold

(* Of a stream that is frames and an unfinished tail it yields just these. *)
LEMMA DecodeFrames ==
  ASSUME NEW w \in Seq(Nat), NEW msgs \in Seq(Body), NEW d \in 0..Len(msgs),
         NEW b, Laid(w, msgs, d, b), Unfinished(w, b[d])
  PROVE  /\ Decode(w).messages = SubSeq(msgs, 1, d)
         /\ Decode(w).rest = SubSeq(w, b[d] + 1, Len(w))
<1> DEFINE N == Len(w) + 1
           R(i) == SubSeq(w, i, Len(w))
           F(g) == [i \in 1..(Len(w) + 1) |->
                      IF HasFrame(R(i))
                      THEN [g[i + HEADER + R(i)[2]]
                              EXCEPT !.messages = <<FrameBody(R(i))>> \o @]
                      ELSE [messages |-> <<>>, rest |-> R(i)]]
           from == CHOOSE g : g = F(g)
<1>1. Decode(w) = from[1]
  BY DEF Decode
<1> HIDE DEF from
<1>2. N \in Nat /\ Len(w) \in Nat
  OBVIOUS
<1>3. ASSUME NEW i \in 1..N
      PROVE  /\ R(i) \in Seq(Nat) /\ Len(R(i)) = N - i
             /\ \A j \in 1..(N - i) : R(i)[j] = w[i + j - 1]
  <2>1. \A k \in i..Len(w) : w[k] \in Nat
    BY <1>2
  <2>2. i \in Int /\ Len(w) \in Int
    BY <1>2
  <2>3. /\ R(i) \in Seq(Nat)
        /\ Len(R(i)) = IF i <= Len(w) THEN Len(w) - i + 1 ELSE 0
        /\ \A j \in 1..(Len(w) - i + 1) : R(i)[j] = w[i + j - 1]
    BY <2>1, <2>2, SubSeqProperties
  <2>4. /\ Len(w) - i + 1 = N - i
        /\ (IF i <= Len(w) THEN Len(w) - i + 1 ELSE 0) = N - i
    BY <1>2
  <2> HIDE DEF R, N
  <2> QED
    BY <2>3, <2>4
<1> HIDE DEF R
<1>4. \E g : g = F(g)
  <2> DEFINE Has == {i \in 1..N : HasFrame(R(i))}
             nxt == [i \in 1..N |-> i + HEADER + R(i)[2]]
             hd == [i \in 1..N |-> <<FrameBody(R(i))>>]
             stop == [i \in 1..N |-> [messages |-> <<>>, rest |-> R(i)]]
             G(g) == Unfold(N, Has, nxt, hd, stop, g)
  <2>1. ASSUME NEW i \in 1..N, i \in Has PROVE nxt[i] \in (i + 1)..N
    <3>0. PICK r : r = R(i)
      OBVIOUS
    <3>1. /\ r \in Seq(Nat) /\ Len(r) = N - i
          /\ Len(r) >= 2 /\ Len(r) >= 2 + r[2]
      BY <1>3, <2>1, <3>0 DEF HasFrame, HEADER
    <3>2. r[2] \in Nat
      <4>1. 2 \in 1..Len(r)
        BY <3>1
      <4>2. r \in Seq(Nat)
        BY <3>1
      <4> QED
        BY <4>1, <4>2, ElementOfSeq
    <3>3. nxt[i] = i + 2 + r[2]
      BY <3>0 DEF HEADER
    <3> HIDE DEF N, nxt
    <3>4. i + 2 + r[2] \in (i + 1)..N
      <4> DEFINE y == r[2]
                 z == Len(r)
      <4>1. y \in Nat /\ z = N - i /\ z >= 2 + y
        BY <3>1, <3>2
      <4> HIDE DEF y, z
      <4>2. i + 2 + y \in (i + 1)..N
        BY <1>2, <4>1
      <4> QED
        BY <4>2 DEF y
    <3> QED
      BY <3>3, <3>4
  <2>2. \E g : g = G(g)
    <3> HIDE DEF Has, nxt, hd, stop, N
    <3>1. \A i \in 1..N : i \in Has => nxt[i] \in (i + 1)..N
      BY <2>1
    <3> QED
      BY <1>2, <3>1, UpwardRecursion
  <2>3. ASSUME NEW g PROVE F(g) = G(g)
    BY DEF Unfold
  <2> HIDE DEF F, G
  <2> QED
    BY <2>2, <2>3
<1>5. from = F(from)
  <2> HIDE DEF F
  <2> QED
    BY <1>4 DEF from
<1> DEFINE tail == R(b[d] + 1)
           At(k) == from[b[d - k] + 1] =
                      [messages |-> SubSeq(msgs, (d - k) + 1, d), rest |-> tail]
           T == {k \in 0..d : ~At(k)}
<1>6. /\ d \in Nat /\ \A i \in 0..d : b[i] \in Nat /\ b[i] + 1 \in 1..N
  BY <1>2 DEF Laid
<1>7. At(0)
  <2> DEFINE o == b[d]
  <2>1. o + 1 \in 1..N /\ o \in Nat /\ d - 0 = d
    BY <1>6
  <2>2. Unfinished(w, o)
    OBVIOUS
  <2> HIDE DEF o
  <2>3. Len(R(o + 1)) = Len(w) - o
    <3>1. N - (o + 1) = Len(w) - o
      BY <1>2, <2>1
    <3> HIDE DEF N
    <3>2. Len(R(o + 1)) = N - (o + 1)
      BY <1>3, <2>1
    <3> QED
      BY <3>1, <3>2
  <2>4. ~HasFrame(R(o + 1))
    <3>1. CASE Len(w) - o < 2
      BY <1>2, <2>1, <2>3, <3>1 DEF HasFrame, HEADER
    <3>2. CASE Len(w) - o >= 2
      <4>1. Len(w) - o < 2 + w[o + 2]
        BY <2>2, <3>2 DEF Unfinished, HEADER
      <4>2. 2 \in 1..(N - (o + 1)) /\ (o + 1) + 2 - 1 = o + 2
        BY <1>2, <2>1, <3>2
      <4>3. R(o + 1)[2] = w[o + 2]
        BY <1>3, <2>1, <4>2
      <4>4. ~(Len(R(o + 1)) >= 2 + R(o + 1)[2])
        <5>1. w[o + 2] \in Nat
          BY <1>2, <2>1, <3>2
        <5> DEFINE y == w[o + 2]
                   z == Len(R(o + 1))
        <5>2. y \in Nat /\ z = Len(w) - o /\ Len(w) - o < 2 + y
          BY <2>3, <4>1, <5>1
        <5> HIDE DEF y, z
        <5>3. ~(z >= 2 + y)
          BY <1>2, <2>1, <5>2
        <5> QED
          BY <4>3, <5>3 DEF y, z
      <4> QED
        BY <4>4 DEF HasFrame, HEADER
    <3> QED
      BY <1>2, <2>1, <3>1, <3>2
  <2>5. from[o + 1] = [messages |-> <<>>, rest |-> R(o + 1)]
    BY <1>5, <2>1, <2>4
  <2>6. SubSeq(msgs, d + 1, d) = <<>>
    BY <1>6, SubSeqEmpty
  <2> QED
    BY <2>1, <2>5, <2>6 DEF o
<1>8. ASSUME NEW k \in 1..d, At(k - 1) PROVE At(k)
  <2>1. PICK j : j = d - k
    OBVIOUS
  <2>2. /\ j \in Nat /\ j \in 0..d /\ j + 1 \in 1..d /\ j + 1 \in 0..d
        /\ (j + 1) - 1 = j /\ d - (k - 1) = j + 1
        /\ j + 1 \in 1..Len(msgs) /\ d \in (j + 1)..Len(msgs)
    BY <1>6, <2>1
  <2> DEFINE o == b[j]
             m == msgs[j + 1]
  <2>3. /\ o \in Nat /\ o + 1 \in 1..N /\ b[j + 1] + 1 \in 1..N
        /\ b[j + 1] = o + 2 + Len(m) /\ FrameAt(w, o, m)
    BY <1>6, <2>2 DEF Laid, HEADER
  <2>4. m \in Seq(Nat) /\ Len(m) \in Nat
    BY <2>2 DEF Body
  <2> HIDE DEF o, m
  <2>5. N - (o + 1) >= 2 + Len(m) /\ N - (o + 1) \in Nat
    BY <1>2, <2>3, <2>4
  <2>6. /\ R(o + 1) \in Seq(Nat) /\ Len(R(o + 1)) = N - (o + 1)
        /\ \A i \in 1..(N - (o + 1)) : R(o + 1)[i] = w[(o + 1) + i - 1]
    BY <1>3, <2>3
  <2>7. R(o + 1)[2] = Len(m)
    <3>1. 2 \in 1..(N - (o + 1)) /\ (o + 1) + 2 - 1 = o + 2
      BY <2>3, <2>4, <2>5
    <3> HIDE DEF N
    <3>2. R(o + 1)[2] = w[(o + 1) + 2 - 1]
      BY <2>6, <3>1
    <3>3. w[o + 2] = Len(m)
      BY <2>3 DEF FrameAt
    <3> QED
      BY <3>1, <3>2, <3>3
  <2> DEFINE r == R(o + 1)
  <2>8. HasFrame(R(o + 1))
    <3> HIDE DEF R, N
    <3> QED
      BY <2>4, <2>5, <2>6, <2>7 DEF HasFrame, HEADER
  <2>9. FrameBody(R(o + 1)) = m
    <3> DEFINE f == SubSeq(r, 3, 2 + Len(m))
    <3>1. \A i \in 3..(2 + Len(m)) : r[i] \in Nat
      <4>1. \A i \in 1..Len(r) : r[i] \in Nat
        BY <2>6, ElementOfSeq, Zenon
      <4>2. \A i \in 3..(2 + Len(m)) : i \in 1..Len(r)
        BY <2>4, <2>5, <2>6
      <4> QED
        BY <4>1, <4>2, Zenon
    <3> HIDE DEF r
    <3>2. f \in Seq(Nat) /\ Len(f) = Len(m)
          /\ \A i \in 1..Len(m) : f[i] = r[2 + i]
      BY <2>4, <3>1, SubSeqProperties
    <3>3. \A i \in 1..Len(m) : /\ 2 + i \in 1..(N - (o + 1))
                               /\ (o + 1) + (2 + i) - 1 = o + 2 + i
      BY <2>3, <2>4, <2>5
    <3>4. \A i \in 1..Len(m) : r[2 + i] = m[i]
      BY <2>3, <2>6, <3>3 DEF FrameAt, HEADER, r
    <3>5. FrameBody(r) = f
      BY <2>7 DEF FrameBody, HEADER, r
    <3> HIDE DEF f
    <3> QED
      BY <2>4, <3>2, <3>4, <3>5, SeqEqual DEF r
  <2>10. (o + 1) + HEADER + R(o + 1)[2] = b[j + 1] + 1
    <3>1. (o + 1) + 2 + Len(m) = b[j + 1] + 1
      BY <2>3, <2>4
    <3> QED
      BY <2>7, <3>1 DEF HEADER
  <2>11. from[o + 1] = [from[b[j + 1] + 1]
                          EXCEPT !.messages = <<m>> \o @]
    BY <1>5, <2>3, <2>8, <2>9, <2>10
  <2>12. from[b[j + 1] + 1] =
           [messages |-> SubSeq(msgs, (j + 1) + 1, d), rest |-> tail]
    BY <1>8, <2>2
  <2>13. SubSeq(msgs, j + 1, d) = <<m>> \o SubSeq(msgs, (j + 1) + 1, d)
    BY <2>2, SubSeqRecursiveFirst DEF m
  <2>14. from[o + 1] = [messages |-> SubSeq(msgs, j + 1, d), rest |-> tail]
    <3> DEFINE s == SubSeq(msgs, (j + 1) + 1, d)
    <3> HIDE DEF s, tail
    <3>1. from[o + 1] = [[messages |-> s, rest |-> tail]
                           EXCEPT !.messages = <<m>> \o @]
      BY <2>11, <2>12 DEF s
    <3>2. from[o + 1] = [messages |-> <<m>> \o s, rest |-> tail]
      BY <3>1
    <3> QED
      BY <2>13, <3>2 DEF s
  <2> QED
    BY <2>1, <2>14 DEF o
<1>9. T = {}
  <2> HIDE DEF At
  <2> SUFFICES ASSUME T # {} PROVE FALSE
    OBVIOUS
  <2>1. PICK k \in T : \A i \in T : k <= i
    <3>1. T \in SUBSET Nat
      BY <1>6
    <3> HIDE DEF T
    <3> QED
      BY <3>1, LeastElement
  <2>2. k \in 1..d /\ k - 1 \in 0..d /\ k - 1 \notin T
    <3>1. k \in 0..d /\ ~At(k)
      BY <2>1
    <3>2. k # 0
      BY <1>7, <3>1
    <3> HIDE DEF T
    <3> QED
      BY <1>6, <2>1, <3>1, <3>2
  <2> QED
    BY <1>8, <2>1, <2>2
<1>10. At(d)
  <2> HIDE DEF At
  <2>1. d \in 0..d
    BY <1>6
  <2>2. d \notin T
    BY <1>9
  <2> QED
    BY <2>1, <2>2
<1>11. b[d - d] + 1 = 1 /\ (d - d) + 1 = 1
  BY <1>6 DEF Laid
<1>12. Decode(w) = [messages |-> SubSeq(msgs, 1, d), rest |-> tail]
  BY <1>1, <1>10, <1>11
<1> HIDE DEF tail
<1>13. Decode(w).messages = SubSeq(msgs, 1, d) /\ Decode(w).rest = tail
  <2> DEFINE s == SubSeq(msgs, 1, d)
  <2> HIDE DEF s
  <2>1. Decode(w) = [messages |-> s, rest |-> tail]
    BY <1>12 DEF s
  <2>2. Decode(w).messages = s /\ Decode(w).rest = tail
    BY <2>1
  <2> QED
    BY <2>2 DEF s
<1> QED
  BY <1>13 DEF tail, R

(* The start of a frame is not a frame.                                    *)
LEMMA PrefixUnfinished ==
  ASSUME NEW w \in Seq(Nat), NEW o \in 0..Len(w), NEW m \in Body,
         PrefixAt(w, o, m), Len(w) - o < HEADER + Len(m)
  PROVE  Unfinished(w, o)
<1>1. Len(m) \in Nat /\ FrameAt(Encode(m), 0, m)
  BY EncodeLemma DEF Body
<1>2. ASSUME Len(w) - o >= 2 PROVE w[o + 2] = Len(m)
  <2>1. 2 \in 1..(Len(w) - o)
    BY <1>2
  <2> QED
    BY <1>1, <2>1 DEF PrefixAt, FrameAt
<1> QED
  BY <1>2 DEF Unfinished, HEADER

-----------------------------------------------------------------------------
(* Theorems                                                                *)

IInv == InInv /\ OutInv /\ ResultType /\ EndInv

(* Both directions and the results, together.                              *)
LEMMA InductiveInvariant == Spec => []IInv
<1>1. Init => IInv
  <2> SUFFICES ASSUME Init PROVE IInv
    OBVIOUS
  <2>1. ResultType /\ EndInv
    BY DEF Init, ResultType, EndInv, Call
  <2> QED
    BY <2>1, InInvInit, OutInvInit DEF IInv
<1>2. IInv /\ [Next]_vars => IInv'
  BY InInvStep, OutInvStep, ResultTypeStep, EndInvStep DEF IInv
<1> QED
  BY <1>1, <1>2, PTL DEF Spec

(* Every variable keeps its type, for any calls and messages.              *)
THEOREM TypeCorrect == Spec => []TypeOK
<1>1. IInv => TypeOK
  BY DEF IInv, InInv, OutInv, InType, OutType, ResultType, TypeOK
<1> QED
  BY <1>1, InductiveInvariant, PTL

(* ffi.rs, recv_message: None means the end.  Whoever is told of it has    *)
(* every message the gateway sent whole before him, however the stream was *)
(* cut in chunks.                                                          *)
THEOREM EndMeansAllTakenAlways == Spec => []EndMeansAllTaken
<1>1. IInv => EndMeansAllTaken
  BY DEF IInv, EndInv, EndMeansAllTaken
<1> QED
  BY <1>1, InductiveInvariant, PTL

(* client.rs, finish: the client ends its side on a message boundary,      *)
(* whatever calls queue for the mutex, are left by their callers or fail.  *)
THEOREM FinishSealsMessagesAlways == Spec => []FinishSealsMessages
<1>1. IInv => FinishSealsMessages
  <2> SUFFICES ASSUME IInv, finOut PROVE Decode(out).rest = <<>>
    BY DEF FinishSealsMessages
  <2>1. OutType
    BY DEF IInv, OutInv
  <2>2. PICK d, b : OutFrames(d, b)
    BY DEF IInv, OutInv
  <2>3. /\ out \in Seq(Nat) /\ order \in Seq(Body) /\ d \in 0..Len(order)
        /\ Laid(out, order, d, b) /\ Len(out) = b[d] /\ Len(out) \in Nat
    BY <2>1, <2>2, ResponsesAreBodies, SeqMonotonic DEF OutType, OutFrames
  <2>4. Unfinished(out, b[d])
    BY <2>3 DEF Unfinished, HEADER
  <2>5. Decode(out).rest = SubSeq(out, b[d] + 1, Len(out))
    BY <2>3, <2>4, DecodeFrames
  <2>6. SubSeq(out, b[d] + 1, Len(out)) = <<>>
    <3>1. b[d] + 1 \in Int /\ Len(out) \in Int /\ Len(out) < b[d] + 1
      BY <2>3
    <3> QED
      BY <3>1, SubSeqEmpty
  <2> QED
    BY <2>5, <2>6
<1> QED
  BY <1>1, InductiveInvariant, PTL

(* client.rs, recv_message: the receiving half is a FIFO of whole          *)
(* messages.                                                               *)
THEOREM ReceivingImplementsFifo == Spec => InboundFifo
<1> USE DEF Incoming!Init, Incoming!vars
<1>1. Init => Incoming!Init
  BY DEF Init
<1>2. ASSUME IInv, [Next]_vars PROVE [Incoming!Next]_(Incoming!vars)
  <2>1. CASE UNCHANGED <<sent, taken>>
    BY <2>1
  <2>2. ASSUME NEW m \in Response, GatewaySends(m) PROVE Incoming!Next
    BY <2>2 DEF GatewaySends, Incoming!Next, Incoming!Put
  <2>3. ASSUME NEW c \in Recv, RecvFrame(c) PROVE Incoming!Next
    <3>1. PICK b : InFrames(b)
      BY <1>2 DEF IInv, InInv
    <3>2. /\ Len(taken) + 1 \in 1..Len(sent)
          /\ FrameBody(buf) = sent[Len(taken) + 1]
      BY <1>2, <2>3, <3>1, NextFrame DEF IInv, InInv, RecvFrame
    <3>3. Len(taken) < Len(sent)
      BY <1>2, <3>2 DEF IInv, InInv, InType
    <3> QED
      BY <2>3, <3>2, <3>3 DEF RecvFrame, Incoming!Next, Incoming!Take
  <2>4. ASSUME NEW c \in Recv, StartRecv(c) \/ RecvTask(c)
        PROVE  UNCHANGED <<sent, taken>> \/ RecvFrame(c)
    BY <2>4 DEF StartRecv, RecvTask, RecvData, RecvEnd, RecvErr, RecvStops
  <2>5. ASSUME NEW c \in Send \cup Finish, StartSend(c) \/ SendTask(c)
        PROVE  UNCHANGED <<sent, taken>>
    BY <2>5 DEF StartSend, SendTask, Write, SendReturns, FinishReturns, SendErr,
                SendStops, inbound
  <2>6. ASSUME NEW c \in Call, Cancel(c) PROVE UNCHANGED <<sent, taken>>
    BY <2>6 DEF Cancel, inbound
  <2>7. ASSUME Gateway
        PROVE  UNCHANGED <<sent, taken>> \/ \E m \in Response : GatewaySends(m)
    BY <2>7 DEF Gateway, GatewayCuts, GatewayEnds, Break
  <2>8. CASE UNCHANGED vars
    BY <2>1, <2>8 DEF vars, inbound
  <2> QED
    BY <1>2, <2>1, <2>2, <2>3, <2>4, <2>5, <2>6, <2>7, <2>8 DEF Next
<1> QED
  BY <1>1, <1>2, InductiveInvariant, PTL DEF Spec, InboundFifo, Incoming!Spec

(* A unit of a frame, the last one or an earlier one, as the gateway sees  *)
(* it.                                                                     *)
LEMMA WriteDecoded ==
  ASSUME OutInv, NEW c \in Send, Write(c)
  PROVE  \/ Decode(out').messages = Decode(out).messages
         \/ /\ Len(Decode(out).messages) < Len(order)
            /\ Decode(out').messages =
                 Append(Decode(out).messages,
                        order[Len(Decode(out).messages) + 1])
<1>1. OutType /\ Working
  BY DEF OutInv, Write, Working
<1>2. PICK d, b : OutFrames(d, b) /\ HeadInv(d, b) /\ \E q : Queued(d, q)
  BY <1>1 DEF OutInv
<1>3. PICK q : Queued(d, q)
  BY <1>2
<1>4. OutFrames(d, b)' /\ HeadInv(d, b)' /\ OutType'
  BY <1>1, <1>2, <1>3, WriteStep DEF OutInv
<1> DEFINE m == body[c]
           o == b[d]
<1>5. /\ Holds(c, sendQ) /\ progress < Len(Encode(m)) /\ progress' = progress + 1
      /\ order' = order
  BY DEF Write
<1>6. d \in Nat /\ d + 1 \in 1..Len(order) /\ order[d + 1] = m /\ m \in Body
  BY <1>1, <1>2, <1>3, <1>5, NextMessage
<1>7. Len(Encode(m)) = HEADER + Len(m) /\ Len(m) \in Nat /\ progress \in Nat
  BY <1>1, <1>6, EncodeLemma DEF Body, OutType
<1>8. /\ out \in Seq(Nat) /\ order \in Seq(Body) /\ d \in 0..Len(order)
      /\ Laid(out, order, d, b) /\ Len(out) = o + progress
      /\ o \in 0..Len(out) /\ o \in Nat
  <2>1. out \in Seq(Nat) /\ order \in Seq(Body)
    BY <1>1, ResponsesAreBodies, SeqMonotonic DEF OutType
  <2>2. d \in 0..Len(order) /\ Laid(out, order, d, b)
    BY <1>2 DEF OutFrames
  <2> QED
    BY <1>2, <2>1, <2>2 DEF HeadInv, Laid
<1> HIDE DEF o, m
<1>9. Decode(out).messages = SubSeq(order, 1, d)
  <2>1. Unfinished(out, o)
    <3>1. CASE progress = 0
      BY <1>8, <3>1 DEF Unfinished, HEADER
    <3>2. CASE progress # 0
      <4>1. Len(out) # o /\ Len(out) - o < HEADER + Len(m)
        BY <1>5, <1>7, <1>8, <3>2
      <4>2. PrefixAt(out, o, m)
        BY <1>2, <1>6, <4>1 DEF OutFrames, o
      <4> QED
        BY <1>6, <1>8, <4>1, <4>2, PrefixUnfinished
    <3> QED
      BY <3>1, <3>2
  <2> QED
    BY <1>8, <2>1, DecodeFrames DEF o
<1>10. PICK w : w = out'
  OBVIOUS
<1>11. /\ w \in Seq(Nat) /\ Laid(w, order, d, b) /\ Len(w) = o + progress + 1
       /\ o \in 0..Len(w) /\ PrefixAt(w, o, m)
  <2>1. w \in Seq(Nat) /\ Laid(w, order, d, b)
    BY <1>4, <1>5, <1>10 DEF OutType, OutFrames
  <2>2. Len(w) = o + (progress + 1)
    BY <1>4, <1>5, <1>10 DEF HeadInv, o
  <2>3. Len(w) = o + progress + 1 /\ o \in 0..Len(w) /\ Len(w) # o
    BY <1>7, <1>8, <2>1, <2>2
  <2>4. PrefixAt(w, o, m)
    BY <1>4, <1>5, <1>6, <1>10, <2>3 DEF OutFrames, o
  <2> QED
    BY <2>1, <2>3, <2>4
<1>12. CASE progress + 1 < HEADER + Len(m)
  <2>1. Len(w) - o < HEADER + Len(m)
    BY <1>7, <1>8, <1>11, <1>12
  <2>2. Unfinished(w, o)
    BY <1>6, <1>11, <2>1, PrefixUnfinished
  <2>3. Decode(w).messages = SubSeq(order, 1, d)
    BY <1>8, <1>11, <2>2, DecodeFrames DEF o
  <2> QED
    BY <1>9, <1>10, <2>3
<1>13. CASE progress + 1 = HEADER + Len(m)
  <2>1. Len(w) = o + HEADER + Len(m)
    <3>1. o + progress + 1 = o + (progress + 1)
      BY <1>7, <1>8
    <3>2. o + (HEADER + Len(m)) = o + HEADER + Len(m)
      BY <1>7, <1>8 DEF HEADER
    <3> QED
      BY <1>11, <1>13, <3>1, <3>2
  <2>2. Len(w) = b[d] + HEADER + Len(order[d + 1])
        /\ PrefixAt(w, b[d], order[d + 1])
    BY <1>6, <1>11, <2>1 DEF o
  <2>3. PICK bb : Laid(w, order, d + 1, bb) /\ bb[d + 1] = Len(w)
    BY <1>6, <1>8, <1>11, <2>2, FrameDone
  <2>4. Unfinished(w, bb[d + 1])
    BY <1>11, <2>3 DEF Unfinished, HEADER
  <2>5. d + 1 \in 0..Len(order)
    BY <1>6
  <2>6. Decode(w).messages = SubSeq(order, 1, d + 1)
    BY <1>8, <1>11, <2>3, <2>4, <2>5, DecodeFrames
  <2>7. SubSeq(order, 1, d + 1) = Append(SubSeq(order, 1, d), order[d + 1])
        /\ Len(SubSeq(order, 1, d)) = d
    BY <1>6, <1>8
  <2>8. d < Len(order)
    BY <1>6
  <2> QED
    BY <1>9, <1>10, <2>6, <2>7, <2>8
<1> QED
  BY <1>5, <1>7, <1>12, <1>13 DEF HEADER

(* client.rs, send_message: the sending half is a FIFO of whole messages   *)
(* too, in the order in which its callers queue for the mutex.             *)
THEOREM SendingImplementsFifo == Spec => OutboundFifo
<1> USE DEF Outgoing!Init, Outgoing!vars
<1>1. Init => Outgoing!Init
  <2> SUFFICES ASSUME Init PROVE Decode(out).messages = <<>> /\ order = <<>>
    BY DEF Outgoing!Init
  <2>1. out = <<>> /\ order = <<>> /\ out \in Seq(Nat) /\ order \in Seq(Body)
    BY DEF Init
  <2>2. PICK b : Laid(out, order, 0, b)
    BY <2>1, LaidNone
  <2>3. b[0] = 0 /\ Len(out) = 0 /\ 0 \in 0..Len(order)
    BY <2>1, <2>2 DEF Laid
  <2>4. Unfinished(out, b[0])
    BY <2>3 DEF Unfinished, HEADER
  <2>5. Decode(out).messages = SubSeq(order, 1, 0)
    BY <2>1, <2>2, <2>3, <2>4, DecodeFrames
  <2>6. SubSeq(order, 1, 0) = <<>>
    BY SubSeqEmpty
  <2> QED
    BY <2>1, <2>5, <2>6
<1>2. ASSUME IInv, [Next]_vars PROVE [Outgoing!Next]_(Outgoing!vars)
  <2>1. ASSUME UNCHANGED <<order, out>> PROVE UNCHANGED Outgoing!vars
    BY <2>1
  <2>2. ASSUME NEW c \in Send \cup Finish, StartSend(c)
        PROVE  [Outgoing!Next]_(Outgoing!vars)
    <3>1. CASE c \in Send
      <4>1. body[c] \in Request
        BY <1>2, <3>1 DEF IInv, OutInv, OutType
      <4> QED
        BY <2>2, <3>1, <4>1 DEF StartSend, Outgoing!Next, Outgoing!Put
    <3>2. CASE c \notin Send
      BY <2>1, <2>2, <3>2 DEF StartSend
    <3> QED
      BY <3>1, <3>2
  <2>3. ASSUME NEW c \in Send \cup Finish, Write(c)
        PROVE  [Outgoing!Next]_(Outgoing!vars)
    <3>1. c \in Send /\ order' = order
      BY <2>3 DEF Write
    <3>2. \/ Decode(out').messages = Decode(out).messages
          \/ /\ Len(Decode(out).messages) < Len(order)
             /\ Decode(out').messages =
                  Append(Decode(out).messages,
                         order[Len(Decode(out).messages) + 1])
      BY <1>2, <2>3, <3>1, WriteDecoded DEF IInv
    <3> QED
      BY <3>1, <3>2 DEF Outgoing!Next, Outgoing!Take
  <2>4. ASSUME NEW c \in Send \cup Finish,
               SendReturns(c) \/ FinishReturns(c) \/ SendErr(c)
        PROVE  UNCHANGED <<order, out>>
    BY <2>4 DEF SendReturns, FinishReturns, SendErr, SendStops
  <2>5. ASSUME NEW c \in Recv, StartRecv(c) \/ RecvTask(c)
        PROVE  UNCHANGED <<order, out>>
    BY <2>5 DEF StartRecv, RecvTask, RecvFrame, RecvData, RecvEnd, RecvErr,
                RecvStops, outbound
  <2>6. ASSUME NEW c \in Call, Cancel(c) PROVE UNCHANGED <<order, out>>
    BY <2>6 DEF Cancel, outbound
  <2>7. ASSUME Gateway PROVE UNCHANGED <<order, out>>
    BY <2>7 DEF Gateway, GatewaySends, GatewayCuts, GatewayEnds, Break, outbound
  <2>8. ASSUME UNCHANGED vars PROVE UNCHANGED <<order, out>>
    BY <2>8 DEF vars, outbound
  <2> QED
    BY <1>2, <2>1, <2>2, <2>3, <2>4, <2>5, <2>6, <2>7, <2>8 DEF Next, SendTask
<1> QED
  BY <1>1, <1>2, InductiveInvariant, PTL DEF Spec, OutboundFifo, Outgoing!Spec
=============================================================================
