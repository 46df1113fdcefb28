-------------------------- MODULE UdpSocketProofs --------------------------
(***************************************************************************)
(* Proofs about the obfuscation (Salamander) and about the sockets that    *)
(* use it (UdpSocket): for any hash, any operation on bytes that undoes    *)
(* itself, any salt, key and datagram length, and any traffic.             *)
(***************************************************************************)
EXTENDS UdpSocket, SequenceTheorems, LeastNatural, TLAPS

-----------------------------------------------------------------------------
(* salamander.rs, deobfuscate_in_place: after i bytes the buffer holds i   *)
(* bytes of plain text, and the datagram unchanged behind them.  A byte is *)
(* read SALT_LEN behind the one that is written, so it is never one of     *)
(* those already overwritten.                                              *)
InPlace(k, d, i) ==
  [j \in 1..Len(d) |->
     IF j <= i THEN Xor(d[SALT_LEN + j], KeyAt(k, SubSeq(d, 1, SALT_LEN), j))
     ELSE d[j]]

LEMMA ForwardPass ==
  ASSUME NEW k, NEW d \in Seq(Byte), ~TooShort(d)
  PROVE  deobfuscate_in_place(k, d) =
           SubSeq(InPlace(k, d, Len(d) - SALT_LEN), 1, Len(d) - SALT_LEN)
<1> DEFINE salt == SubSeq(d, 1, SALT_LEN)
           n == Len(d) - SALT_LEN
           F(g) == [i \in 0..n |->
                      IF i = 0 THEN d
                      ELSE [g[i - 1] EXCEPT
                              ![i] = Xor(g[i - 1][SALT_LEN + i],
                                         KeyAt(k, salt, i))]]
           buf == CHOOSE g : g = F(g)
           closed == [i \in 0..n |-> InPlace(k, d, i)]
<1>1. deobfuscate_in_place(k, d) = SubSeq(buf[n], 1, n)
  BY DEF deobfuscate_in_place
<1> HIDE DEF buf, salt
<1>2. n \in Nat /\ Len(d) \in Nat /\ n < Len(d) /\ DOMAIN d = 1..Len(d)
  BY SalamanderAssumption DEF TooShort
<1>3. d = InPlace(k, d, 0)
  BY <1>2 DEF InPlace
<1>4. \A i \in 1..n :
        InPlace(k, d, i) =
          [InPlace(k, d, i - 1) EXCEPT
             ![i] = Xor(InPlace(k, d, i - 1)[SALT_LEN + i], KeyAt(k, salt, i))]
  <2> SUFFICES ASSUME NEW i \in 1..n
               PROVE  InPlace(k, d, i) =
                        [InPlace(k, d, i - 1) EXCEPT
                           ![i] = Xor(InPlace(k, d, i - 1)[SALT_LEN + i],
                                      KeyAt(k, salt, i))]
    OBVIOUS
  <2>1. SALT_LEN + i \in 1..Len(d) /\ ~(SALT_LEN + i <= i - 1)
    BY <1>2, SalamanderAssumption
  <2>2. InPlace(k, d, i - 1)[SALT_LEN + i] = d[SALT_LEN + i]
    BY <2>1 DEF InPlace
  <2> DEFINE x == Xor(d[SALT_LEN + i], KeyAt(k, salt, i))
  <2>3. InPlace(k, d, i) = [InPlace(k, d, i - 1) EXCEPT ![i] = x]
    <3>1. \A j \in 1..Len(d) : j # i =>
            InPlace(k, d, i)[j] = InPlace(k, d, i - 1)[j]
      BY <1>2 DEF InPlace
    <3>2. i \in 1..Len(d) /\ InPlace(k, d, i)[i] = x
      BY <1>2 DEF InPlace, salt
    <3>3. /\ InPlace(k, d, i) = [j \in 1..Len(d) |-> InPlace(k, d, i)[j]]
          /\ InPlace(k, d, i - 1) =
               [j \in 1..Len(d) |-> InPlace(k, d, i - 1)[j]]
      BY DEF InPlace
    <3> HIDE DEF x
    <3> QED
      BY <3>1, <3>2, <3>3
  <2> QED
    BY <2>2, <2>3
<1>5. closed = F(closed)
  <2> SUFFICES ASSUME NEW i \in 0..n PROVE closed[i] = F(closed)[i]
    OBVIOUS
  <2>1. CASE i = 0
    BY <2>1, <1>2, <1>3
  <2>2. CASE i # 0
    <3>1. i \in 1..n /\ i - 1 \in 0..n
      BY <2>2, <1>2
    <3>2. closed[i] = InPlace(k, d, i) /\ closed[i - 1] = InPlace(k, d, i - 1)
      BY <3>1
    <3> HIDE DEF closed
    <3> QED
      BY <1>4, <2>2, <3>1, <3>2
  <2> QED
    BY <2>1, <2>2
<1>6. buf = F(buf)
  <2> HIDE DEF F, closed
  <2>1. \E g : g = F(g)
    BY <1>5
  <2> QED
    BY <2>1 DEF buf
<1>7. \A i \in 0..n : buf[i] = InPlace(k, d, i)
  <2> DEFINE T == {i \in 0..n : buf[i] # InPlace(k, d, i)}
  <2> SUFFICES ASSUME T # {} PROVE FALSE
    OBVIOUS
  <2>1. PICK i \in T : \A j \in T : i <= j
    <3>1. T \in SUBSET Nat
      BY <1>2
    <3> HIDE DEF T
    <3> QED
      BY <3>1, LeastElement
  <2>2. i \in 0..n /\ buf[i] # InPlace(k, d, i)
    BY <2>1
  <2>3. i # 0
    BY <1>2, <1>3, <1>6, <2>2
  <2>4. i \in 1..n /\ i - 1 \in 0..n /\ buf[i - 1] = InPlace(k, d, i - 1)
    BY <1>2, <2>1, <2>2, <2>3
  <2>5. buf[i] = [buf[i - 1] EXCEPT
                    ![i] = Xor(buf[i - 1][SALT_LEN + i], KeyAt(k, salt, i))]
    BY <1>6, <2>3, <2>4
  <2> QED
    BY <1>4, <2>2, <2>4, <2>5
<1> QED
  BY <1>1, <1>2, <1>7

(* salamander.rs: the receiver that has the sender's key gets the plain    *)
(* text back, whatever its length and the salt.                            *)
THEOREM DeobfuscateUndoesObfuscate ==
  ASSUME NEW k \in Psk, NEW plain \in Seq(Byte), NEW salt \in Salt
  PROVE  /\ obfuscate(k, plain, salt) \in Seq(Byte)
         /\ Len(obfuscate(k, plain, salt)) = SALT_LEN + Len(plain)
         /\ deobfuscate_in_place(k, obfuscate(k, plain, salt)) = plain
<1> DEFINE d == obfuscate(k, plain, salt)
           n == Len(plain)
           cipher == [i \in 1..n |-> Xor(plain[i], KeyAt(k, salt, i))]
<1>1. \A i \in 1..n : KeyAt(k, salt, i) \in Byte
  BY SalamanderAssumption DEF KeyAt
<1>2. cipher \in Seq(Byte) /\ Len(cipher) = n
      /\ \A i \in 1..n : cipher[i] = Xor(plain[i], KeyAt(k, salt, i))
  BY <1>1, SalamanderAssumption
<1>3. salt \in Seq(Byte) /\ Len(salt) = SALT_LEN
  BY SalamanderAssumption DEF Salt
<1>4. d = salt \o cipher
  BY DEF obfuscate
<1> HIDE DEF cipher, d
<1>5. /\ d \in Seq(Byte) /\ Len(d) = SALT_LEN + n
      /\ \A i \in 1..SALT_LEN : d[i] = salt[i]
      /\ \A i \in 1..n : d[SALT_LEN + i] = cipher[i]
  <2>1. SALT_LEN \in Nat /\ n \in Nat
    BY SalamanderAssumption
  <2>2. d \in Seq(Byte) /\ Len(d) = Len(salt) + Len(cipher)
    BY <1>2, <1>3, <1>4, ConcatProperties
  <2>3. \A i \in 1..Len(salt) : d[i] = salt[i]
    BY <1>2, <1>3, <1>4
  <2>4. \A i \in 1..Len(cipher) : d[Len(salt) + i] = cipher[i]
    BY <1>2, <1>3, <1>4
  <2> QED
    BY <1>2, <1>3, <2>1, <2>2, <2>3, <2>4
<1>6. SubSeq(d, 1, SALT_LEN) = salt
  BY <1>3, <1>5, SalamanderAssumption
<1>7. deobfuscate_in_place(k, d) = SubSeq(InPlace(k, d, n), 1, n)
  <2>1. d \in Seq(Byte) /\ Len(d) = SALT_LEN + n
    BY <1>5
  <2>2. SALT_LEN \in Nat /\ n \in Nat
    BY SalamanderAssumption
  <2> HIDE DEF n
  <2>3. ~TooShort(d) /\ Len(d) - SALT_LEN = n
    BY <2>1, <2>2 DEF TooShort
  <2>4. deobfuscate_in_place(k, d) =
          SubSeq(InPlace(k, d, Len(d) - SALT_LEN), 1, Len(d) - SALT_LEN)
    BY <2>1, <2>3, ForwardPass
  <2> QED
    BY <2>3, <2>4
<1>8. \A i \in 1..n : InPlace(k, d, n)[i] = plain[i]
  <2> SUFFICES ASSUME NEW i \in 1..n PROVE InPlace(k, d, n)[i] = plain[i]
    OBVIOUS
  <2>1. i \in 1..Len(d) /\ i <= n
    BY <1>5, SalamanderAssumption
  <2>2. InPlace(k, d, n)[i] = Xor(d[SALT_LEN + i], KeyAt(k, salt, i))
    BY <1>6, <2>1 DEF InPlace
  <2>3. InPlace(k, d, n)[i] =
          Xor(Xor(plain[i], KeyAt(k, salt, i)), KeyAt(k, salt, i))
    BY <1>2, <1>5, <2>2
  <2> QED
    BY <1>1, <2>3, SalamanderAssumption
<1>9. SubSeq(InPlace(k, d, n), 1, n) = plain
  <2> DEFINE p == SubSeq(InPlace(k, d, n), 1, n)
  <2>1. \A i \in 1..n : InPlace(k, d, n)[i] \in Byte
    BY <1>8
  <2>2. p \in Seq(Byte) /\ Len(p) = n /\ \A i \in 1..n : p[i] = plain[i]
    BY <1>8, <2>1, SubSeqProperties
  <2> HIDE DEF p
  <2>3. p = plain
    BY <2>2, SeqEqual
  <2> QED
    BY <2>3 DEF p
<1> QED
  BY <1>5, <1>7, <1>9 DEF d

-----------------------------------------------------------------------------
(* The sockets                                                             *)

Datagram == [bytes : Seq(Byte), carries : Seq(Byte)]

(* A datagram of the peer is its packet, wrapped with the connection's key *)
(* if there is one.                                                        *)
Sealed(d) ==
  IF psk = NoPsk THEN d.bytes = d.carries
  ELSE \E salt \in Salt : d.bytes = obfuscate(psk, d.carries, salt)

Genuine(d) == d \in Datagram /\ (d.carries # <<>> => Sealed(d))

(* What quinn has handed over leaves room for the salt, and a replacement  *)
(* socket wraps like the first.                                            *)
SenderInv ==
  /\ psk \in Psk \cup {NoPsk} /\ wrap = psk
  /\ out \in Seq(Packet)
  /\ \A i \in 1..Len(out) : Len(out[i]) <= QuicMtu

NetInv == \A d \in net : Genuine(d) /\ Len(d.bytes) <= MTUD_UPPER_BOUND

QueueInv == rxq \in Seq(Datagram) /\ \A i \in 1..Len(rxq) : Genuine(rxq[i])

IInv == SenderInv /\ NetInv /\ QueueInv /\ DatagramsIntact

LEMMA InitIInv == Init => IInv
BY DEF Init, IInv, SenderInv, NetInv, QueueInv, DatagramsIntact

(* What try_send puts on the wire.                                         *)
LEMMA WireLemma ==
  ASSUME SenderInv, NEW p \in Packet, Len(p) <= QuicMtu, NEW bytes \in OnWire(p)
  PROVE  /\ Genuine([bytes |-> bytes, carries |-> p])
         /\ Len(bytes) <= MTUD_UPPER_BOUND
<1> USE SocketAssumption, SalamanderAssumption DEF SenderInv, QuicMtu
<1>1. p \in Seq(Byte)
  OBVIOUS
<1>2. CASE psk = NoPsk
  BY <1>1, <1>2 DEF OnWire, Genuine, Datagram, Sealed
<1>3. CASE psk # NoPsk
  <2>1. PICK salt \in Salt : bytes = obfuscate(psk, p, salt)
    BY <1>3 DEF OnWire
  <2>2. bytes \in Seq(Byte) /\ Len(bytes) = SALT_LEN + Len(p)
    BY <1>1, <1>3, <2>1, DeobfuscateUndoesObfuscate
  <2>3. Genuine([bytes |-> bytes, carries |-> p])
    BY <1>1, <1>3, <2>1, <2>2 DEF Genuine, Datagram, Sealed
  <2>4. Len(bytes) <= MTUD_UPPER_BOUND
    BY <1>1, <1>3, <2>2
  <2> QED
    BY <2>3, <2>4
<1> QED
  BY <1>2, <1>3

(* What poll_recv makes of it.                                             *)
LEMMA UnwrapLemma ==
  ASSUME SenderInv, NEW d, Genuine(d), Unwrap(d).carries # <<>>
  PROVE  Unwrap(d).bytes = Unwrap(d).carries
<1> USE SalamanderAssumption DEF SenderInv
<1>1. d \in Datagram /\ Unwrap(d).carries = d.carries
  BY DEF Genuine, Unwrap, Datagram
<1>2. Sealed(d)
  BY <1>1 DEF Genuine
<1>3. CASE psk = NoPsk
  BY <1>1, <1>2, <1>3 DEF Sealed, Unwrap, Datagram
<1>4. CASE psk # NoPsk
  <2>1. PICK salt \in Salt : d.bytes = obfuscate(psk, d.carries, salt)
    BY <1>2, <1>4 DEF Sealed
  <2>2. d.carries \in Seq(Byte) /\ psk \in Psk
    BY <1>1, <1>4 DEF Datagram
  <2>3. /\ Len(d.bytes) = SALT_LEN + Len(d.carries)
        /\ deobfuscate_in_place(psk, d.bytes) = d.carries
    BY <2>1, <2>2, DeobfuscateUndoesObfuscate
  <2>4. ~TooShort(d.bytes)
    BY <2>2, <2>3 DEF TooShort
  <2>5. Unwrap(d).bytes = deobfuscate_in_place(psk, d.bytes)
    BY <1>1, <1>4, <2>4 DEF Unwrap, Datagram
  <2> QED
    BY <1>1, <2>3, <2>5
<1> QED
  BY <1>3, <1>4

(* Genuineness depends on the connection's key alone, which never changes. *)
LEMMA GenuineStays ==
  ASSUME psk' = psk
  PROVE  \A d : Genuine(d) <=> Genuine(d)'
BY DEF Genuine, Sealed

LEMMA EnqueueStep ==
  ASSUME IInv, NEW d, Genuine(d), Enqueue(d)
  PROVE  IInv'
<1> USE DEF IInv, Enqueue, sender
<1>1. SenderInv' /\ DatagramsIntact'
  BY DEF SenderInv, QuicMtu, DatagramsIntact
<1>2. NetInv'
  BY GenuineStays DEF NetInv
<1>3. QueueInv'
  BY GenuineStays DEF QueueInv, Genuine
<1> QED
  BY <1>1, <1>2, <1>3

LEMMA IInvStep == IInv /\ [Next]_vars => IInv'
<1> SUFFICES ASSUME IInv, [Next]_vars PROVE IInv'
  OBVIOUS
<1> USE SocketAssumption DEF IInv
<1>1. psk' = psk
  BY DEF Next, vars, Transmit, try_send, Sent, SendWouldBlock, ProbeTooLarge,
         SendFailed, Writable, Rebind, Arrive, StrayArrives, Enqueue,
         SocketError, poll_recv, Deliver, Park, Pending, FailEndpoint, Wake
<1>2. ASSUME NEW p \in Packet, Transmit(p) PROVE IInv'
  <2> USE <1>2 DEF Transmit, kernel, receiver
  <2>1. SenderInv'
    BY DEF SenderInv, QuicMtu
  <2>2. NetInv' /\ QueueInv'
    BY <1>1, GenuineStays DEF NetInv, QueueInv
  <2> QED
    BY <2>1, <2>2 DEF DatagramsIntact
<1>3. CASE Sent
  <2> USE <1>3 DEF Sent, kernel, receiver
  <2>1. /\ Head(out) \in Packet /\ Len(Head(out)) <= QuicMtu
        /\ SenderInv'
    BY DEF SenderInv, QuicMtu
  <2>2. PICK bytes \in OnWire(Head(out)) :
          net' = net \cup {[bytes |-> bytes, carries |-> Head(out)]}
    OBVIOUS
  <2>3. /\ Genuine([bytes |-> bytes, carries |-> Head(out)])
        /\ Len(bytes) <= MTUD_UPPER_BOUND
    BY <2>1, <2>2, WireLemma
  <2>4. NetInv'
    BY <1>1, <2>2, <2>3, GenuineStays DEF NetInv
  <2>5. QueueInv'
    BY <1>1, GenuineStays DEF QueueInv
  <2>6. DatagramsIntact'
    BY <2>4 DEF DatagramsIntact, NetInv
  <2> QED
    BY <2>1, <2>4, <2>5, <2>6
<1>4. CASE SendWouldBlock \/ ProbeTooLarge \/ SendFailed \/ Writable \/ Rebind
  <2>1. /\ wrap' = psk /\ (out' = out \/ (out # <<>> /\ out' = Tail(out)))
        /\ UNCHANGED <<net, rxq, delivered>>
    BY <1>4 DEF SendWouldBlock, ProbeTooLarge, SendFailed, Writable, Rebind,
                kernel, receiver, SenderInv
  <2>2. CASE out' = out
    BY <1>1, <2>1, <2>2, GenuineStays
       DEF SenderInv, QuicMtu, NetInv, QueueInv, DatagramsIntact
  <2>3. CASE out # <<>> /\ out' = Tail(out)
    <3>1. /\ out' \in Seq(Packet) /\ Len(out') = Len(out) - 1
          /\ \A i \in 1..Len(out') : out'[i] = out[i + 1]
      BY <2>3, HeadTailProperties DEF SenderInv
    <3>2. \A i \in 1..Len(out') : Len(out'[i]) <= QuicMtu
      BY <2>3, <3>1 DEF SenderInv
    <3>3. SenderInv'
      BY <1>1, <2>1, <3>1, <3>2 DEF SenderInv, QuicMtu
    <3>4. NetInv' /\ QueueInv' /\ DatagramsIntact'
      BY <1>1, <2>1, GenuineStays DEF NetInv, QueueInv, DatagramsIntact
    <3> QED
      BY <3>3, <3>4
  <2> QED
    BY <2>1, <2>2, <2>3
<1>5. CASE Arrive
  <2>1. PICK d \in net : Enqueue(d)
    BY <1>5 DEF Arrive
  <2> QED
    BY <2>1, EnqueueStep DEF NetInv
<1>6. CASE StrayArrives
  <2>1. PICK b \in Stray : Enqueue([bytes |-> b, carries |-> <<>>])
    BY <1>6 DEF StrayArrives
  <2>2. Genuine([bytes |-> b, carries |-> <<>>])
    BY <2>1 DEF Genuine, Datagram
  <2> QED
    BY <2>1, <2>2, EnqueueStep
<1>7. ASSUME NEW n \in 1..Batch, Deliver(n) PROVE IInv'
  <2> USE <1>7 DEF Deliver, sender
  <2>1. SenderInv'
    BY DEF SenderInv, QuicMtu
  <2>2. NetInv'
    BY <1>1, GenuineStays DEF NetInv
  <2>3. QueueInv'
    BY <1>1, GenuineStays DEF QueueInv
  <2>4. \A i \in 1..n : Unwrap(rxq[i]).carries # <<>> =>
          Unwrap(rxq[i]).bytes = Unwrap(rxq[i]).carries
    BY UnwrapLemma DEF QueueInv
  <2>5. DatagramsIntact'
    BY <2>2, <2>4 DEF DatagramsIntact, NetInv
  <2> QED
    BY <2>1, <2>2, <2>3, <2>5
<1>8. CASE SocketError \/ Park \/ Pending \/ FailEndpoint \/ Wake
            \/ UNCHANGED vars
  <2> USE <1>8 DEF SocketError, Park, Pending, FailEndpoint, Wake, vars, sender,
                   kernel, receiver
  <2>1. SenderInv'
    BY DEF SenderInv, QuicMtu
  <2>2. NetInv' /\ QueueInv'
    BY <1>1, GenuineStays DEF NetInv, QueueInv
  <2> QED
    BY <2>1, <2>2 DEF DatagramsIntact
<1> QED
  BY <1>2, <1>3, <1>4, <1>5, <1>6, <1>7, <1>8 DEF Next, try_send, poll_recv

(* obf_socket.rs and spin_free_socket.rs: quinn gets a packet of the peer  *)
(* as it was sent, and no datagram exceeds what MTU discovery may try.     *)
THEOREM DatagramsIntactAlways == Spec => []DatagramsIntact
<1>1. IInv => DatagramsIntact
  BY DEF IInv
<1> QED
  BY <1>1, InitIInv, IInvStep, PTL DEF Spec

(* spin_free_socket.rs: back-pressure and MTU probes count nothing, and    *)
(* a receive error is counted once and ends the endpoint, since            *)
(* endpoint_receive_error leaves no ConnectionReset for quinn to go on     *)
(* after.                                                                  *)
THEOREM CountersMeanFailureAlways == Spec => []CountersMeanFailure
<1>1. Init => CountersMeanFailure
  BY DEF Init, CountersMeanFailure
<1>2. CountersMeanFailure /\ [Next]_vars => CountersMeanFailure'
  <2> SUFFICES ASSUME CountersMeanFailure, [Next]_vars
               PROVE  CountersMeanFailure'
    OBVIOUS
  <2> USE DEF CountersMeanFailure, sender, kernel, receiver
  <2>1. ASSUME NEW p \in Packet, Transmit(p) PROVE CountersMeanFailure'
    BY <2>1 DEF Transmit
  <2>2. CASE try_send \/ Writable \/ Rebind
    BY <2>2 DEF try_send, Sent, SendWouldBlock, ProbeTooLarge, SendFailed,
                Writable, Rebind
  <2>3. CASE Arrive \/ StrayArrives \/ SocketError
    <3>1. UNCHANGED <<routed, sendErrors, driver, recvErrors>>
      BY <2>3 DEF Arrive, StrayArrives, Enqueue, SocketError
    <3> QED
      BY <3>1
  <2>4. CASE poll_recv
    <3>1. endpoint_receive_error(error) # "ConnectionReset"
      BY DEF endpoint_receive_error
    <3>2. CASE FailEndpoint
      BY <3>1, <3>2 DEF FailEndpoint
    <3> QED
      BY <2>4, <3>2 DEF poll_recv, Deliver, Park, Pending
  <2>5. CASE Wake \/ UNCHANGED vars
    BY <2>5 DEF Wake, vars
  <2> QED
    BY <2>1, <2>2, <2>3, <2>4, <2>5 DEF Next
<1> QED
  BY <1>1, <1>2, PTL DEF Spec
=============================================================================
