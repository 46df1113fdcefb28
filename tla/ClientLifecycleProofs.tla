----------------------- MODULE ClientLifecycleProofs -----------------------
(***************************************************************************)
(* Proofs about ClientLifecycle, for any finite sets of clients and        *)
(* processes.  The inductive invariant says who owns a client: either one  *)
(* process alone (it is connecting it, carries it undelivered, or runs its *)
(* Drop), or the holders of its Arc, and never both.                       *)
(***************************************************************************)
EXTENDS ClientLifecycle, FiniteSetTheorems, TLAPS

(* What holding an Arc means: a part of the invariant, not a claim.        *)
HeldClientIsAlive == \A c \in Client :
  (swift[c] = "held" \/ \E p \in Proc : HoldsClient(p, c)) =>
    client[c] = "alive"

(* p has c for itself: nobody else can reach the client.                   *)
Owns(p, c) ==
  on[p] = c /\ (pc[p] \in {"handshake", "h3", "built"} \/ dropping[p])

OwnerInv ==
  /\ \A p \in Proc : dropping[p] => pc[p] \in RetireStep
  /\ \A p \in Proc :
       pc[p] \in {"handshake", "h3"} => client[on[p]] = "dialing"
  /\ \A p \in Proc : pc[p] = "built" \/ dropping[p] => client[on[p]] = "alive"
  /\ \A p, q \in Proc, c \in Client : Owns(p, c) /\ Owns(q, c) => p = q
  /\ \A p, q \in Proc, c \in Client : Owns(p, c) => ~HoldsClient(q, c)
  /\ \A p \in Proc, c \in Client : Owns(p, c) => swift[c] # "held"

(* How far retire() has got by each of its steps.                          *)
RetireInv == \A p \in Proc :
  /\ pc[p] \in RetireStep \ {"closeConn"} => conn[on[p]] = "closed"
  /\ pc[p] \in {"closeEndpoint", "swap", "sub", "retireDone"} =>
       h3Driver[on[p]] # "running"
  /\ pc[p] \in {"swap", "sub", "retireDone"} => endpoint[on[p]] = "closed"
  /\ pc[p] \in {"sub", "retireDone"} => retired[on[p]]

RetiredIsBuilt == \A c \in Client :
  retired[c] => client[c] \in {"alive", "dropped"}

(* swap lets one process through to the subtraction.                       *)
OneSub == \A p, q \in Proc :
  pc[p] = "sub" /\ pc[q] = "sub" /\ on[p] = on[q] => p = q

Teardown ==
  /\ RetireInv
  /\ RetiredIsBuilt
  /\ RetiredIsTornDown
  /\ NoEndpointLeftBehind
  /\ OneSub

GaugeExact == gauge = Cardinality(Counted)

IInv ==
  /\ TypeOK
  /\ HeldClientIsAlive
  /\ OwnerInv
  /\ Teardown
  /\ GaugeExact

PcValue == {"idle", "handshake", "h3", "built", "openStream", "recv",
            "rebind"} \cup RetireStep

(* Letting go ends the call, or starts the drop if nobody else has c.      *)
LEMMA LetGoCases ==
  ASSUME NEW p \in Proc, NEW c \in Client, NEW foreign, LetGo(p, c, foreign)
  PROVE  \/ /\ pc' = [pc EXCEPT ![p] = "idle"]
            /\ dropping' = dropping
         \/ /\ foreign # "held"
            /\ \A q \in Proc \ {p} : ~HoldsClient(q, c)
            /\ pc' = [pc EXCEPT ![p] = "closeConn"]
            /\ dropping' = [dropping EXCEPT ![p] = TRUE]
<1>1. CASE foreign = "held" \/ \E q \in Proc \ {p} : HoldsClient(q, c)
  BY <1>1, Zenon DEF LetGo, Goto
<1>2. CASE ~(foreign = "held" \/ \E q \in Proc \ {p} : HoldsClient(q, c))
  BY <1>2, Zenon DEF LetGo, Goto
<1> QED
  BY <1>1, <1>2

LEMMA LetGoTypes ==
  ASSUME TypeOK, NEW p \in Proc, NEW c \in Client, NEW foreign,
         LetGo(p, c, foreign)
  PROVE  /\ pc' \in [Proc -> PcValue]
         /\ dropping' \in [Proc -> BOOLEAN]
<1>1. pc \in [Proc -> PcValue] /\ dropping \in [Proc -> BOOLEAN]
  BY DEF TypeOK, PcValue
<1>2. \/ pc' = [pc EXCEPT ![p] = "idle"] /\ dropping' = dropping
      \/ /\ pc' = [pc EXCEPT ![p] = "closeConn"]
         /\ dropping' = [dropping EXCEPT ![p] = TRUE]
  BY LetGoCases, Zenon
<1>3. "idle" \in PcValue /\ "closeConn" \in PcValue
  BY DEF PcValue, RetireStep
<1> QED
  BY <1>1, <1>2, <1>3

LEMMA CountedIsFinite == IsFiniteSet(Counted)
BY FiniteInstances, FS_Subset DEF Counted

(* Types.  The gauge stays a natural number because it is exact: whoever   *)
(* subtracts is itself counted until it has.                               *)
LEMMA TypeStep == TypeOK /\ GaugeExact /\ [Next]_vars => TypeOK'
<1> SUFFICES ASSUME TypeOK, GaugeExact, [Next]_vars PROVE TypeOK'
  OBVIOUS
<1> USE DEF Goto, Enter, FailAttempt, CloseEndpoint, OnlyProcs, OnlyConn,
            TypeOK, RetireStep
<1>1. ASSUME NEW p \in Proc, NEW c \in Client, StartConnect(p, c)
      PROVE  TypeOK'
  BY <1>1 DEF StartConnect
<1>2. ASSUME NEW p \in Proc, NEW c \in Client, StartOpenStream(p, c)
      PROVE  TypeOK'
  BY <1>2 DEF StartOpenStream
<1>3. ASSUME NEW p \in Proc, NEW c \in Client, StartRebind(p, c)
      PROVE  TypeOK'
  BY <1>3 DEF StartRebind
<1>4. ASSUME NEW p \in Proc, NEW c \in Client, StartRecv(p, c)
      PROVE  TypeOK'
  BY <1>4 DEF StartRecv
<1>5. ASSUME NEW p \in Proc, NEW c \in Client, ReleaseChannel(p, c)
      PROVE  TypeOK'
  <2>1. pc' \in [Proc -> PcValue] /\ dropping' \in [Proc -> BOOLEAN]
    BY <1>5, LetGoTypes DEF ReleaseChannel
  <2>2. swift' = [swift EXCEPT ![c] = "released"]
        /\ on' = [on EXCEPT ![p] = c]
    BY <1>5 DEF ReleaseChannel
  <2>3. UNCHANGED <<client, conn, endpoint, handle, epDriver, h3Driver, retired,
                    gauge, stream>>
    BY <1>5 DEF ReleaseChannel
  <2> QED
    BY <2>1, <2>2, <2>3 DEF PcValue
<1>6. ASSUME NEW p \in Proc, NEW c \in Client, Close(p, c)
      PROVE  TypeOK'
  BY <1>6 DEF Close
<1>7. ASSUME NEW c \in Client, CancelConnect(c)
      PROVE  TypeOK'
  BY <1>7 DEF CancelConnect
<1>8. ASSUME NEW c \in Client, ReleaseStream(c)
      PROVE  TypeOK'
  BY <1>8 DEF ReleaseStream
<1>9. ASSUME NEW p \in Proc, HandshakeSucceeds(p)
      PROVE  TypeOK'
  BY <1>9 DEF HandshakeSucceeds
<1>10. ASSUME NEW p \in Proc, HandshakeFails(p)
       PROVE  TypeOK'
  BY <1>10 DEF HandshakeFails
<1>11. ASSUME NEW p \in Proc, H3Succeeds(p)
       PROVE  TypeOK'
  BY <1>11 DEF H3Succeeds
<1>12. ASSUME NEW p \in Proc, H3Fails(p)
       PROVE  TypeOK'
  BY <1>12 DEF H3Fails
<1>13. ASSUME NEW p \in Proc, Deliver(p)
       PROVE  TypeOK'
  <2>1. on[p] \in Client
    BY DEF TypeOK
  <2>2. LetGo(p, on[p], swift'[on[p]])
    BY <1>13 DEF Deliver
  <2>3. pc' \in [Proc -> PcValue] /\ dropping' \in [Proc -> BOOLEAN]
    BY <2>1, <2>2, LetGoTypes
  <2> QED
    BY <1>13, <2>1, <2>3 DEF Deliver, PcValue
<1>14. ASSUME NEW p \in Proc, OpenStreamReturns(p)
       PROVE  TypeOK'
  <2>1. on[p] \in Client
    BY DEF TypeOK
  <2>2. LetGo(p, on[p], swift[on[p]])
    BY <1>14 DEF OpenStreamReturns
  <2>3. pc' \in [Proc -> PcValue] /\ dropping' \in [Proc -> BOOLEAN]
    BY <2>1, <2>2, LetGoTypes
  <2>4. \/ stream' = [stream EXCEPT ![on[p]] = TRUE]
        \/ stream' = stream
    BY <1>14, Zenon DEF OpenStreamReturns
  <2>5. stream' \in [Client -> BOOLEAN]
    <3>1. stream \in [Client -> BOOLEAN]
      BY DEF TypeOK
    <3> QED
      BY <2>4, <3>1, Zenon
  <2>6. UNCHANGED <<client, conn, endpoint, handle, epDriver, h3Driver, retired,
                    gauge, swift, on>>
    BY <1>14 DEF OpenStreamReturns
  <2> QED
    BY <2>1, <2>3, <2>5, <2>6 DEF PcValue
<1>15. ASSUME NEW p \in Proc, RebindReturns(p)
       PROVE  TypeOK'
  <2>1. on[p] \in Client
    BY DEF TypeOK
  <2>2. LetGo(p, on[p], swift[on[p]])
    BY <1>15 DEF RebindReturns
  <2>3. pc' \in [Proc -> PcValue] /\ dropping' \in [Proc -> BOOLEAN]
    BY <2>1, <2>2, LetGoTypes
  <2>4. UNCHANGED <<client, conn, endpoint, handle, epDriver, h3Driver, retired,
                    gauge, swift, stream, on>>
    BY <1>15 DEF RebindReturns
  <2> QED
    BY <2>1, <2>3, <2>4 DEF PcValue
<1>16. ASSUME NEW p \in Proc, RecvReturns(p)
       PROVE  TypeOK'
  BY <1>16 DEF RecvReturns
<1>17. ASSUME NEW p \in Proc, CloseConn(p)
       PROVE  TypeOK'
  BY <1>17 DEF CloseConn
<1>18. ASSUME NEW p \in Proc, AbortDriver(p)
       PROVE  TypeOK'
  BY <1>18 DEF AbortDriver
<1>19. ASSUME NEW p \in Proc, RetireEndpoint(p)
       PROVE  TypeOK'
  BY <1>19 DEF RetireEndpoint
<1>20. ASSUME NEW p \in Proc, SwapRetired(p)
       PROVE  TypeOK'
  BY <1>20 DEF SwapRetired
<1>21. ASSUME NEW p \in Proc, SubGauge(p)
       PROVE  TypeOK'
  <2>1. on[p] \in Counted
    BY <1>21 DEF SubGauge, Counted
  <2>2. Cardinality(Counted) \in Nat /\ Cardinality(Counted) # 0
    BY <2>1, CountedIsFinite, FS_CardinalityType, FS_EmptySet
  <2>3. gauge - 1 \in Nat
    BY <2>2 DEF GaugeExact
  <2> QED
    BY <1>21, <2>3 DEF SubGauge
<1>22. ASSUME NEW p \in Proc, CloseReturns(p)
       PROVE  TypeOK'
  <2>1. on[p] \in Client
    BY DEF TypeOK
  <2>2. LetGo(p, on[p], swift[on[p]])
    BY <1>22 DEF CloseReturns
  <2>3. pc' \in [Proc -> PcValue] /\ dropping' \in [Proc -> BOOLEAN]
    BY <2>1, <2>2, LetGoTypes
  <2>4. UNCHANGED <<client, conn, endpoint, handle, epDriver, h3Driver, retired,
                    gauge, swift, stream, on>>
    BY <1>22 DEF CloseReturns
  <2> QED
    BY <2>1, <2>3, <2>4 DEF PcValue
<1>23. ASSUME NEW p \in Proc, DropFields(p)
       PROVE  TypeOK'
  BY <1>23 DEF DropFields
<1>24. ASSUME NEW c \in Client, ConnDies(c)
       PROVE  TypeOK'
  BY <1>24 DEF ConnDies
<1>25. ASSUME NEW c \in Client, EndpointFails(c)
       PROVE  TypeOK'
  BY <1>25 DEF EndpointFails
<1>26. ASSUME NEW c \in Client, EndpointDriverStops(c)
       PROVE  TypeOK'
  BY <1>26 DEF EndpointDriverStops
<1>27. ASSUME NEW c \in Client, H3DriverEnds(c)
       PROVE  TypeOK'
  BY <1>27 DEF H3DriverEnds
<1>28. CASE UNCHANGED vars
  BY <1>28 DEF vars
<1> QED
  BY <1>1, <1>2, <1>3, <1>4, <1>5, <1>6, <1>7, <1>8, <1>9, <1>10,
     <1>11, <1>12, <1>13, <1>14, <1>15, <1>16, <1>17, <1>18, <1>19,
     <1>20, <1>21, <1>22, <1>23, <1>24, <1>25, <1>26, <1>27, <1>28
     DEF Next, ForeignCall, Task, Network, Handshake, Retire

(* Holders and owners exclude each other.  The heart of it is LetGo: the   *)
(* process that starts the drop has just seen that nobody else holds the   *)
(* client, and nobody can take a new reference without one.                *)
LEMMA OwnerStep ==
  TypeOK /\ HeldClientIsAlive /\ OwnerInv /\ [Next]_vars =>
    HeldClientIsAlive' /\ OwnerInv'
<1> SUFFICES ASSUME TypeOK, HeldClientIsAlive, OwnerInv, [Next]_vars
             PROVE  HeldClientIsAlive' /\ OwnerInv'
  OBVIOUS
<1> USE DEF Goto, Enter, LetGo, FailAttempt, CloseEndpoint, OnlyProcs,
            OnlyConn, TypeOK, RetireStep, HeldClientIsAlive, OwnerInv, Owns,
            HoldsClient
<1>1. ASSUME NEW p \in Proc, NEW c \in Client, StartConnect(p, c)
      PROVE  HeldClientIsAlive' /\ OwnerInv'
  BY <1>1 DEF StartConnect
<1>2. ASSUME NEW p \in Proc, NEW c \in Client, StartOpenStream(p, c)
      PROVE  HeldClientIsAlive' /\ OwnerInv'
  BY <1>2 DEF StartOpenStream
<1>3. ASSUME NEW p \in Proc, NEW c \in Client, StartRebind(p, c)
      PROVE  HeldClientIsAlive' /\ OwnerInv'
  BY <1>3 DEF StartRebind
<1>4. ASSUME NEW p \in Proc, NEW c \in Client, StartRecv(p, c)
      PROVE  HeldClientIsAlive' /\ OwnerInv'
  BY <1>4 DEF StartRecv
<1>5. ASSUME NEW p \in Proc, NEW c \in Client, ReleaseChannel(p, c)
      PROVE  HeldClientIsAlive' /\ OwnerInv'
  BY <1>5 DEF ReleaseChannel
<1>6. ASSUME NEW p \in Proc, NEW c \in Client, Close(p, c)
      PROVE  HeldClientIsAlive' /\ OwnerInv'
  BY <1>6 DEF Close
<1>7. ASSUME NEW c \in Client, CancelConnect(c)
      PROVE  HeldClientIsAlive' /\ OwnerInv'
  BY <1>7 DEF CancelConnect
<1>8. ASSUME NEW c \in Client, ReleaseStream(c)
      PROVE  HeldClientIsAlive' /\ OwnerInv'
  BY <1>8 DEF ReleaseStream
<1>9. ASSUME NEW p \in Proc, HandshakeSucceeds(p)
      PROVE  HeldClientIsAlive' /\ OwnerInv'
  BY <1>9 DEF HandshakeSucceeds
<1>10. ASSUME NEW p \in Proc, HandshakeFails(p)
       PROVE  HeldClientIsAlive' /\ OwnerInv'
  BY <1>10 DEF HandshakeFails
<1>11. ASSUME NEW p \in Proc, H3Succeeds(p)
       PROVE  HeldClientIsAlive' /\ OwnerInv'
  BY <1>11 DEF H3Succeeds
<1>12. ASSUME NEW p \in Proc, H3Fails(p)
       PROVE  HeldClientIsAlive' /\ OwnerInv'
  BY <1>12 DEF H3Fails
<1>13. ASSUME NEW p \in Proc, Deliver(p)
       PROVE  HeldClientIsAlive' /\ OwnerInv'
  <2>1. /\ on[p] \in Client /\ client[on[p]] = "alive" /\ swift[on[p]] # "held"
        /\ \A q \in Proc : ~HoldsClient(q, on[p])
    BY <1>13 DEF Deliver
  <2>2. CASE swift[on[p]] = "waiting"
    <3>1. /\ pc' = [pc EXCEPT ![p] = "idle"] /\ dropping' = dropping
          /\ swift' = [swift EXCEPT ![on[p]] = "held"]
      BY <1>13, <2>1, <2>2 DEF Deliver
    <3> QED
      BY <1>13, <2>1, <3>1 DEF Deliver
  <2>3. CASE swift[on[p]] # "waiting"
    <3>1. /\ pc' = [pc EXCEPT ![p] = "closeConn"]
          /\ dropping' = [dropping EXCEPT ![p] = TRUE]
          /\ swift' = swift
      BY <1>13, <2>1, <2>3 DEF Deliver
    <3> QED
      BY <1>13, <2>1, <3>1 DEF Deliver
  <2> QED
    BY <2>2, <2>3
<1>14. ASSUME NEW p \in Proc, OpenStreamReturns(p)
       PROVE  HeldClientIsAlive' /\ OwnerInv'
  BY <1>14 DEF OpenStreamReturns
<1>15. ASSUME NEW p \in Proc, RebindReturns(p)
       PROVE  HeldClientIsAlive' /\ OwnerInv'
  BY <1>15 DEF RebindReturns
<1>16. ASSUME NEW p \in Proc, RecvReturns(p)
       PROVE  HeldClientIsAlive' /\ OwnerInv'
  BY <1>16 DEF RecvReturns
<1>17. ASSUME NEW p \in Proc, CloseConn(p)
       PROVE  HeldClientIsAlive' /\ OwnerInv'
  BY <1>17 DEF CloseConn
<1>18. ASSUME NEW p \in Proc, AbortDriver(p)
       PROVE  HeldClientIsAlive' /\ OwnerInv'
  BY <1>18 DEF AbortDriver
<1>19. ASSUME NEW p \in Proc, RetireEndpoint(p)
       PROVE  HeldClientIsAlive' /\ OwnerInv'
  BY <1>19 DEF RetireEndpoint
<1>20. ASSUME NEW p \in Proc, SwapRetired(p)
       PROVE  HeldClientIsAlive' /\ OwnerInv'
  BY <1>20 DEF SwapRetired
<1>21. ASSUME NEW p \in Proc, SubGauge(p)
       PROVE  HeldClientIsAlive' /\ OwnerInv'
  BY <1>21 DEF SubGauge
<1>22. ASSUME NEW p \in Proc, CloseReturns(p)
       PROVE  HeldClientIsAlive' /\ OwnerInv'
  BY <1>22 DEF CloseReturns
<1>23. ASSUME NEW p \in Proc, DropFields(p)
       PROVE  HeldClientIsAlive' /\ OwnerInv'
  BY <1>23 DEF DropFields
<1>24. ASSUME NEW c \in Client, ConnDies(c)
       PROVE  HeldClientIsAlive' /\ OwnerInv'
  BY <1>24 DEF ConnDies
<1>25. ASSUME NEW c \in Client, EndpointFails(c)
       PROVE  HeldClientIsAlive' /\ OwnerInv'
  BY <1>25 DEF EndpointFails
<1>26. ASSUME NEW c \in Client, EndpointDriverStops(c)
       PROVE  HeldClientIsAlive' /\ OwnerInv'
  BY <1>26 DEF EndpointDriverStops
<1>27. ASSUME NEW c \in Client, H3DriverEnds(c)
       PROVE  HeldClientIsAlive' /\ OwnerInv'
  BY <1>27 DEF H3DriverEnds
<1>28. CASE UNCHANGED vars
  BY <1>28 DEF vars
<1> QED
  BY <1>1, <1>2, <1>3, <1>4, <1>5, <1>6, <1>7, <1>8, <1>9, <1>10,
     <1>11, <1>12, <1>13, <1>14, <1>15, <1>16, <1>17, <1>18, <1>19,
     <1>20, <1>21, <1>22, <1>23, <1>24, <1>25, <1>26, <1>27, <1>28
     DEF Next, ForeignCall, Task, Network, Handshake, Retire

(* Letting go of a client disturbs no teardown: the process that starts    *)
(* the drop stands before its first step.                                  *)
LEMMA LetGoTeardown ==
  ASSUME TypeOK, Teardown, NEW p \in Proc, NEW foreign,
         LetGo(p, on[p], foreign),
         UNCHANGED <<client, conn, endpoint, handle, h3Driver, retired, on>>
  PROVE  Teardown'
<1>1. on[p] \in Client /\ pc \in [Proc -> PcValue]
  BY DEF TypeOK, PcValue
<1>2. PICK at \in {"idle", "closeConn"} : pc' = [pc EXCEPT ![p] = at]
  BY <1>1, LetGoCases, Zenon
<1>3. /\ pc'[p] \in {"idle", "closeConn"}
      /\ \A q \in Proc : q # p => pc'[q] = pc[q]
  BY <1>1, <1>2
<1>4. RetireInv' /\ OneSub'
  BY <1>3 DEF Teardown, RetireInv, OneSub, RetireStep
<1>5. RetiredIsBuilt' /\ RetiredIsTornDown' /\ NoEndpointLeftBehind'
  BY DEF Teardown, RetiredIsBuilt, RetiredIsTornDown, NoEndpointLeftBehind
<1> QED
  BY <1>4, <1>5 DEF Teardown

(* The teardown a retired client has had is never undone: what would undo  *)
(* it happens to a client that is not yet alive, and a process in retire() *)
(* works on one that is.                                                   *)
LEMMA RetireInvStep ==
  TypeOK /\ HeldClientIsAlive /\ OwnerInv /\ Teardown /\ [Next]_vars =>
    Teardown'
<1> SUFFICES ASSUME TypeOK, HeldClientIsAlive, OwnerInv, Teardown, [Next]_vars
             PROVE  Teardown'
  OBVIOUS
<1>0. \A p \in Proc : pc[p] \in RetireStep => client[on[p]] = "alive"
  BY DEF TypeOK, HeldClientIsAlive, OwnerInv, HoldsClient
<1> USE DEF Goto, Enter, LetGo, FailAttempt, CloseEndpoint, OnlyProcs,
            OnlyConn, TypeOK, RetireStep, Teardown, RetireInv, RetiredIsBuilt,
            RetiredIsTornDown,
            NoEndpointLeftBehind, OneSub, OwnerInv
<1>1. ASSUME NEW p \in Proc, NEW c \in Client, StartConnect(p, c)
      PROVE  Teardown'
  BY <1>1, <1>0 DEF StartConnect
<1>2. ASSUME NEW p \in Proc, NEW c \in Client, StartOpenStream(p, c)
      PROVE  Teardown'
  BY <1>2, <1>0 DEF StartOpenStream
<1>3. ASSUME NEW p \in Proc, NEW c \in Client, StartRebind(p, c)
      PROVE  Teardown'
  BY <1>3, <1>0 DEF StartRebind
<1>4. ASSUME NEW p \in Proc, NEW c \in Client, StartRecv(p, c)
      PROVE  Teardown'
  BY <1>4, <1>0 DEF StartRecv
<1>5. ASSUME NEW p \in Proc, NEW c \in Client, ReleaseChannel(p, c)
      PROVE  Teardown'
  BY <1>5, <1>0 DEF ReleaseChannel
<1>6. ASSUME NEW p \in Proc, NEW c \in Client, Close(p, c)
      PROVE  Teardown'
  BY <1>6, <1>0 DEF Close
<1>7. ASSUME NEW c \in Client, CancelConnect(c)
      PROVE  Teardown'
  BY <1>7, <1>0 DEF CancelConnect
<1>8. ASSUME NEW c \in Client, ReleaseStream(c)
      PROVE  Teardown'
  BY <1>8, <1>0 DEF ReleaseStream
<1>9. ASSUME NEW p \in Proc, HandshakeSucceeds(p)
      PROVE  Teardown'
  BY <1>9, <1>0 DEF HandshakeSucceeds
<1>10. ASSUME NEW p \in Proc, HandshakeFails(p)
       PROVE  Teardown'
  BY <1>10, <1>0 DEF HandshakeFails
<1>11. ASSUME NEW p \in Proc, H3Succeeds(p)
       PROVE  Teardown'
  BY <1>11, <1>0 DEF H3Succeeds
<1>12. ASSUME NEW p \in Proc, H3Fails(p)
       PROVE  Teardown'
  BY <1>12, <1>0 DEF H3Fails
<1>13. ASSUME NEW p \in Proc, Deliver(p)
       PROVE  Teardown'
  <2>1. /\ LetGo(p, on[p], swift'[on[p]])
        /\ UNCHANGED <<client, conn, endpoint, handle, h3Driver, retired, on>>
    BY <1>13 DEF Deliver
  <2> QED
    BY <2>1, LetGoTeardown
<1>14. ASSUME NEW p \in Proc, OpenStreamReturns(p)
       PROVE  Teardown'
  <2>1. /\ LetGo(p, on[p], swift[on[p]])
        /\ UNCHANGED <<client, conn, endpoint, handle, h3Driver, retired, on>>
    BY <1>14 DEF OpenStreamReturns
  <2> QED
    BY <2>1, LetGoTeardown
<1>15. ASSUME NEW p \in Proc, RebindReturns(p)
       PROVE  Teardown'
  <2>1. /\ LetGo(p, on[p], swift[on[p]])
        /\ UNCHANGED <<client, conn, endpoint, handle, h3Driver, retired, on>>
    BY <1>15 DEF RebindReturns
  <2> QED
    BY <2>1, LetGoTeardown
<1>16. ASSUME NEW p \in Proc, RecvReturns(p)
       PROVE  Teardown'
  BY <1>16, <1>0 DEF RecvReturns
<1>17. ASSUME NEW p \in Proc, CloseConn(p)
       PROVE  Teardown'
  BY <1>17, <1>0 DEF CloseConn
<1>18. ASSUME NEW p \in Proc, AbortDriver(p)
       PROVE  Teardown'
  BY <1>18, <1>0 DEF AbortDriver
<1>19. ASSUME NEW p \in Proc, RetireEndpoint(p)
       PROVE  Teardown'
  BY <1>19, <1>0 DEF RetireEndpoint
<1>20. ASSUME NEW p \in Proc, SwapRetired(p)
       PROVE  Teardown'
  BY <1>20, <1>0 DEF SwapRetired
<1>21. ASSUME NEW p \in Proc, SubGauge(p)
       PROVE  Teardown'
  BY <1>21, <1>0 DEF SubGauge
<1>22. ASSUME NEW p \in Proc, CloseReturns(p)
       PROVE  Teardown'
  <2>1. /\ LetGo(p, on[p], swift[on[p]])
        /\ UNCHANGED <<client, conn, endpoint, handle, h3Driver, retired, on>>
    BY <1>22 DEF CloseReturns
  <2> QED
    BY <2>1, LetGoTeardown
<1>23. ASSUME NEW p \in Proc, DropFields(p)
       PROVE  Teardown'
  BY <1>23, <1>0 DEF DropFields
<1>24. ASSUME NEW c \in Client, ConnDies(c)
       PROVE  Teardown'
  BY <1>24, <1>0 DEF ConnDies
<1>25. ASSUME NEW c \in Client, EndpointFails(c)
       PROVE  Teardown'
  BY <1>25, <1>0 DEF EndpointFails
<1>26. ASSUME NEW c \in Client, EndpointDriverStops(c)
       PROVE  Teardown'
  BY <1>26, <1>0 DEF EndpointDriverStops
<1>27. ASSUME NEW c \in Client, H3DriverEnds(c)
       PROVE  Teardown'
  BY <1>27, <1>0 DEF H3DriverEnds
<1>28. CASE UNCHANGED vars
  BY <1>28, <1>0 DEF vars
<1> QED
  BY <1>1, <1>2, <1>3, <1>4, <1>5, <1>6, <1>7, <1>8, <1>9, <1>10,
     <1>11, <1>12, <1>13, <1>14, <1>15, <1>16, <1>17, <1>18, <1>19,
     <1>20, <1>21, <1>22, <1>23, <1>24, <1>25, <1>26, <1>27, <1>28
     DEF Next, ForeignCall, Task, Network, Handshake, Retire

(* Only the construction of a client and the subtraction change the set of *)
(* counted clients, and each changes the gauge with it.                    *)
LEMMA GaugeStep ==
  TypeOK /\ HeldClientIsAlive /\ OwnerInv /\ Teardown /\ GaugeExact
    /\ [Next]_vars => GaugeExact'
<1> SUFFICES ASSUME TypeOK, HeldClientIsAlive, OwnerInv, Teardown, GaugeExact,
                    [Next]_vars
             PROVE  GaugeExact'
  OBVIOUS
<1>a. \A p \in Proc : pc[p] \in RetireStep => client[on[p]] = "alive"
  BY DEF TypeOK, HeldClientIsAlive, OwnerInv, HoldsClient
<1>b. \A p \in Proc : pc[p] \in {"handshake", "h3"} => client[on[p]] = "dialing"
  BY DEF OwnerInv
<1>c. gauge = Cardinality(Counted) /\ IsFiniteSet(Counted)
  BY CountedIsFinite DEF GaugeExact
<1>d. gauge' = gauge /\ Counted' = Counted => GaugeExact'
  BY <1>c DEF GaugeExact
<1> USE DEF Goto, Enter, LetGo, FailAttempt, CloseEndpoint, OnlyProcs,
            OnlyConn, TypeOK, RetireStep, Teardown, RetireInv, OneSub, RetiredIsBuilt
<1>1. ASSUME NEW p \in Proc, NEW c \in Client, StartConnect(p, c)
      PROVE  GaugeExact'
  <2>1. gauge' = gauge /\ Counted' = Counted
    BY <1>1, <1>a, <1>b DEF StartConnect, Counted
  <2> QED
    BY <2>1, <1>d
<1>2. ASSUME NEW p \in Proc, NEW c \in Client, StartOpenStream(p, c)
      PROVE  GaugeExact'
  <2>1. gauge' = gauge /\ Counted' = Counted
    BY <1>2, <1>a, <1>b DEF StartOpenStream, Counted
  <2> QED
    BY <2>1, <1>d
<1>3. ASSUME NEW p \in Proc, NEW c \in Client, StartRebind(p, c)
      PROVE  GaugeExact'
  <2>1. gauge' = gauge /\ Counted' = Counted
    BY <1>3, <1>a, <1>b DEF StartRebind, Counted
  <2> QED
    BY <2>1, <1>d
<1>4. ASSUME NEW p \in Proc, NEW c \in Client, StartRecv(p, c)
      PROVE  GaugeExact'
  <2>1. gauge' = gauge /\ Counted' = Counted
    BY <1>4, <1>a, <1>b DEF StartRecv, Counted
  <2> QED
    BY <2>1, <1>d
<1>5. ASSUME NEW p \in Proc, NEW c \in Client, ReleaseChannel(p, c)
      PROVE  GaugeExact'
  <2>1. gauge' = gauge /\ Counted' = Counted
    BY <1>5, <1>a, <1>b DEF ReleaseChannel, Counted
  <2> QED
    BY <2>1, <1>d
<1>6. ASSUME NEW p \in Proc, NEW c \in Client, Close(p, c)
      PROVE  GaugeExact'
  <2>1. gauge' = gauge /\ Counted' = Counted
    BY <1>6, <1>a, <1>b DEF Close, Counted
  <2> QED
    BY <2>1, <1>d
<1>7. ASSUME NEW c \in Client, CancelConnect(c)
      PROVE  GaugeExact'
  <2>1. gauge' = gauge /\ Counted' = Counted
    BY <1>7, <1>a, <1>b DEF CancelConnect, Counted
  <2> QED
    BY <2>1, <1>d
<1>8. ASSUME NEW c \in Client, ReleaseStream(c)
      PROVE  GaugeExact'
  <2>1. gauge' = gauge /\ Counted' = Counted
    BY <1>8, <1>a, <1>b DEF ReleaseStream, Counted
  <2> QED
    BY <2>1, <1>d
<1>9. ASSUME NEW p \in Proc, HandshakeSucceeds(p)
      PROVE  GaugeExact'
  <2>1. gauge' = gauge /\ Counted' = Counted
    BY <1>9, <1>a, <1>b DEF HandshakeSucceeds, Counted
  <2> QED
    BY <2>1, <1>d
<1>10. ASSUME NEW p \in Proc, HandshakeFails(p)
       PROVE  GaugeExact'
  <2>1. gauge' = gauge /\ Counted' = Counted
    BY <1>10, <1>a, <1>b DEF HandshakeFails, Counted
  <2> QED
    BY <2>1, <1>d
<1>11. ASSUME NEW p \in Proc, H3Succeeds(p)
       PROVE  GaugeExact'
  <2>1. on[p] \in Client /\ on[p] \notin Counted
    BY <1>11, <1>a, <1>b DEF H3Succeeds, Counted
  <2>2. Counted' = Counted \cup {on[p]}
    BY <1>11, <2>1, <1>a, <1>b DEF H3Succeeds, Counted
  <2>3. Cardinality(Counted') = Cardinality(Counted) + 1
    BY <2>1, <2>2, <1>c, FS_AddElement
  <2> QED
    BY <1>11, <2>3, <1>c DEF H3Succeeds, GaugeExact
<1>12. ASSUME NEW p \in Proc, H3Fails(p)
       PROVE  GaugeExact'
  <2>1. gauge' = gauge /\ Counted' = Counted
    BY <1>12, <1>a, <1>b DEF H3Fails, Counted
  <2> QED
    BY <2>1, <1>d
<1>13. ASSUME NEW p \in Proc, Deliver(p)
       PROVE  GaugeExact'
  <2>1. gauge' = gauge /\ Counted' = Counted
    BY <1>13, <1>a, <1>b DEF Deliver, Counted
  <2> QED
    BY <2>1, <1>d
<1>14. ASSUME NEW p \in Proc, OpenStreamReturns(p)
       PROVE  GaugeExact'
  <2>1. gauge' = gauge /\ Counted' = Counted
    BY <1>14, <1>a, <1>b DEF OpenStreamReturns, Counted
  <2> QED
    BY <2>1, <1>d
<1>15. ASSUME NEW p \in Proc, RebindReturns(p)
       PROVE  GaugeExact'
  <2>1. gauge' = gauge /\ Counted' = Counted
    BY <1>15, <1>a, <1>b DEF RebindReturns, Counted
  <2> QED
    BY <2>1, <1>d
<1>16. ASSUME NEW p \in Proc, RecvReturns(p)
       PROVE  GaugeExact'
  <2>1. gauge' = gauge /\ Counted' = Counted
    BY <1>16, <1>a, <1>b DEF RecvReturns, Counted
  <2> QED
    BY <2>1, <1>d
<1>17. ASSUME NEW p \in Proc, CloseConn(p)
       PROVE  GaugeExact'
  <2>1. gauge' = gauge /\ Counted' = Counted
    BY <1>17, <1>a, <1>b DEF CloseConn, Counted
  <2> QED
    BY <2>1, <1>d
<1>18. ASSUME NEW p \in Proc, AbortDriver(p)
       PROVE  GaugeExact'
  <2>1. gauge' = gauge /\ Counted' = Counted
    BY <1>18, <1>a, <1>b DEF AbortDriver, Counted
  <2> QED
    BY <2>1, <1>d
<1>19. ASSUME NEW p \in Proc, RetireEndpoint(p)
       PROVE  GaugeExact'
  <2>1. gauge' = gauge /\ Counted' = Counted
    BY <1>19, <1>a, <1>b DEF RetireEndpoint, Counted
  <2> QED
    BY <2>1, <1>d
<1>20. ASSUME NEW p \in Proc, SwapRetired(p)
       PROVE  GaugeExact'
  <2>1. gauge' = gauge /\ Counted' = Counted
    BY <1>20, <1>a, <1>b DEF SwapRetired, Counted
  <2> QED
    BY <2>1, <1>d
<1>21. ASSUME NEW p \in Proc, SubGauge(p)
       PROVE  GaugeExact'
  <2>1. on[p] \in Counted
    BY <1>21 DEF SubGauge, Counted
  <2>2. Counted' = Counted \ {on[p]}
    BY <1>21, <1>a DEF SubGauge, Counted
  <2>3. Cardinality(Counted') = Cardinality(Counted) - 1
    BY <2>1, <2>2, <1>c, FS_RemoveElement
  <2> QED
    BY <1>21, <2>3, <1>c DEF SubGauge, GaugeExact
<1>22. ASSUME NEW p \in Proc, CloseReturns(p)
       PROVE  GaugeExact'
  <2>1. gauge' = gauge /\ Counted' = Counted
    BY <1>22, <1>a, <1>b DEF CloseReturns, Counted
  <2> QED
    BY <2>1, <1>d
<1>23. ASSUME NEW p \in Proc, DropFields(p)
       PROVE  GaugeExact'
  <2>1. gauge' = gauge /\ Counted' = Counted
    BY <1>23, <1>a, <1>b DEF DropFields, Counted
  <2> QED
    BY <2>1, <1>d
<1>24. ASSUME NEW c \in Client, ConnDies(c)
       PROVE  GaugeExact'
  <2>1. gauge' = gauge /\ Counted' = Counted
    BY <1>24, <1>a, <1>b DEF ConnDies, Counted
  <2> QED
    BY <2>1, <1>d
<1>25. ASSUME NEW c \in Client, EndpointFails(c)
       PROVE  GaugeExact'
  <2>1. gauge' = gauge /\ Counted' = Counted
    BY <1>25, <1>a, <1>b DEF EndpointFails, Counted
  <2> QED
    BY <2>1, <1>d
<1>26. ASSUME NEW c \in Client, EndpointDriverStops(c)
       PROVE  GaugeExact'
  <2>1. gauge' = gauge /\ Counted' = Counted
    BY <1>26, <1>a, <1>b DEF EndpointDriverStops, Counted
  <2> QED
    BY <2>1, <1>d
<1>27. ASSUME NEW c \in Client, H3DriverEnds(c)
       PROVE  GaugeExact'
  <2>1. gauge' = gauge /\ Counted' = Counted
    BY <1>27, <1>a, <1>b DEF H3DriverEnds, Counted
  <2> QED
    BY <2>1, <1>d
<1>28. CASE UNCHANGED vars
  <2>1. gauge' = gauge /\ Counted' = Counted
    BY <1>28 DEF vars, Counted
  <2> QED
    BY <2>1, <1>d
<1> QED
  BY <1>1, <1>2, <1>3, <1>4, <1>5, <1>6, <1>7, <1>8, <1>9, <1>10,
     <1>11, <1>12, <1>13, <1>14, <1>15, <1>16, <1>17, <1>18, <1>19,
     <1>20, <1>21, <1>22, <1>23, <1>24, <1>25, <1>26, <1>27, <1>28
     DEF Next, ForeignCall, Task, Network, Handshake, Retire

-----------------------------------------------------------------------------
(* IInv is an inductive invariant: who owns a client, how far its teardown *)
(* has got, and that the gauge is the number of counted clients.           *)
THEOREM InductiveInvariant == Spec => []IInv
<1>1. Init => IInv
  <2> SUFFICES ASSUME Init PROVE IInv
    OBVIOUS
  <2>1. TypeOK /\ HeldClientIsAlive /\ OwnerInv
    BY DEF Init, TypeOK, HeldClientIsAlive, OwnerInv, Owns, HoldsClient, RetireStep
  <2>2. Teardown
    BY DEF Init, Teardown, RetireInv, RetiredIsBuilt, RetiredIsTornDown,
           NoEndpointLeftBehind, OneSub, RetireStep
  <2>3. Counted = {}
    BY DEF Init, Counted
  <2> QED
    BY <2>1, <2>2, <2>3, FS_EmptySet DEF Init, IInv, GaugeExact
<1>2. IInv /\ [Next]_vars => IInv'
  BY TypeStep, OwnerStep, RetireInvStep, GaugeStep DEF IInv
<1> QED
  BY <1>1, <1>2, PTL DEF Spec

(* Every variable keeps its type: the states of connect, calls and retire. *)
THEOREM TypeCorrect == Spec => []TypeOK
BY InductiveInvariant, PTL DEF IInv

(* A client marked retired has been torn down, whoever marked it (retire). *)
THEOREM RetiredIsTornDownAlways == Spec => []RetiredIsTornDown
BY InductiveInvariant, PTL DEF IInv, Teardown

(* Early returns of handshake and the drop of a client leave no endpoint   *)
(* and no connection open behind them.                                     *)
THEOREM NoEndpointLeftBehindAlways == Spec => []NoEndpointLeftBehind
BY InductiveInvariant, PTL DEF IInv, Teardown

(* live_connections() never under-reports the open connections.            *)
THEOREM GaugeCoversOpenAlways == Spec => []GaugeCoversOpen
<1>1. IInv => GaugeCoversOpen
  <2> SUFFICES ASSUME IInv PROVE GaugeCoversOpen
    OBVIOUS
  <2> DEFINE Open == {c \in Client : client[c] = "alive" /\ conn[c] = "open"}
  <2>1. Open \subseteq Counted
    BY DEF IInv, TypeOK, Teardown, RetiredIsTornDown, Counted
  <2>2. Cardinality(Open) <= Cardinality(Counted)
    BY <2>1, CountedIsFinite, FS_Subset
  <2> QED
    BY <2>2 DEF IInv, GaugeExact, GaugeCoversOpen
<1> QED
  BY <1>1, InductiveInvariant, PTL

-----------------------------------------------------------------------------
(* A step of the clients is a step of the gauge they promise, or none.     *)
LEMMA GaugeRefinementStep ==
  IInv /\ [Next]_vars => [GaugeIsLive!Next]_(GaugeIsLive!vars)
<1> SUFFICES ASSUME IInv, [Next]_vars
             PROVE  [GaugeIsLive!Next]_(GaugeIsLive!vars)
  OBVIOUS
<1>a. \A p \in Proc : pc[p] \in RetireStep => client[on[p]] = "alive"
  BY DEF IInv, TypeOK, HeldClientIsAlive, OwnerInv, HoldsClient
<1>b. \A p \in Proc :
        /\ pc[p] \in {"handshake", "h3"} => client[on[p]] = "dialing"
        /\ pc[p] = "built" \/ dropping[p] => client[on[p]] = "alive"
  BY DEF IInv, OwnerInv
<1>c. TypeOK /\ Teardown
  BY DEF IInv
<1>d. gauge' = gauge /\ GaugeStatus' = GaugeStatus =>
        [GaugeIsLive!Next]_(GaugeIsLive!vars)
  BY DEF GaugeIsLive!vars
<1> USE DEF Goto, Enter, LetGo, FailAttempt, CloseEndpoint, OnlyProcs,
            OnlyConn, TypeOK, RetireStep, Teardown, RetireInv, OneSub, RetiredIsBuilt
<1>1. ASSUME NEW p \in Proc, NEW c \in Client, StartConnect(p, c)
      PROVE  [GaugeIsLive!Next]_(GaugeIsLive!vars)
  <2>1. gauge' = gauge /\ GaugeStatus' = GaugeStatus
    BY <1>1, <1>a, <1>b, <1>c DEF StartConnect, GaugeStatus, Counted
  <2> QED
    BY <2>1, <1>d
<1>2. ASSUME NEW p \in Proc, NEW c \in Client, StartOpenStream(p, c)
      PROVE  [GaugeIsLive!Next]_(GaugeIsLive!vars)
  <2>1. gauge' = gauge /\ GaugeStatus' = GaugeStatus
    BY <1>2, <1>a, <1>b, <1>c DEF StartOpenStream, GaugeStatus, Counted
  <2> QED
    BY <2>1, <1>d
<1>3. ASSUME NEW p \in Proc, NEW c \in Client, StartRebind(p, c)
      PROVE  [GaugeIsLive!Next]_(GaugeIsLive!vars)
  <2>1. gauge' = gauge /\ GaugeStatus' = GaugeStatus
    BY <1>3, <1>a, <1>b, <1>c DEF StartRebind, GaugeStatus, Counted
  <2> QED
    BY <2>1, <1>d
<1>4. ASSUME NEW p \in Proc, NEW c \in Client, StartRecv(p, c)
      PROVE  [GaugeIsLive!Next]_(GaugeIsLive!vars)
  <2>1. gauge' = gauge /\ GaugeStatus' = GaugeStatus
    BY <1>4, <1>a, <1>b, <1>c DEF StartRecv, GaugeStatus, Counted
  <2> QED
    BY <2>1, <1>d
<1>5. ASSUME NEW p \in Proc, NEW c \in Client, ReleaseChannel(p, c)
      PROVE  [GaugeIsLive!Next]_(GaugeIsLive!vars)
  <2>1. gauge' = gauge /\ GaugeStatus' = GaugeStatus
    BY <1>5, <1>a, <1>b, <1>c DEF ReleaseChannel, GaugeStatus, Counted
  <2> QED
    BY <2>1, <1>d
<1>6. ASSUME NEW p \in Proc, NEW c \in Client, Close(p, c)
      PROVE  [GaugeIsLive!Next]_(GaugeIsLive!vars)
  <2>1. gauge' = gauge /\ GaugeStatus' = GaugeStatus
    BY <1>6, <1>a, <1>b, <1>c DEF Close, GaugeStatus, Counted
  <2> QED
    BY <2>1, <1>d
<1>7. ASSUME NEW c \in Client, CancelConnect(c)
      PROVE  [GaugeIsLive!Next]_(GaugeIsLive!vars)
  <2>1. gauge' = gauge /\ GaugeStatus' = GaugeStatus
    BY <1>7, <1>a, <1>b, <1>c DEF CancelConnect, GaugeStatus, Counted
  <2> QED
    BY <2>1, <1>d
<1>8. ASSUME NEW c \in Client, ReleaseStream(c)
      PROVE  [GaugeIsLive!Next]_(GaugeIsLive!vars)
  <2>1. gauge' = gauge /\ GaugeStatus' = GaugeStatus
    BY <1>8, <1>a, <1>b, <1>c DEF ReleaseStream, GaugeStatus, Counted
  <2> QED
    BY <2>1, <1>d
<1>9. ASSUME NEW p \in Proc, HandshakeSucceeds(p)
      PROVE  [GaugeIsLive!Next]_(GaugeIsLive!vars)
  <2>1. gauge' = gauge /\ GaugeStatus' = GaugeStatus
    BY <1>9, <1>a, <1>b, <1>c DEF HandshakeSucceeds, GaugeStatus, Counted
  <2> QED
    BY <2>1, <1>d
<1>10. ASSUME NEW p \in Proc, HandshakeFails(p)
       PROVE  [GaugeIsLive!Next]_(GaugeIsLive!vars)
  <2>1. gauge' = gauge /\ GaugeStatus' = GaugeStatus
    BY <1>10, <1>a, <1>b, <1>c DEF HandshakeFails, GaugeStatus, Counted
  <2> QED
    BY <2>1, <1>d
<1>11. ASSUME NEW p \in Proc, H3Succeeds(p)
       PROVE  [GaugeIsLive!Next]_(GaugeIsLive!vars)
  <2>1. on[p] \in Client /\ GaugeStatus[on[p]] = "fresh"
    BY <1>11, <1>b, <1>c DEF H3Succeeds, GaugeStatus
  <2>2. GaugeStatus' = [GaugeStatus EXCEPT ![on[p]] = "counted"]
    <3>1. Counted' = Counted \cup {on[p]}
      BY <1>11, <1>a, <1>b, <1>c DEF H3Succeeds, Counted
    <3>2. client' = [client EXCEPT ![on[p]] = "alive"]
      BY <1>11 DEF H3Succeeds
    <3> QED
      BY <1>c, <2>1, <3>1, <3>2 DEF GaugeStatus
  <2>3. GaugeIsLive!Construct(on[p])
    BY <1>11, <2>1, <2>2 DEF H3Succeeds, GaugeIsLive!Construct
  <2> QED
    BY <2>1, <2>3 DEF GaugeIsLive!Next
<1>12. ASSUME NEW p \in Proc, H3Fails(p)
       PROVE  [GaugeIsLive!Next]_(GaugeIsLive!vars)
  <2>1. gauge' = gauge /\ GaugeStatus' = GaugeStatus
    BY <1>12, <1>a, <1>b, <1>c DEF H3Fails, GaugeStatus, Counted
  <2> QED
    BY <2>1, <1>d
<1>13. ASSUME NEW p \in Proc, Deliver(p)
       PROVE  [GaugeIsLive!Next]_(GaugeIsLive!vars)
  <2>1. gauge' = gauge /\ GaugeStatus' = GaugeStatus
    BY <1>13, <1>a, <1>b, <1>c DEF Deliver, GaugeStatus, Counted
  <2> QED
    BY <2>1, <1>d
<1>14. ASSUME NEW p \in Proc, OpenStreamReturns(p)
       PROVE  [GaugeIsLive!Next]_(GaugeIsLive!vars)
  <2>1. gauge' = gauge /\ GaugeStatus' = GaugeStatus
    BY <1>14, <1>a, <1>b, <1>c DEF OpenStreamReturns, GaugeStatus, Counted
  <2> QED
    BY <2>1, <1>d
<1>15. ASSUME NEW p \in Proc, RebindReturns(p)
       PROVE  [GaugeIsLive!Next]_(GaugeIsLive!vars)
  <2>1. gauge' = gauge /\ GaugeStatus' = GaugeStatus
    BY <1>15, <1>a, <1>b, <1>c DEF RebindReturns, GaugeStatus, Counted
  <2> QED
    BY <2>1, <1>d
<1>16. ASSUME NEW p \in Proc, RecvReturns(p)
       PROVE  [GaugeIsLive!Next]_(GaugeIsLive!vars)
  <2>1. gauge' = gauge /\ GaugeStatus' = GaugeStatus
    BY <1>16, <1>a, <1>b, <1>c DEF RecvReturns, GaugeStatus, Counted
  <2> QED
    BY <2>1, <1>d
<1>17. ASSUME NEW p \in Proc, CloseConn(p)
       PROVE  [GaugeIsLive!Next]_(GaugeIsLive!vars)
  <2>1. gauge' = gauge /\ GaugeStatus' = GaugeStatus
    BY <1>17, <1>a, <1>b, <1>c DEF CloseConn, GaugeStatus, Counted
  <2> QED
    BY <2>1, <1>d
<1>18. ASSUME NEW p \in Proc, AbortDriver(p)
       PROVE  [GaugeIsLive!Next]_(GaugeIsLive!vars)
  <2>1. gauge' = gauge /\ GaugeStatus' = GaugeStatus
    BY <1>18, <1>a, <1>b, <1>c DEF AbortDriver, GaugeStatus, Counted
  <2> QED
    BY <2>1, <1>d
<1>19. ASSUME NEW p \in Proc, RetireEndpoint(p)
       PROVE  [GaugeIsLive!Next]_(GaugeIsLive!vars)
  <2>1. gauge' = gauge /\ GaugeStatus' = GaugeStatus
    BY <1>19, <1>a, <1>b, <1>c DEF RetireEndpoint, GaugeStatus, Counted
  <2> QED
    BY <2>1, <1>d
<1>20. ASSUME NEW p \in Proc, SwapRetired(p)
       PROVE  [GaugeIsLive!Next]_(GaugeIsLive!vars)
  <2>1. gauge' = gauge /\ GaugeStatus' = GaugeStatus
    BY <1>20, <1>a, <1>b, <1>c DEF SwapRetired, GaugeStatus, Counted
  <2> QED
    BY <2>1, <1>d
<1>21. ASSUME NEW p \in Proc, SubGauge(p)
       PROVE  [GaugeIsLive!Next]_(GaugeIsLive!vars)
  <2>1. on[p] \in Client /\ GaugeStatus[on[p]] = "counted"
    BY <1>21, <1>a, <1>c DEF SubGauge, GaugeStatus, Counted
  <2>2. GaugeStatus' = [GaugeStatus EXCEPT ![on[p]] = "retired"]
    <3>1. Counted' = Counted \ {on[p]}
      BY <1>21, <1>a, <1>c DEF SubGauge, Counted
    <3>2. client' = client /\ client[on[p]] = "alive"
      BY <1>21, <1>a, <1>c DEF SubGauge
    <3> QED
      BY <1>c, <2>1, <3>1, <3>2 DEF GaugeStatus
  <2>3. GaugeIsLive!Retire(on[p])
    BY <1>21, <2>1, <2>2 DEF SubGauge, GaugeIsLive!Retire
  <2> QED
    BY <2>1, <2>3 DEF GaugeIsLive!Next
<1>22. ASSUME NEW p \in Proc, CloseReturns(p)
       PROVE  [GaugeIsLive!Next]_(GaugeIsLive!vars)
  <2>1. gauge' = gauge /\ GaugeStatus' = GaugeStatus
    BY <1>22, <1>a, <1>b, <1>c DEF CloseReturns, GaugeStatus, Counted
  <2> QED
    BY <2>1, <1>d
<1>23. ASSUME NEW p \in Proc, DropFields(p)
       PROVE  [GaugeIsLive!Next]_(GaugeIsLive!vars)
  <2>1. gauge' = gauge /\ GaugeStatus' = GaugeStatus
    BY <1>23, <1>a, <1>b, <1>c DEF DropFields, GaugeStatus, Counted
  <2> QED
    BY <2>1, <1>d
<1>24. ASSUME NEW c \in Client, ConnDies(c)
       PROVE  [GaugeIsLive!Next]_(GaugeIsLive!vars)
  <2>1. gauge' = gauge /\ GaugeStatus' = GaugeStatus
    BY <1>24, <1>a, <1>b, <1>c DEF ConnDies, GaugeStatus, Counted
  <2> QED
    BY <2>1, <1>d
<1>25. ASSUME NEW c \in Client, EndpointFails(c)
       PROVE  [GaugeIsLive!Next]_(GaugeIsLive!vars)
  <2>1. gauge' = gauge /\ GaugeStatus' = GaugeStatus
    BY <1>25, <1>a, <1>b, <1>c DEF EndpointFails, GaugeStatus, Counted
  <2> QED
    BY <2>1, <1>d
<1>26. ASSUME NEW c \in Client, EndpointDriverStops(c)
       PROVE  [GaugeIsLive!Next]_(GaugeIsLive!vars)
  <2>1. gauge' = gauge /\ GaugeStatus' = GaugeStatus
    BY <1>26, <1>a, <1>b, <1>c DEF EndpointDriverStops, GaugeStatus, Counted
  <2> QED
    BY <2>1, <1>d
<1>27. ASSUME NEW c \in Client, H3DriverEnds(c)
       PROVE  [GaugeIsLive!Next]_(GaugeIsLive!vars)
  <2>1. gauge' = gauge /\ GaugeStatus' = GaugeStatus
    BY <1>27, <1>a, <1>b, <1>c DEF H3DriverEnds, GaugeStatus, Counted
  <2> QED
    BY <2>1, <1>d
<1>28. CASE UNCHANGED vars
  <2>1. gauge' = gauge /\ GaugeStatus' = GaugeStatus
    BY <1>28 DEF vars, GaugeStatus, Counted
  <2> QED
    BY <2>1, <1>d
<1> QED
  BY <1>1, <1>2, <1>3, <1>4, <1>5, <1>6, <1>7, <1>8, <1>9, <1>10,
     <1>11, <1>12, <1>13, <1>14, <1>15, <1>16, <1>17, <1>18, <1>19,
     <1>20, <1>21, <1>22, <1>23, <1>24, <1>25, <1>26, <1>27, <1>28
     DEF Next, ForeignCall, Task, Network, Handshake, Retire

(* The gauge of the running clients is the promised one: it rises once per *)
(* constructed client and falls once per retired one.                      *)
THEOREM GaugeRefinement == Spec => GaugeSpec
<1>1. Init => GaugeIsLive!Init
  BY DEF Init, GaugeIsLive!Init, GaugeStatus
<1> QED
  BY <1>1, GaugeRefinementStep, InductiveInvariant, PTL
     DEF Spec, GaugeSpec, GaugeIsLive!Spec

=============================================================================
