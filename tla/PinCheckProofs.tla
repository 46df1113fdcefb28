--------------------------- MODULE PinCheckProofs ---------------------------
(***************************************************************************)
(* Proofs about PinCheck, for any number of crashes and of certificates,   *)
(* and for any network, hosts and options of udpcheck.                     *)
(***************************************************************************)
EXTENDS PinCheck, TLAPS

Content == [is : {"absent", "torn", "whole"}, of : Nat]

StoreType ==
  /\ {certFile, keyFile, certDisk, keyDisk, cert, key} \subseteq Content
  /\ made \in Nat
  /\ gateway \in {"down", "new", "cert", "key", "open", "loaded", "up"}

(* What the gateway has in memory is what is on the volume, from the       *)
(* moment it has written it or read it back until somebody removes it.     *)
MemoryInv ==
  /\ gateway \in {"key", "open"} => cert = certFile
  /\ gateway = "loaded" => cert = certFile /\ key = keyFile
  /\ gateway = "up" => certFile \in {cert, [is |-> "absent", of |-> 0]}

(* Once a certificate has been shown and its pair has come to no harm, the *)
(* pair on the volume is that one, so that load_or_generate only loads.    *)
ShownInv == \A n \in served : n \notin damaged /\ n # legacy =>
  /\ gateway \in {"down", "loaded", "up"}
  /\ certFile = [is |-> "whole", of |-> n] /\ keyFile = certFile

StoreInv == StoreType /\ MemoryInv /\ ShownInv

-----------------------------------------------------------------------------
(* The tool.  What its two probes tell of the world it was run in.         *)

ToolType ==
  /\ args \in U!Args /\ world \in U!World
  /\ step \in {"start", "control", "ours", "verdict", "done"}
  /\ holding \in BOOLEAN
  /\ why \in [U!Target -> U!Cause]

Handshaken(target) == U!AtHandshake => ~U!Hits(target)

(* What the result r of a probe means, given its cause.                    *)
Means(target, r, cause) ==
  \/ /\ r = "fail" /\ cause # "none"
     /\ cause = "network" => U!AtHandshake /\ U!Hits(target)
  \/ r = "ok" /\ cause = "none" /\ ~U!Noticed(target)
  \/ /\ r = "throttled" /\ cause # "none" /\ Handshaken(target)
     /\ cause = "network" => ~U!AtHandshake /\ U!Hits(target)

ControlInv ==
  /\ step \in {"start", "control"} => control = "none"
  /\ step \in {"ours", "verdict", "done"} =>
       Means("control", control, why["control"])

OursInv ==
  /\ step \in {"start", "control", "ours"} => ours = "none"
  /\ step \in {"verdict", "done"} =>
       \/ Means("ours", ours, why["ours"])
       \/ /\ ours = "mismatch" /\ Handshaken("ours")
          /\ seen \notin {0, file}

(* What is held was shaken hands with, and the report says what main says. *)
ProbeInv ==
  /\ holding => /\ step \in {"control", "ours"}
                /\ Handshaken(step) /\ args.hold # "none"
  /\ step # "done" => verdict = "none" /\ exit = 0
  /\ step = "done" =>
       /\ verdict = U!Verdict
       /\ exit = 2 => U!HandshakeOk(control)

ToolInv == ToolType /\ ControlInv /\ OursInv /\ ProbeInv

IInv == StoreInv /\ ToolInv

-----------------------------------------------------------------------------
LEMMA InitIInv == Init => IInv
<1> SUFFICES ASSUME Init PROVE IInv
  OBVIOUS
<1> USE DEF Init, G!Init, U!Init, G!Absent, G!Whole
<1>1. StoreInv
  BY DEF StoreInv, StoreType, Content, MemoryInv, ShownInv
<1>2. ToolType
  <2>1. U!Plain \in U!Args
    BY DEF U!Plain, U!Args
  <2>2. U!Clear \in U!World
    BY DEF U!Clear, U!World
  <2>3. [t \in U!Target |-> "none"] \in [U!Target -> U!Cause]
    BY DEF U!Cause
  <2> QED
    BY <2>1, <2>2, <2>3, Zenon DEF ToolType
<1>3. ControlInv /\ OursInv /\ ProbeInv
  BY DEF ControlInv, OursInv, ProbeInv
<1> QED
  BY <1>1, <1>2, <1>3 DEF IInv, ToolInv

(* The gateway's steps.  A step that takes a file of an unharmed pair away *)
(* harms that pair; the steps of a generation meet no unharmed pair.       *)
LEMMA StoreStep ==
  ASSUME StoreInv, G!Next
  PROVE  StoreInv'
<1> USE DEF StoreInv, StoreType, MemoryInv, ShownInv, Content,
            G!Absent, G!Torn, G!Whole, G!BothExist, G!Paired, G!Damage,
            G!files, G!memory
<1>1. CASE G!Load
  BY <1>1 DEF G!Load
<1>2. CASE G!Generate
  BY <1>2 DEF G!Generate
<1>3. CASE G!WriteCert
  BY <1>3 DEF G!WriteCert
<1>4. CASE G!WriteKey
  BY <1>4 DEF G!WriteKey
<1>5. CASE G!Serve
  BY <1>5 DEF G!Serve
<1>6. CASE G!Refuse
  BY <1>6 DEF G!Refuse
<1>7. CASE G!Die
  BY <1>7 DEF G!Die
<1>8. CASE G!WriteBack
  BY <1>8 DEF G!WriteBack
<1>9. CASE G!PowerLoss
  BY <1>9 DEF G!PowerLoss, G!Left
<1>10. CASE G!Remove
  BY <1>10 DEF G!Remove
<1>11. CASE G!Bundle
  BY <1>11 DEF G!Bundle
<1> QED
  BY <1>1, <1>2, <1>3, <1>4, <1>5, <1>6, <1>7, <1>8, <1>9, <1>10, <1>11
     DEF G!Next

(* A probe that yields r for the given cause moves the tool on.            *)
LEMMA ResultStep ==
  ASSUME ToolInv, NEW target \in U!Target, NEW r, NEW cause \in U!Cause,
         step = target, U!Result(target, r, cause),
         \/ Means(target, r, cause) /\ (target = "control" => seen' = seen)
         \/ /\ target = "ours" /\ r = "mismatch" /\ Handshaken("ours")
            /\ seen' \notin {0, file}
  PROVE  ToolInv'
<1> USE DEF ToolInv, U!Result, Means, Handshaken, U!Hits, U!AtHandshake,
            U!Noticed, U!Target
<1>1. ToolType'
  BY DEF ToolType
<1>2. ControlInv'
  BY DEF ControlInv, ToolType
<1>3. OursInv'
  BY DEF OursInv, ToolType
<1>4. ProbeInv'
  BY DEF ProbeInv
<1> QED
  BY <1>1, <1>2, <1>3, <1>4

(* The verdict depends on the results and the options alone.               *)
LEMMA SameVerdict ==
  ASSUME UNCHANGED <<args, control, ours>>
  PROVE  U!Verdict' = U!Verdict
BY DEF U!Verdict, U!ModeVerdict, U!PlainVerdict, U!HandshakeOk

LEMMA ToolStep ==
  ASSUME ToolInv, U!Next
  PROVE  ToolInv'
<1> USE DEF ToolInv
<1>1. CASE U!Start
  BY <1>1 DEF U!Start, ToolType, ControlInv, OursInv, ProbeInv
<1>2. CASE U!GatewayChanges
  <2> USE <1>2 DEF U!GatewayChanges, Means, Handshaken, U!Hits, U!AtHandshake,
                   U!Noticed
  <2>1. ToolType' /\ ControlInv' /\ OursInv'
    BY DEF ToolType, ControlInv, OursInv
  <2>2. ProbeInv'
    BY DEF ProbeInv
  <2> QED
    BY <2>1, <2>2
<1>3. CASE U!Report
  <2> USE <1>3 DEF U!Report, Means, Handshaken, U!Hits, U!AtHandshake,
                   U!Noticed
  <2>1. ToolType' /\ ControlInv' /\ OursInv'
    BY DEF ToolType, ControlInv, OursInv
  <2>2. verdict' = U!Verdict'
    BY SameVerdict
  <2>3. ProbeInv'
    BY <2>2 DEF ProbeInv, U!HandshakeOk
  <2> QED
    BY <2>1, <2>3
<1>4. ASSUME NEW target \in U!Target, U!NoHandshake(target)
      PROVE  ToolInv'
  <2>1. PICK cause \in U!Cause \ {"none"} :
          /\ cause = "network" => U!AtHandshake /\ U!Hits(target)
          /\ U!Result(target, "fail", cause)
    BY <1>4 DEF U!NoHandshake
  <2> QED
    BY <1>4, <2>1, ResultStep DEF U!NoHandshake, Means
<1>5. ASSUME NEW target \in U!Target, U!Handshake(target)
      PROVE  ToolInv'
  <2>1. step = target /\ Handshaken(target) /\ "none" \in U!Cause
    BY <1>5 DEF U!Handshake, Handshaken, U!Cause
  <2>2. CASE U!Result(target, "mismatch", "none") /\ target = "ours"
             /\ args.pin /\ serving # file
    BY <1>5, <2>1, <2>2, ResultStep DEF U!Handshake
  <2>3. CASE U!Result(target, "ok", "none") /\ args.hold = "none"
    <3>1. Means(target, "ok", "none")
      BY <2>1, <2>3 DEF Means, Handshaken, U!Noticed
    <3> QED
      BY <1>5, <2>1, <2>3, <3>1, ResultStep DEF U!Handshake
  <2>4. CASE /\ args.hold # "none" /\ holding' = TRUE
             /\ UNCHANGED <<serving, file, args, world, step, control, ours,
                            verdict, exit, why>>
    <3> USE <2>1, <2>4 DEF Means, Handshaken, U!Hits, U!AtHandshake, U!Noticed,
                           U!Target
    <3>1. ToolType' /\ ControlInv' /\ OursInv'
      BY DEF ToolType, ControlInv, OursInv
    <3>2. ProbeInv'
      BY DEF ProbeInv
    <3> QED
      BY <3>1, <3>2
  <2> QED
    BY <1>5, <2>2, <2>3, <2>4 DEF U!Handshake
<1>6. ASSUME NEW target \in U!Target, U!HoldDies(target)
      PROVE  ToolInv'
  <2>1. PICK cause \in U!Cause \ {"none"} :
          /\ cause = "network" => ~U!AtHandshake /\ U!Hits(target)
          /\ U!Result(target, "throttled", cause)
    BY <1>6 DEF U!HoldDies
  <2>2. step = target /\ Handshaken(target)
    BY <1>6 DEF U!HoldDies, ProbeInv
  <2> QED
    BY <1>6, <2>1, <2>2, ResultStep DEF U!HoldDies, Means
<1>7. ASSUME NEW target \in U!Target, U!HoldSurvives(target)
      PROVE  ToolInv'
  <2>1. step = target /\ Handshaken(target) /\ "none" \in U!Cause
    BY <1>7 DEF U!HoldSurvives, ProbeInv, U!Cause
  <2>2. Means(target, "ok", "none")
    BY <1>7, <2>1 DEF U!HoldSurvives, Means, Handshaken, U!Noticed
  <2> QED
    BY <1>7, <2>1, <2>2, ResultStep DEF U!HoldSurvives
<1> QED
  BY <1>1, <1>2, <1>3, <1>4, <1>5, <1>6, <1>7 DEF U!Next

-----------------------------------------------------------------------------
LEMMA Unmoved ==
  /\ StoreInv /\ UNCHANGED storeVars => StoreInv'
  /\ ToolInv /\ UNCHANGED toolVars => ToolInv'
<1>1. ASSUME StoreInv, UNCHANGED storeVars PROVE StoreInv'
  BY <1>1 DEF storeVars, StoreInv, StoreType, MemoryInv, ShownInv
<1>2. ASSUME ToolInv, UNCHANGED toolVars PROVE ToolInv'
  <2> USE <1>2 DEF toolVars, ToolInv, Means, Handshaken, U!Hits, U!AtHandshake,
                   U!Noticed
  <2>1. ToolType' /\ ControlInv' /\ OursInv'
    BY DEF ToolType, ControlInv, OursInv
  <2>2. ProbeInv'
    BY SameVerdict DEF ProbeInv, U!HandshakeOk
  <2> QED
    BY <2>1, <2>2
<1> QED
  BY <1>1, <1>2

(* IInv is an invariant: of the gateway, which pair is on the volume; of   *)
(* the tool, what its results say of the network.                          *)
THEOREM InductiveInvariant == Spec => []IInv
<1>1. IInv /\ [Next]_vars => IInv'
  <2> SUFFICES ASSUME IInv, [Next]_vars PROVE IInv'
    OBVIOUS
  <2>1. CASE G!Next /\ UNCHANGED toolVars
    BY <2>1, StoreStep, Unmoved DEF IInv
  <2>2. CASE U!Next /\ UNCHANGED storeVars
    BY <2>2, ToolStep, Unmoved DEF IInv
  <2>3. CASE UNCHANGED vars
    BY <2>3, Unmoved DEF IInv, vars
  <2> QED
    BY <2>1, <2>2, <2>3 DEF Next
<1> QED
  BY <1>1, InitIInv, PTL DEF Spec

(* bin/udpcheck.rs, main: what the verdict says of the network is so, and  *)
(* the plain verdict is the exact one where only the network made a probe  *)
(* fail, for all networks, hosts and options and however the gateway       *)
(* changes during the run.                                                 *)
THEOREM VerdictSoundAlways == Spec => []VerdictSound
<1>1. IInv => VerdictSound
  <2>0. ASSUME IInv, step # "done" PROVE U!VerdictSound
    <3>1. verdict = "none" /\ exit = 0
      BY <2>0 DEF IInv, ToolInv, ProbeInv
    <3>2. U!VerdictHolds
      BY <3>1 DEF U!VerdictHolds
    <3>3. U!VerdictExact
      BY <2>0 DEF U!VerdictExact
    <3> QED
      BY <3>2, <3>3 DEF U!VerdictSound
  <2> SUFFICES ASSUME IInv, step = "done" PROVE U!VerdictSound
    BY <2>0, Zenon DEF VerdictSound
  <2>1. /\ verdict = U!Verdict
        /\ exit = 2 => U!HandshakeOk(control)
        /\ Means("control", control, why["control"])
        /\ \/ Means("ours", ours, why["ours"])
           \/ /\ ours = "mismatch" /\ Handshaken("ours")
              /\ seen \notin {0, file}
        /\ args \in U!Args /\ world \in U!World
    BY DEF IInv, ToolInv, ToolType, ControlInv, OursInv, ProbeInv
  <2> USE <2>1 DEF Means, Handshaken, U!AtHandshake, U!Noticed, U!Generic,
                   U!Hits, U!HandshakeOk, U!Args, U!World
  <2>2. U!VerdictHolds
    <3>1. CASE ours = "mismatch"
      BY <3>1 DEF U!Verdict, U!VerdictHolds
    <3>2. CASE ours # "mismatch" /\ (args.psk \/ args.sni)
      BY <3>2 DEF U!Verdict, U!VerdictHolds, U!ModeVerdict
    <3>3. CASE ours # "mismatch" /\ ~(args.psk \/ args.sni)
      BY <3>3 DEF U!Verdict, U!VerdictHolds, U!PlainVerdict
    <3> QED
      BY <3>1, <3>2, <3>3
  <2>3. U!VerdictExact
    <3> SUFFICES ASSUME args.hold = "long", ~args.sni, ~args.psk,
                        ours # "mismatch",
                        why["control"] \in {"none", "network"},
                        why["ours"] \in {"none", "network"}
                 PROVE  U!PlainVerdict = U!Diagnosis
      BY DEF U!VerdictExact, U!Verdict, U!Target
    <3>1. U!Hits("control") <=> U!Generic
      OBVIOUS
    <3>2. U!Hits("ours") <=> world.kills # "nothing"
      OBVIOUS
    <3> HIDE DEF U!Hits
    <3> DEFINE Found == IF U!AtHandshake THEN "fail" ELSE "throttled"
    <3>3. control = IF U!Generic THEN Found ELSE "ok"
      BY <3>1
    <3>4. ours = IF world.kills = "nothing" THEN "ok" ELSE Found
      BY <3>2
    <3> HIDE <2>1 DEF Means
    <3> QED
      BY <3>3, <3>4 DEF U!PlainVerdict, U!Diagnosis
  <2> QED
    BY <2>2, <2>3 DEF U!VerdictSound
<1> QED
  BY <1>1, InductiveInvariant, PTL

(* tls.rs, load_or_generate: a bundled certificate that clients were once  *)
(* shown stays the one they are shown, across any number of crashes, torn  *)
(* writes included, unless it is the old gateway's or its pair was         *)
(* removed, lost or taken for absent.                                      *)
THEOREM BundledPinHoldsAlways == Spec => []BundledPinHolds
<1>1. IInv => BundledPinHolds
  <2> SUFFICES ASSUME IInv, gateway = "up", pin \in served, pin \notin damaged,
                      pin # legacy
               PROVE  cert.of = pin
    BY DEF BundledPinHolds, G!BundledPinHolds
  <2>1. certFile = [is |-> "whole", of |-> pin]
    BY DEF IInv, StoreInv, ShownInv
  <2>2. certFile = cert
    BY <2>1 DEF IInv, StoreInv, MemoryInv
  <2> QED
    BY <2>1, <2>2
<1> QED
  BY <1>1, InductiveInvariant, PTL
=============================================================================
