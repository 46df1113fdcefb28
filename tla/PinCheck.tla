------------------------------ MODULE PinCheck ------------------------------
(***************************************************************************)
(* The two programs whose answers depend on the pinned certificate: the    *)
(* gateway, which stores and serves it across crashes and restarts, and    *)
(* udpcheck, run against a gateway that may change under it at any time.   *)
(* Which one was started is fixed in the initial state; what udpcheck      *)
(* meets is any gateway, this one included.                                *)
(***************************************************************************)
EXTENDS Naturals

CONSTANTS MaxCerts, Shown

VARIABLES
  program,      \* "gateway" or "udpcheck"
  certFile, keyFile, certDisk, keyDisk, made, gateway, cert, key, served,
  damaged, legacy, pin,
  serving, file, args, world, step, holding, control, ours, seen, verdict,
  exit, why

G == INSTANCE CertStore
U == INSTANCE Udpcheck

storeVars ==
  <<certFile, keyFile, certDisk, keyDisk, made, gateway, cert, key, served,
    damaged, legacy, pin>>
toolVars ==
  <<serving, file, args, world, step, holding, control, ours, seen, verdict,
    exit, why>>
vars == <<program, storeVars, toolVars>>

Init == program \in {"gateway", "udpcheck"} /\ G!Init /\ U!Init

Next ==
  \/ program = "gateway" /\ G!Next /\ UNCHANGED <<program, toolVars>>
  \/ program = "udpcheck" /\ U!Next /\ UNCHANGED <<program, storeVars>>

Spec == Init /\ [][Next]_vars

-----------------------------------------------------------------------------
(* The properties are those of the two components; see there.              *)

(* bin/udpcheck.rs: what the tool tells a tester is so.                    *)
VerdictSound == U!VerdictSound

(* tls.rs: the pin of the app stays good.                                  *)
BundledPinHolds == G!BundledPinHolds
=============================================================================
