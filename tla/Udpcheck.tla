------------------------------ MODULE Udpcheck ------------------------------
(***************************************************************************)
(* A run of bin/udpcheck.rs: a probe of a public control host, a probe of  *)
(* our gateway, a verdict and an exit code.  What the network blocks is    *)
(* fixed at the start and hidden from the tool.  A probe may also fail     *)
(* through no block at all: the host is down, does not resolve, has        *)
(* another key, restarts or closes the connection, or datagrams are lost.  *)
(***************************************************************************)
CONSTANT Shown    \* certificates, numbered from 1

VARIABLES
  serving,      \* the certificate our gateway serves, 0 if it serves none
  file,         \* the certificate in quic_gateway.der, 0 if there is none
  args,         \* the options: hold, pin, sni, psk
  world,        \* what the network blocks
  step,         \* "start", "control", "ours", "verdict" or "done"
  holding,      \* a connection is being held open
  control, ours,    \* results of the probes
  seen,         \* the certificate our gateway has shown, 0 for none
  verdict, exit,
  why           \* history: what really made each probe fail or die

Target == {"control", "ours"}

(* A short hold may end before a flow that the network has silenced is     *)
(* missed: the connection's idle timeout is 30 s.                          *)
Args == [hold : {"none", "short", "long"}, pin : BOOLEAN, sni : BOOLEAN,
         psk : BOOLEAN]

(* The network kills flows by some property of theirs, at the handshake or *)
(* some time into the connection.                                          *)
World == [kills : {"nothing", "udp", "quic", "sni", "ip"},
          sub : BOOLEAN,      \* and those with the name given to --sni
          when : {"handshake", "later"}]

Cause == {"none", "network", "host", "loss"}

Plain == [hold |-> "none", pin |-> FALSE, sni |-> FALSE, psk |-> FALSE]
Clear == [kills |-> "nothing", sub |-> FALSE, when |-> "later"]

Init ==
  /\ serving = 0 /\ file = 0
  /\ args = Plain /\ world = Clear
  /\ step = "start" /\ holding = FALSE
  /\ control = "none" /\ ours = "none" /\ seen = 0
  /\ verdict = "none" /\ exit = 0
  /\ why = [t \in Target |-> "none"]

(* The options; --pin needs a file to read.                                *)
Start ==
  /\ step = "start"
  /\ args' \in Args
  /\ file' \in Shown \cup {0}
  /\ args'.pin => file' # 0
  /\ world' \in World
  /\ step' = "control"
  /\ UNCHANGED <<serving, holding, control, ours, seen, verdict, exit, why>>

(* The gateway starts, stops or gets another certificate (CertStore).      *)
GatewayChanges ==
  /\ step # "done"
  /\ serving' \in (Shown \cup {0}) \ {serving}
  /\ UNCHANGED <<file, args, world, step, holding, control, ours, seen, verdict,
                 exit, why>>

(* The name on the wire is ours or the one given to --sni; --psk hides it, *)
(* and that it is QUIC.  The control is plain.                             *)
Hits(target) ==
  \/ world.kills = "udp"
  \/ world.kills = "quic" /\ (target = "control" \/ ~args.psk)
  \/ /\ target = "ours" /\ ~args.psk
     /\ IF args.sni THEN world.sub ELSE world.kills = "sni"
  \/ world.kills = "ip" /\ target = "ours"

AtHandshake == world.when = "handshake"

-----------------------------------------------------------------------------
(* try_quic                                                                *)

Result(target, r, cause) ==
  /\ holding' = FALSE
  /\ IF target = "control"
     THEN control' = r /\ step' = "ours" /\ UNCHANGED ours
     ELSE ours' = r /\ step' = "verdict" /\ UNCHANGED control
  /\ why' = [why EXCEPT ![target] = cause]
  /\ UNCHANGED <<serving, file, args, world, verdict, exit>>

(* No address, or no handshake within HANDSHAKE_TIMEOUT.                   *)
NoHandshake(target) ==
  /\ step = target /\ ~holding
  /\ \E cause \in Cause \ {"none"} :
       /\ cause = "network" => AtHandshake /\ Hits(target)
       /\ Result(target, "fail", cause)
  /\ UNCHANGED seen

(* Verifier: the leaf is noted, and compared with the pin if there is one. *)
Handshake(target) ==
  /\ step = target /\ ~holding
  /\ target = "ours" => serving # 0
  /\ AtHandshake => ~Hits(target)
  /\ seen' = IF target = "ours" THEN serving ELSE seen
  /\ IF target = "ours" /\ args.pin /\ serving # file
     THEN Result(target, "mismatch", "none")
     ELSE IF args.hold = "none" THEN Result(target, "ok", "none")
     ELSE /\ holding' = TRUE
          /\ UNCHANGED <<serving, file, args, world, step, control, ours,
                         verdict, exit, why>>

(* The connection being held has a close_reason, whatever it is.           *)
HoldDies(target) ==
  /\ step = target /\ holding
  /\ \E cause \in Cause \ {"none"} :
       /\ cause = "network" => ~AtHandshake /\ Hits(target)
       /\ Result(target, "throttled", cause)
  /\ UNCHANGED seen

HoldSurvives(target) ==
  /\ step = target /\ holding
  /\ ~AtHandshake /\ Hits(target) => args.hold = "short"
  /\ Result(target, "ok", "none")
  /\ UNCHANGED seen

-----------------------------------------------------------------------------
(* main                                                                    *)

HandshakeOk(r) == r \in {"ok", "throttled"}

(* With --sni or --psk: does hiding something help?                        *)
ModeVerdict ==
  CASE ours = "ok" -> "mode survived"
    [] ours = "throttled" -> "mode did not help"
    [] ours = "fail" -> "mode failed"

(* Fault: our connection dying is blamed on us, whatever the control did.  *)
PlainVerdictHasty ==
  CASE HandshakeOk(control) /\ ours = "throttled" -> "ours went silent"
    [] HandshakeOk(control) /\ ours = "ok" /\ control = "throttled" ->
         "all throttled"
    [] control = "ok" /\ ours = "ok" -> "works"
    [] HandshakeOk(control) /\ ours = "fail" -> "ours did not answer"
    [] control = "fail" /\ ours = "fail" -> "udp blocked"
    [] control = "fail" /\ HandshakeOk(ours) -> "unusual"

PlainVerdict ==
  CASE control = "ok" /\ ours = "throttled" -> "ours went silent"
    [] control = "throttled" /\ HandshakeOk(ours) -> "all throttled"
    [] control = "ok" /\ ours = "ok" -> "works"
    [] HandshakeOk(control) /\ ours = "fail" -> "ours did not answer"
    [] control = "fail" /\ ours = "fail" -> "udp blocked"
    [] control = "fail" /\ HandshakeOk(ours) -> "unusual"

Verdict ==
  IF ours = "mismatch" THEN "stale pin"
  ELSE IF args.psk \/ args.sni THEN ModeVerdict
  ELSE PlainVerdict

Report ==
  /\ step = "verdict"
  /\ step' = "done"
  /\ verdict' = Verdict
  /\ exit' = IF HandshakeOk(control) /\ ~HandshakeOk(ours) THEN 2 ELSE 0
  /\ UNCHANGED <<serving, file, args, world, holding, control, ours, seen, why>>

Next ==
  \/ Start \/ GatewayChanges
  \/ \E target \in Target :
       \/ NoHandshake(target) \/ Handshake(target)
       \/ HoldDies(target) \/ HoldSurvives(target)
  \/ Report

-----------------------------------------------------------------------------
(* Properties                                                              *)

Generic == world.kills \in {"udp", "quic"}

(* The run lasted long enough to notice that target is hit.                *)
Noticed(target) == Hits(target) /\ (AtHandshake \/ args.hold = "long")

(* What the tool says of the network is so, whoever else was at fault in   *)
(* the run: a verdict that clears the network clears one that blocks       *)
(* nothing the run could notice, "not a generic UDP block" and exit code 2 *)
(* are only said where there is no such block, the control is not called   *)
(* unusual for a block it shares with us, and a pin is stale only if our   *)
(* gateway was reached and showed another certificate.  "Did not help" is  *)
(* said of a network that looks at something the mode leaves visible, or   *)
(* at the substitute name, or of a death that was not the network's.       *)
VerdictHolds ==
  LET Says(v) == verdict = v IN
  /\ Says("works") => ~Noticed("control") /\ ~Noticed("ours")
  /\ Says("ours went silent") => ~Noticed("control")
  /\ Says("ours did not answer") \/ exit = 2 => ~(Generic /\ AtHandshake)
  /\ Says("unusual") => why["control"] # "network"
  /\ Says("stale pin") =>
       seen \notin {0, file} /\ ~(AtHandshake /\ Hits("ours"))
  /\ Says("mode survived") => ~Noticed("ours")
  /\ Says("mode did not help") /\ why["ours"] = "network" =>
       \/ world.kills \in {"udp", "ip"}
       \/ ~args.psk /\ (world.kills = "quic" \/ world.sub)

(* And the plain verdict is the right one, both ways, where nothing but    *)
(* the network made a probe fail (no host at fault, no plain loss) and the *)
(* connections were held past the idle timeout.                            *)
Diagnosis ==
  IF world.kills = "nothing" THEN "works"
  ELSE IF Generic THEN IF AtHandshake THEN "udp blocked" ELSE "all throttled"
  ELSE IF AtHandshake THEN "ours did not answer" ELSE "ours went silent"

VerdictExact ==
  (/\ step = "done" /\ args.hold = "long" /\ ~args.sni /\ ~args.psk
   /\ ours # "mismatch"
   /\ \A t \in Target : why[t] \in {"none", "network"})
  => verdict = Diagnosis

(* What udpcheck tells a tester is so in the world it was run in.  "Mode   *)
(* failed" says nothing of the network, and neither "all throttled" nor    *)
(* "udp blocked" can be held to what they say when the control host itself *)
(* was at fault or its datagrams were lost: only then does the tool blame  *)
(* a network that is not to blame.                                         *)
VerdictSound == VerdictHolds /\ VerdictExact
=============================================================================
