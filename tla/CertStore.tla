------------------------------ MODULE CertStore ------------------------------
(***************************************************************************)
(* The gateway's certificate across restarts (tls.rs, load_or_generate and *)
(* server_config_tuned; bin/gateway.rs, main).  The process may die at any *)
(* point, also inside a write, which leaves the file torn; and since       *)
(* nothing is synced, the machine may lose what was written, also after it *)
(* was served.  A certificate and its key are the number of the generation *)
(* that made them.                                                         *)
(*                                                                         *)
(* External: rustls refuses a certificate or key that does not parse and a *)
(* pair that does not match.                                               *)
(***************************************************************************)
EXTENDS Naturals

CONSTANT MaxCerts     \* bound: generations; restarts are not bounded

VARIABLES
  certFile, keyFile,    \* contents of the two files
  certDisk, keyDisk,    \* what a power loss would leave of them
  made,                 \* generations so far
  gateway,              \* "down", "new", "cert", "key", "open", "loaded", "up"
  cert, key,            \* the CertBundle in memory
  served,               \* certificates that clients have been shown
  damaged,              \* generations of which a file was removed or lost, or
                        \* which were taken for absent
  legacy,               \* the certificate of the gateway before this, or 0
  pin                   \* the certificate the app bundles, 0 for none yet

files == <<certFile, keyFile, certDisk, keyDisk>>
memory == <<gateway, cert, key>>

Absent == [is |-> "absent", of |-> 0]
Torn == [is |-> "torn", of |-> 0]
Whole(n) == [is |-> "whole", of |-> n]

(* A new volume, or one on which the old gateway left the certificate it   *)
(* had served, without its key.                                            *)
Init ==
  /\ keyFile = Absent
  /\ \/ certFile = Absent /\ made = 0 /\ served = {}
     \/ certFile = Whole(1) /\ made = 1 /\ served = {1}
  /\ legacy = made
  /\ certDisk = certFile /\ keyDisk = keyFile
  /\ cert = Absent /\ key = Absent
  /\ gateway = "down"
  /\ damaged = {} /\ pin = 0

Damage(lost) == damaged' = damaged \cup {f.of : f \in lost}

-----------------------------------------------------------------------------
(* load_or_generate                                                        *)

BothExist == certFile # Absent /\ keyFile # Absent

(* A read that fails ends main: the gateway stays down.                    *)
Load ==
  /\ gateway = "down" /\ BothExist
  /\ cert' = certFile /\ key' = keyFile
  /\ gateway' = "loaded"
  /\ UNCHANGED <<files, made, served, damaged, legacy, pin>>

(* A file is missing, or Path::exists says so because it could not tell.   *)
Generate ==
  /\ gateway = "down"
  /\ made < MaxCerts
  /\ made' = made + 1
  /\ cert' = Whole(made') /\ key' = Whole(made')
  /\ gateway' = "new"
  /\ IF BothExist THEN Damage({certFile, keyFile}) ELSE UNCHANGED damaged
  /\ UNCHANGED <<files, served, legacy, pin>>

(* fs::write empties the file and then fills it: first the certificate ... *)
WriteCert ==
  /\ \/ gateway = "new" /\ certFile' = Torn /\ gateway' = "cert"
     \/ gateway = "cert" /\ certFile' = cert /\ gateway' = "key"
  /\ UNCHANGED <<keyFile, certDisk, keyDisk, made, cert, key, served,
                 damaged, legacy, pin>>

(* Fault: the key is not stored, as in the gateway before this one.        *)
KeepKey ==
  /\ gateway = "key" /\ gateway' = "loaded"
  /\ UNCHANGED <<files, made, cert, key, served, damaged, legacy, pin>>

(* ... then the key.                                                       *)
WriteKey ==
  /\ \/ gateway = "key" /\ keyFile' = Torn /\ gateway' = "open"
     \/ gateway = "open" /\ keyFile' = key /\ gateway' = "loaded"
  /\ UNCHANGED <<certFile, certDisk, keyDisk, made, cert, key, served,
                 damaged, legacy, pin>>

(* server_config, then serve: clients are shown the certificate ...        *)
Paired == cert.is = "whole" /\ key = cert

Serve ==
  /\ gateway = "loaded" /\ Paired
  /\ gateway' = "up"
  /\ served' = served \cup {cert.of}
  /\ UNCHANGED <<files, made, cert, key, damaged, legacy, pin>>

(* ... or main returns the error of with_single_cert.                      *)
Refuse ==
  /\ gateway = "loaded" /\ ~Paired
  /\ gateway' = "down" /\ cert' = Absent /\ key' = Absent
  /\ UNCHANGED <<files, made, served, damaged, legacy, pin>>

(* The process ends: a crash, a restart, or a write that fails.            *)
Die ==
  /\ gateway # "down"
  /\ gateway' = "down" /\ cert' = Absent /\ key' = Absent
  /\ UNCHANGED <<files, made, served, damaged, legacy, pin>>

-----------------------------------------------------------------------------
(* The file system writes a file back when it pleases.  Until then a power *)
(* loss may leave the file as it is, as it was, or torn.                   *)

WriteBack ==
  /\ \/ certFile # certDisk /\ certDisk' = certFile /\ UNCHANGED keyDisk
     \/ keyFile # keyDisk /\ keyDisk' = keyFile /\ UNCHANGED certDisk
  /\ UNCHANGED <<certFile, keyFile, made, memory, served, damaged,
                 legacy, pin>>

Left(file, disk) == IF file = disk THEN {file} ELSE {file, disk, Torn}

PowerLoss ==
  /\ gateway' = "down" /\ cert' = Absent /\ key' = Absent
  /\ certFile' \in Left(certFile, certDisk) /\ certDisk' = certFile'
  /\ keyFile' \in Left(keyFile, keyDisk) /\ keyDisk' = keyFile'
  /\ Damage((IF certFile' # certFile THEN {certFile} ELSE {})
              \cup (IF keyFile' # keyFile THEN {keyFile} ELSE {}))
  /\ UNCHANGED <<made, served, legacy, pin>>

-----------------------------------------------------------------------------
(* People                                                                  *)

Remove ==
  /\ gateway \in {"down", "up"}
  /\ \/ certFile' = Absent /\ Damage({certFile}) /\ UNCHANGED keyFile
     \/ keyFile' = Absent /\ Damage({keyFile}) /\ UNCHANGED certFile
  /\ UNCHANGED <<certDisk, keyDisk, made, memory, served, legacy, pin>>

(* quic_gateway.der is copied from the volume.                             *)
Bundle ==
  /\ pin = 0 /\ certFile.is = "whole"
  /\ pin' = certFile.of
  /\ UNCHANGED <<files, made, memory, served, damaged, legacy>>

Next ==
  \/ Load \/ Generate \/ WriteCert \/ WriteKey \/ Serve \/ Refuse \/ Die
  \/ WriteBack \/ PowerLoss \/ Remove \/ Bundle

-----------------------------------------------------------------------------
(* The pin of the app stays good: once clients have been shown the bundled *)
(* certificate, the gateway goes on showing it through any number of       *)
(* crashes, restarts and half-done writes.  load_or_generate replaces it   *)
(* in these cases only: it is the certificate of the old gateway, whose    *)
(* key was never stored; a file of the pair was removed, or lost with the  *)
(* machine before it was written back; or a stat that failed was taken for *)
(* absence.                                                                *)
BundledPinHolds ==
  gateway = "up" /\ pin \in served =>
    cert.of = pin \/ pin \in damaged \cup {legacy}
=============================================================================
