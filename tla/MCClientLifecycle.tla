------------------------- MODULE MCClientLifecycle -------------------------
(* Instances of ClientLifecycle for TLC.                                    *)
EXTENDS ClientLifecycle, TLC

(* Processes, and clients, are interchangeable.  Only runs without a        *)
(* liveness property use this.                                              *)
Symmetry == Permutations(Client) \cup Permutations(Proc)
=============================================================================
