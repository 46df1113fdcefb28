------------------------------ MODULE MCRebind ------------------------------
(* Instances of Rebind for TLC: two calls, so that a second migration meets *)
(* what the first one left in flight.                                       *)
EXTENDS Rebind
=============================================================================
