------------------------------ MODULE MCServers ------------------------------
(* Two values tell orders apart.  A channel of one is full with one frame,   *)
(* the pump then holds the second, and the third is still to be read.       *)
EXTENDS Servers
=============================================================================
