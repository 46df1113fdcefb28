------------------------------- MODULE MCDial -------------------------------
(* Instances of Dial for TLC.  As in the code, resolution may take a third  *)
(* of CONNECT_BUDGET and the handshakes share the rest; the unit is a sixth *)
(* of HANDSHAKE_TIMEOUT, so that the slices of one, two and three attempts  *)
(* are whole, and the floor is two units: three of the four addresses fit.  *)
EXTENDS Dial
=============================================================================
