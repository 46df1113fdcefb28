----------------------------- MODULE MCPinCheck -----------------------------
(* Three certificates: the one the old gateway may have left, and two that   *)
(* restarts generate, so that the second meets what the first has left on    *)
(* the volume.  udpcheck sees two, the pinned one and another.               *)
EXTENDS PinCheck
=============================================================================
