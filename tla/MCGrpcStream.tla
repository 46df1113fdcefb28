---------------------------- MODULE MCGrpcStream ----------------------------
(* Instances of GrpcStream for TLC: an empty body, whose frame is a header  *)
(* alone, and bodies that chunks and writes can cut, between header and     *)
(* body and inside the body.                                                *)
EXTENDS GrpcStream

Empty == {<<>>}
Short == {<<>>, <<7>>}
Long == {<<>>, <<7, 8>>}
=============================================================================
