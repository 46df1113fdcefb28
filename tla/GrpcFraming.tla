---------------------------- MODULE GrpcFraming ----------------------------
(***************************************************************************)
(* The length-prefix framing of grpc.rs on sequences of units.  A unit is  *)
(* a byte, except that the four big-endian bytes of the length are one     *)
(* unit, so a header is the compression flag and the length.               *)
(***************************************************************************)
EXTENDS Naturals, Sequences

CONSTANT LenModulus     \* 2^32: the length field is a u32

HEADER == 2

(* Fault: the length counts the header.                                    *)
EncodeWhole(body) == <<0, (HEADER + Len(body)) % LenModulus>> \o body

(* encode_frame: `body.len() as u32` keeps the low bits of the length.     *)
Encode(body) == <<0, Len(body) % LenModulus>> \o body

(* take_frame: is a whole frame buffered, what is in it, what stays.       *)
HasFrame(buf) == Len(buf) >= HEADER /\ Len(buf) >= HEADER + buf[2]

FrameBody(buf) == SubSeq(buf, HEADER + 1, HEADER + buf[2])

(* Fault: what was read along with the frame is thrown away.               *)
NoRest(buf) == <<>>

Rest(buf) == SubSeq(buf, HEADER + buf[2] + 1, Len(buf))
=============================================================================
