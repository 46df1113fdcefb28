---------------------------- MODULE MCUdpSocket ----------------------------
(* Bytes are bits.  A key of two bytes is used again within a packet of     *)
(* three, and with a salt of two the pass in place writes over bytes it has *)
(* read.  Stray datagrams are empty, shorter than a salt, a salt alone and  *)
(* one byte longer.  The second packet is too large once it has a salt, the *)
(* third is never sent under one and is too large for the path without.     *)
EXTENDS UdpSocket

Bits == {0, 1}
XorBits(a, b) == (a + b) % 2
MCKey(k, salt) == [i \in 0..1 |-> XorBits(salt[1], i * salt[2])]
Packets == {<<1, 0, 0>>, <<0, 1, 1, 0>>, <<1, 1, 0, 1, 0, 1>>}
Strays == {<<>>, <<1>>, <<1, 0>>, <<0, 1, 1>>}
=============================================================================
