----------------------------- MODULE Salamander -----------------------------
(***************************************************************************)
(* The obfuscation of one datagram (salamander.rs).  The hash is any       *)
(* function of the key and the salt, and the exclusive or any operation    *)
(* that undoes itself.                                                     *)
(***************************************************************************)
EXTENDS Naturals, Sequences

CONSTANTS
  Byte, Psk,
  SALT_LEN, KEY_LEN,
  Xor(_, _),            \* on bytes
  Key(_, _)             \* BLAKE2b-256 of a key and a salt

Salt == [1..SALT_LEN -> Byte]

ASSUME SalamanderAssumption ==
  /\ SALT_LEN \in Nat \ {0} /\ KEY_LEN \in Nat \ {0}
  /\ \A a, b \in Byte : Xor(a, b) \in Byte /\ Xor(Xor(a, b), b) = a
  /\ \A psk \in Psk, salt \in Salt :
       Key(psk, salt) \in [0..(KEY_LEN - 1) -> Byte]

(* The key stream at the i-th byte of the plain text, from 1.              *)
KeyAt(psk, salt, i) == Key(psk, salt)[(i - 1) % KEY_LEN]

obfuscate(psk, plain, salt) ==
  salt \o [i \in 1..Len(plain) |-> Xor(plain[i], KeyAt(psk, salt, i))]

TooShort(datagram) == Len(datagram) < SALT_LEN

(* The forward pass: each byte is written over the buffer that the next    *)
(* ones are read from.  The salt, and so the key, is copied out before.    *)
deobfuscate_in_place(psk, datagram) ==
  LET salt == SubSeq(datagram, 1, SALT_LEN)
      plain_len == Len(datagram) - SALT_LEN
      buf[i \in 0..plain_len] ==
        IF i = 0 THEN datagram
        ELSE [buf[i - 1] EXCEPT
                ![i] = Xor(buf[i - 1][SALT_LEN + i], KeyAt(psk, salt, i))]
  IN  SubSeq(buf[plain_len], 1, plain_len)
=============================================================================
