---------------------------- MODULE MessageFifo ----------------------------
(***************************************************************************)
(* What each direction of a gRPC call promises (client.rs, QuicStream):    *)
(* messages come out whole, once each, and in the order they went in.      *)
(***************************************************************************)
EXTENDS Naturals, Sequences

CONSTANT Message

VARIABLES
  sent,     \* the messages put in
  taken     \* the messages that have come out

vars == <<sent, taken>>

Init == sent = <<>> /\ taken = <<>>

Put(m) == sent' = Append(sent, m) /\ UNCHANGED taken

Take ==
  /\ Len(taken) < Len(sent)
  /\ taken' = Append(taken, sent[Len(taken) + 1])
  /\ UNCHANGED sent

Next == (\E m \in Message : Put(m)) \/ Take

Spec == Init /\ [][Next]_vars
=============================================================================
