---------------------------- MODULE ServerBounds ----------------------------
(* The parameters of the two servers.  `headers' and `trailers' are frames  *)
(* of their own, told apart from data.                                      *)
EXTENDS Naturals, Sequences

CONSTANTS
  Chunk,            \* the data of a frame of the client
  Answer,           \* the data of a frame of the upstream
  Capacity,         \* frames in the proxy's channel (64 in proxy.rs)
  MaxUp, MaxDown,   \* bounds: frames of the client, frames of the upstream
  Requests,         \* bound: requests on a connection of the echo server
  MaxEchoed         \* bound: data frames of one of them

ASSUME ServerAssumption ==
  /\ Capacity \in Nat \ {0}
  /\ {MaxUp, MaxDown, Requests, MaxEchoed} \subseteq Nat
  /\ (Chunk \cup Answer) \cap {"headers", "trailers"} = {}
=============================================================================
