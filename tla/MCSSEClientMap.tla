--------------------------- MODULE MCSSEClientMap ---------------------------
(* Instances of SSEClientMap for TLC. *)
EXTENDS SSEClientMap

CONSTANTS c1, c2, c3

TwoClients == {c1, c2}
ThreeClients == {c1, c2, c3}
=============================================================================
