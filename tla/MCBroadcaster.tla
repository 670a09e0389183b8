---------------------------- MODULE MCBroadcaster ----------------------------
(* Two addresses that peers tell of, one of the local node.                  *)
EXTENDS Broadcaster, TLC

CONSTANTS a, b, c
HeardFrom == {a, b}
Alike == Permutations(HeardFrom)
=============================================================================
