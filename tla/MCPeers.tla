------------------------------- MODULE MCPeers -------------------------------
(* Who dials whom: one node another one; or two nodes each other, while one  *)
(* of them has its own address in its addr_store.                           *)
EXTENDS Peers

CONSTANTS a, b
OneWay == {<<a, b>>}
Crossing == {<<a, b>>, <<b, a>>, <<a, a>>}
=============================================================================
