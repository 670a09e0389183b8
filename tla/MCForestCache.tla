--------------------------- MODULE MCForestCache ---------------------------
(* The memoised tracker over every forest of N hashes.                      *)
EXTENDS ForestCache

AllLinks == {f \in [Hash -> Nodes] : \A h \in Hash : f[h] < h}
=============================================================================
