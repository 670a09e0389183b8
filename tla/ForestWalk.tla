----------------------------- MODULE ForestWalk -----------------------------
(***************************************************************************)
(* Hashes, links, and the walk down a chain, shared by the modules about    *)
(* shares.  A share is known by its hash and names one parent               *)
(* (previous_hash).  Hashes are numbered so that a parent's number is       *)
(* smaller: a hash commits to its parent's hash, so links are acyclic and   *)
(* such a numbering exists.                                                 *)
(***************************************************************************)
EXTENDS Integers

CONSTANTS N,         \* the number of hashes items may have
          Links      \* the link functions (hash -> previous_hash) considered

VARIABLES prev,      \* hash -> previous_hash, fixed by the hashes themselves
          items      \* the hashes of the items in the tracker

None == 0            \* previous_hash of the first share of a chain
Hash == 1..N
Nodes == 0..N

ASSUME NAssumption == N \in Nat
ASSUME LinksAssumption ==
    \A f \in Links : f \in [Hash -> Nodes] /\ \A h \in Hash : f[h] < h

(* The walk from a hash down to the first hash that is not in S.            *)

IsLastMap(f, S, last) ==
    \A x \in Nodes : last[x] = IF x \in S THEN last[f[x]] ELSE x

LastMap(f, S) ==
    LET last[x \in Nodes] == IF x \in S THEN last[f[x]] ELSE x IN last

(* How many members of S the walk passes.                                   *)
HeightMap(f, S) ==
    LET height[x \in Nodes] == IF x \in S THEN 1 + height[f[x]] ELSE 0 IN height
=============================================================================
