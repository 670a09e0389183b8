------------------------------- MODULE Forest -------------------------------
(***************************************************************************)
(* The forest of p2pool/util/forest.py: Tracker, the store of shares that   *)
(* every view, score and payout calculation walks.  An item is known by its *)
(* hash and names one parent (previous_hash).  The tracker indexes its      *)
(* items by their ends: `reverse` (parent to children), `heads` (leaf to    *)
(* the first hash below it that is not an item) and `tails` (such a hash to *)
(* its leaves).  `add` and `remove` repair the indexes incrementally; the   *)
(* properties say that they are always what a full walk would compute.      *)
(*                                                                         *)
(* Here get_last is the exact walk; ForestCache models the memoised one.    *)
(***************************************************************************)
EXTENDS Integers, FiniteSets, Functions, ForestWalk

VARIABLES
    reverse,    \* previous_hash -> set of the items that name it
    heads,      \* head hash -> tail hash
    tails       \* tail hash -> set of head hashes

vars == <<prev, items, reverse, heads, tails>>

-----------------------------------------------------------------------------
(* The first hash on the way down from x that is not in S.                  *)
LastIn(S, x) == LastMap(prev, S)[x]

(* get_last: the memoised walk of the default view, as what it returns.     *)
get_last(x) == LastIn(items, x)

(* is_child_of: the walk from x meets h.                                    *)
is_child_of(h, x) == x \in items /\ LastIn(items \ {h}, x) = h

ChildrenIn(S, t) == {x \in S : prev[x] = t}

Without(f, k) == Restrict(f, DOMAIN f \ {k})
Updated(f, g) == [x \in DOMAIN f \cup DOMAIN g |->
                     IF x \in DOMAIN g THEN g[x] ELSE f[x]]
Entry(k, v) == [x \in {k} |-> v]
SetAt(f, k) == IF k \in DOMAIN f THEN f[k] ELSE {}
DropEmpty(f, k) == IF f[k] = {} THEN Without(f, k) ELSE f

-----------------------------------------------------------------------------
Init ==
    /\ prev \in Links
    /\ items = {}
    /\ reverse = <<>>
    /\ heads = <<>>
    /\ tails = <<>>

(* Tracker.add.  The subtree that hung from h (if h was a tail) or h itself *)
(* hangs from `last`, the answer to get_last(previous_hash); when the       *)
(* parent was a head the parent's own entry is moved instead.               *)
IndexAdd(h, last) ==
    LET p == prev[h]
        hs == IF h \in DOMAIN tails THEN tails[h] ELSE {h}
        tail == IF p \in DOMAIN heads THEN heads[p] ELSE last
        tails1 == Without(tails, h)
    IN /\ items' = items \cup {h}
       /\ reverse' = Updated(reverse, Entry(p, SetAt(reverse, p) \cup {h}))
       /\ tails' = Updated(tails1, Entry(tail, (SetAt(tails1, tail) \cup hs) \ {p}))
       /\ heads' = Updated(Without(heads, p), [x \in hs |-> tail])

add(h) ==
    /\ h \notin items                 \* else ValueError('item already present')
    /\ IndexAdd(h, get_last(prev[h]))
    /\ UNCHANGED prev

IndexRemove(h) ==
    /\ items' = items \ {h}
    /\ reverse' = DropEmpty([reverse EXCEPT ![prev[h]] = @ \ {h}], prev[h])

RemoveLoneKeepsTail(h) ==             \* mutant of RemoveLone
    /\ h \in DOMAIN heads /\ prev[h] \in DOMAIN tails
    /\ heads' = Without(heads, h)
    /\ tails' = [tails EXCEPT ![heads[h]] = @ \ {h}]
    /\ IndexRemove(h)

(* remove, first branch: a chain of one item.                               *)
RemoveLone(h) ==
    LET tails1 == [tails EXCEPT ![heads[h]] = @ \ {h}]
    IN /\ h \in DOMAIN heads /\ prev[h] \in DOMAIN tails
       /\ heads' = Without(heads, h)
       /\ tails' = DropEmpty(tails1, prev[h])
       /\ IndexRemove(h)

RemoveHeadNoSibling(h) ==             \* mutant of RemoveHead: no sibling check
    LET t == heads[h]
        p == prev[h]
    IN /\ h \in DOMAIN heads /\ p \notin DOMAIN tails
       /\ tails' = [tails EXCEPT ![t] = (@ \ {h}) \cup {p}]
       /\ heads' = Updated(Without(heads, h), Entry(p, t))
       /\ IndexRemove(h)

(* remove, second branch: a head; its parent becomes one if h was its only  *)
(* child.                                                                   *)
RemoveHead(h) ==
    LET t == heads[h]
        p == prev[h]
    IN /\ h \in DOMAIN heads /\ p \notin DOMAIN tails
       /\ IF reverse[p] # {h}
          THEN /\ tails' = [tails EXCEPT ![t] = @ \ {h}]
               /\ heads' = Without(heads, h)
          ELSE /\ tails' = [tails EXCEPT ![t] = (@ \ {h}) \cup {p}]
               /\ heads' = Updated(Without(heads, h), Entry(p, t))
       /\ IndexRemove(h)

(* remove, third branch (remove_special): the lowest item, alone on its     *)
(* tail; the tail moves up to it.                                           *)
RemoveTail(h) ==
    LET p == prev[h]
        hs == tails[p]
    IN /\ h \notin DOMAIN heads /\ p \in DOMAIN tails
       /\ Cardinality(reverse[p]) <= 1
       /\ heads' = Updated(heads, [x \in hs |-> h])
       /\ tails' = Updated(Without(tails, p), Entry(h, hs))
       /\ IndexRemove(h)

(* remove, fourth branch (remove_special2): the lowest item of one branch   *)
(* of a tail; only the heads above it, hs by the is_child_of of the view,   *)
(* move up.                                                                 *)
RemoveBranch(h, hs) ==
    LET p == prev[h]
        tails1 == DropEmpty([tails EXCEPT ![p] = @ \ hs], p)
    IN /\ h \notin DOMAIN heads /\ p \in DOMAIN tails
       /\ Cardinality(reverse[p]) > 1
       /\ heads' = Updated(heads, [x \in hs |-> h])
       /\ tails' = Updated(tails1, Entry(h, hs))
       /\ IndexRemove(h)

(* remove: an item between two others is refused (NotImplementedError).     *)
remove(h) ==
    /\ h \in items
    /\ \/ RemoveLone(h)
       \/ RemoveHead(h)
       \/ RemoveTail(h)
       \/ RemoveBranch(h, {x \in tails[prev[h]] : is_child_of(h, x)})
    /\ UNCHANGED prev

Next == \E h \in Hash : add(h) \/ remove(h)

Spec == Init /\ [][Next]_vars

-----------------------------------------------------------------------------
TypeOK ==
    /\ prev \in Links
    /\ items \subseteq Hash
    /\ DOMAIN reverse \subseteq Nodes /\ \A t \in DOMAIN reverse : reverse[t] \subseteq Hash
    /\ DOMAIN heads \subseteq Hash /\ \A h \in DOMAIN heads : heads[h] \in Nodes
    /\ DOMAIN tails \subseteq Nodes /\ \A t \in DOMAIN tails : tails[t] \subseteq Hash

(* `reverse` is exactly the child relation of the items and holds no empty  *)
(* set, so `len(self.reverse[...]) <= 1` in remove counts siblings.         *)
ReverseExact ==
    /\ DOMAIN reverse = {prev[x] : x \in items}
    /\ \A t \in DOMAIN reverse : reverse[t] = ChildrenIn(items, t)

(* `heads` are the items no item builds on, each with the hash a walk from  *)
(* it ends at: what OkayTracker.think and clean_tracker iterate.            *)
HeadsExact ==
    /\ DOMAIN heads = {x \in items : ChildrenIn(items, x) = {}}
    /\ \A x \in DOMAIN heads : heads[x] = LastIn(items, x)

(* `tails` are the missing parents, each with exactly the heads that hang   *)
(* from it: what the node asks its peers for.                               *)
TailsExact ==
    /\ DOMAIN tails = {prev[x] : x \in items} \ items
    /\ \A t \in DOMAIN tails : tails[t] = {x \in DOMAIN heads : heads[x] = t}
=============================================================================
