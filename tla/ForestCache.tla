---------------------------- MODULE ForestCache ----------------------------
(***************************************************************************)
(* The tracker of Forest with the path-compressed cache its default view    *)
(* keeps (p2pool/util/forest.py: TrackerView).  A cached item holds a delta *)
(* to the head of a shared `ref`, and the ref a delta from there to a tail, *)
(* so that moving one ref moves every item that hangs from that tail.       *)
(* get_last and is_child_of are answered from the cache and every question  *)
(* rewrites it; removals repair it through the remove_special,              *)
(* remove_special2 and removed events, before the items change.             *)
(*                                                                         *)
(* A delta's work and weights add up exactly as its height does and are     *)
(* left out.  The numbers of dead refs are reused where the code's counter  *)
(* runs on.                                                                 *)
(***************************************************************************)
EXTENDS Forest, Sequences, SequencesExt

VARIABLES
    deltas,      \* _deltas: item -> [d: its delta to a ref's head, ref: the ref]
    members,     \* _reverse_deltas: ref -> the items whose delta uses it
    refs,        \* _delta_refs: ref -> the delta from its head to a tail
    refOf,       \* _reverse_delta_refs: tail -> the ref that ends there
    asserted     \* no assertion of the module has failed so far

View(ds, ms, rs, of, ok) ==
    [deltas |-> ds, members |-> ms, refs |-> rs, refOf |-> of, ok |-> ok]

view == View(deltas, members, refs, refOf, asserted)
cvars == <<vars, deltas, members, refs, refOf, asserted>>

SetView(v) ==
    /\ deltas' = v.deltas
    /\ members' = v.members
    /\ refs' = v.refs
    /\ refOf' = v.refOf
    /\ asserted' = v.ok

-----------------------------------------------------------------------------
(* AttributeDelta.                                                          *)

DeltaOf(head, tail, height) == [head |-> head, tail |-> tail, height |-> height]
get_none(x) == DeltaOf(x, x, 0)
from_element(h) == DeltaOf(h, prev[h], 1)
Plus(a, b) == DeltaOf(a.head, b.tail, a.height + b.height)
Minus(a, b) == IF a.head = b.head
               THEN DeltaOf(b.tail, a.tail, a.height - b.height)
               ELSE DeltaOf(a.head, b.head, a.height - b.height)
MinusDefined(a, b) == a.head = b.head \/ a.tail = b.tail

Asserts(v, condition) ==
    View(v.deltas, v.members, v.refs, v.refOf, v.ok /\ condition)

-----------------------------------------------------------------------------
(* TrackerView.                                                             *)

(* _get_delta: one jump, to the cached tail or to the parent.               *)
_get_delta(v, x) ==
    IF x \in DOMAIN v.deltas
    THEN Plus(v.deltas[x].d, v.refs[v.deltas[x].ref])
    ELSE from_element(x)

FreshRef(v) == CHOOSE r \in 1..(N + 1) : r \notin DOMAIN v.refs

WithRefTo(v, tail) ==
    IF tail \in DOMAIN v.refOf THEN v
    ELSE LET r == FreshRef(v)
         IN View(v.deltas, v.members, Updated(v.refs, Entry(r, get_none(tail))),
                 Updated(v.refOf, Entry(tail, r)), v.ok)

DropRef(v, r) ==
    View(v.deltas, Without(v.members, r), Without(v.refs, r),
         Without(v.refOf, v.refs[r].tail), v.ok)

(* The item stops using its ref; a ref nobody uses, other than `keep`, is   *)
(* dropped.                                                                 *)
Unuse(v, x, keep) ==
    LET r == v.deltas[x].ref
        others == v.members[r] \ {x}
    IN IF others = {} /\ r \notin keep THEN DropRef(v, r)
       ELSE View(v.deltas, [v.members EXCEPT ![r] = others], v.refs, v.refOf, v.ok)

_set_delta(v, x, delta) ==
    LET v1 == WithRefTo(v, delta.tail)
        r == v1.refOf[delta.tail]
        v2 == IF x \in DOMAIN v1.deltas THEN Unuse(v1, x, {r}) ELSE v1
        moved == [d |-> Minus(delta, v1.refs[r]), ref |-> r]
    IN Asserts(View(Updated(v2.deltas, Entry(x, moved)),
                    Updated(v2.members, Entry(r, SetAt(v2.members, r) \cup {x})),
                    v2.refs, v2.refOf, v2.ok),
               v1.refs[r].tail = delta.tail /\ MinusDefined(delta, v1.refs[r]))

(* get_delta_to_last: what it returns,                                      *)
Walk(v, x) ==
    LET delta[y \in Nodes] ==
            IF y \in items
            THEN Plus(_get_delta(v, y), delta[_get_delta(v, y).tail])
            ELSE get_none(y)
    IN delta[x]

(* the hashes it jumps from,                                                *)
Path(v, x) ==
    LET path[y \in Nodes] ==
            IF y \in items THEN <<y>> \o path[_get_delta(v, y).tail] ELSE <<>>
    IN path[x]

(* ... and what it leaves in the cache: each of them is set to point at the  *)
(* end.                                                                     *)
PointAtEnd(v, path) ==
    FoldLeft(LAMBDA w, y : _set_delta(w, y, Walk(v, y)), v, path)

AfterWalk(v, x) == PointAtEnd(v, Path(v, x))

(* The order of xs (iteration over a Python set) does not matter: a walk     *)
(* that meets an earlier one's path takes one jump to the same end.         *)
AfterWalks(v, xs) == FoldLeft(AfterWalk, v, xs)

(* is_child_of as the cached heights and lasts decide it.                   *)
ParentsOf(x, n) ==
    LET up[k \in 0..n] == IF k = 0 THEN x ELSE prev[up[k - 1]] IN up[n]

CachedChildSameTail(v, h, x) ==       \* mutant of CachedChild
    Walk(v, h).tail = Walk(v, x).tail

CachedChild(v, h, x) ==
    LET a == Walk(v, h)
        b == Walk(AfterWalk(v, h), x)
    IN /\ a.tail = b.tail
       /\ b.height >= a.height
       /\ ParentsOf(x, b.height - a.height) = h

-----------------------------------------------------------------------------
(* The view's handlers of the tracker's events.                             *)

(* The ref that ends at h's parent ends at h from now on.                   *)
MoveRef(v, h) ==
    LET r == v.refOf[prev[h]]
        moved == Minus(v.refs[r], from_element(h))
    IN Asserts(View(v.deltas, v.members, [v.refs EXCEPT ![r] = moved],
                    Updated(Without(v.refOf, prev[h]), Entry(h, r)), v.ok),
               /\ v.refs[r].tail = prev[h]
               /\ MinusDefined(v.refs[r], from_element(h)) /\ moved.tail = h)

SpecialMovesRefOnly(v, h) ==          \* mutant of _handle_remove_special:
    IF prev[h] \notin DOMAIN v.refOf      \* the children are not moved first
    THEN v
    ELSE Asserts(MoveRef(v, h), h \notin DOMAIN v.refOf)

_handle_remove_special(v, h) ==
    IF prev[h] \notin DOMAIN v.refOf THEN v
    ELSE LET hanging == IF h \in DOMAIN v.refOf
                        THEN SetAt(v.members, v.refOf[h]) ELSE {}
             v1 == AfterWalks(v, SetToSeq(hanging))
         IN Asserts(IF prev[h] \in DOMAIN v1.refOf THEN MoveRef(v1, h) ELSE v1,
                    h \notin DOMAIN v1.refOf)

Special2Ignored(v, h) == v            \* mutant of _handle_remove_special2

_handle_remove_special2(v, h) ==
    IF prev[h] \notin DOMAIN v.refOf THEN v
    ELSE LET r == v.refOf[prev[h]]
             v1 == DropRef(v, r)
         IN View(Restrict(v.deltas, DOMAIN v.deltas \ v.members[r]),
                 v1.members, v1.refs, v1.refOf, v1.ok)

_handle_removed(v, h) ==
    IF h \notin DOMAIN v.deltas THEN v
    ELSE LET v1 == Unuse(v, h, {})
         IN View(Without(v1.deltas, h), v1.members, v1.refs, v1.refOf, v1.ok)

-----------------------------------------------------------------------------
CInit ==
    /\ Init
    /\ deltas = <<>> /\ members = <<>> /\ refs = <<>> /\ refOf = <<>>
    /\ asserted = TRUE

(* add asks the view for the parent's last only when the parent is not a    *)
(* head.                                                                    *)
cached_add(h) ==
    /\ h \notin items
    /\ IndexAdd(h, Walk(view, prev[h]).tail)
    /\ SetView(IF prev[h] \in DOMAIN heads THEN view ELSE AfterWalk(view, prev[h]))
    /\ UNCHANGED prev

(* is_child_of asks for the removed item and for each head of its tail.     *)
cached_remove(h) ==
    /\ h \in items
    /\ \/ RemoveLone(h) /\ SetView(_handle_removed(view, h))
       \/ RemoveHead(h) /\ SetView(_handle_removed(view, h))
       \/ /\ RemoveTail(h)
          /\ SetView(_handle_removed(_handle_remove_special(view, h), h))
       \/ /\ RemoveBranch(h, {x \in tails[prev[h]] : CachedChild(view, h, x)})
          /\ LET asked == AfterWalks(view, <<h>> \o SetToSeq(tails[prev[h]]))
             IN SetView(_handle_removed(_handle_remove_special2(asked, h), h))
    /\ UNCHANGED prev

(* Any caller of get_height, get_last, get_work or get_height_and_last.     *)
query(x) ==
    /\ SetView(AfterWalk(view, x))
    /\ UNCHANGED vars

CNext ==
    \E h \in Hash : cached_add(h) \/ cached_remove(h) \/ query(h)

CSpec == CInit /\ [][CNext]_cvars

-----------------------------------------------------------------------------
(* None of the assertions of forest.py (a ref ends where it is filed, two   *)
(* deltas that are subtracted share an end, no ref is left on the removed   *)
(* item) fails, whatever sequence of adds, removals and questions the       *)
(* tracker has seen; and a cached delta always meets its ref, so that       *)
(* __add__ can join them.                                                   *)
AssertionsHold ==
    /\ asserted
    /\ \A x \in DOMAIN deltas :
          deltas[x].d.head = x /\ deltas[x].d.tail = refs[deltas[x].ref].head

(* Whatever the cache holds, an answer built from it is the answer of a     *)
(* full walk: the height counts the items down to the first hash that is    *)
(* not one.                                                                 *)
AnswersExact ==
    \A x \in Nodes :
       Walk(view, x) = DeltaOf(x, LastIn(items, x), HeightMap(prev, items)[x])

(* The tracker that answers from the cache is the tracker that walks.       *)
ImplementsForest == Init /\ [][Next]_vars
=============================================================================
