---------------------------- MODULE ForestProofs ----------------------------
(***************************************************************************)
(* Proofs about Forest and ForestCache: for every number of hashes and every *)
(* set of links, the indexes of the tracker are what a full walk computes,  *)
(* the cached answers are those of a full walk, no assertion of forest.py   *)
(* fails, and the tracker that answers from its cache behaves as the one    *)
(* that walks.                                                              *)
(***************************************************************************)
EXTENDS ForestCache, FiniteSetTheorems, WellFoundedInduction, TLAPS

-----------------------------------------------------------------------------
(* Extremal elements, the form of induction used below.                     *)

LEMMA LeastElement ==
    ASSUME NEW T \in SUBSET Nat, T # {}
    PROVE  \E m \in T : \A k \in T : m <= k
<1>1. IsWellFoundedOn(OpToRel(<, Nat), Nat)
  BY NatLessThanWellFounded
<1>2. PICK m \in T : \A k \in T : ~ (<<k, m>> \in OpToRel(<, Nat))
  BY <1>1, WFMin
<1>3. \A k \in T : m <= k
  <2> SUFFICES ASSUME NEW k \in T PROVE m <= k
    OBVIOUS
  <2>1. k \in Nat /\ m \in Nat
    OBVIOUS
  <2>2. ~ (k < m)
    BY <1>2, <2>1 DEF OpToRel
  <2> QED
    BY <2>1, <2>2
<1> QED
  BY <1>3

LEMMA GreatestNode ==
    ASSUME NEW T \in SUBSET Nodes, T # {}
    PROVE  \E m \in T : \A k \in T : k <= m
<1> DEFINE U == {N - t : t \in T}
<1>1. U \in SUBSET Nat /\ U # {}
  BY NAssumption DEF Nodes
<1>2. PICK u \in U : \A k \in U : u <= k
  BY <1>1, LeastElement
<1>3. PICK m \in T : u = N - m
  BY <1>2
<1>4. \A k \in T : k <= m
  <2> SUFFICES ASSUME NEW k \in T PROVE k <= m
    OBVIOUS
  <2>1. u <= N - k
    BY <1>2
  <2> QED
    BY <1>3, <2>1, NAssumption DEF Nodes
<1> QED
  BY <1>4

-----------------------------------------------------------------------------
(* The walk.                                                                *)

IsLink(f) == f \in [Hash -> Nodes] /\ \A h \in Hash : f[h] < h

(* A function that satisfies the recursion of LastMap exists: it is built   *)
(* hash by hash, a parent before its children.                              *)
LEMMA LastMapExists ==
    ASSUME NEW f, IsLink(f), NEW S \in SUBSET Hash
    PROVE  \E L \in [Nodes -> Nodes] : IsLastMap(f, S, L)
<1> DEFINE Good(n, L) ==
        /\ L \in [0..n -> 0..n]
        /\ \A x \in 0..n : L[x] = IF x \in S THEN L[f[x]] ELSE x
           Bad == {n \in Nodes : ~ \E L : Good(n, L)}
<1>1. Bad = {}
  <2> SUFFICES ASSUME Bad # {} PROVE FALSE
    OBVIOUS
  <2>1. PICK n \in Bad : \A k \in Bad : n <= k
    <3>1. Bad \in SUBSET Nat
      BY NAssumption DEF Nodes
    <3> HIDE DEF Bad
    <3> QED
      BY <3>1, LeastElement
  <2>2. n \in Nodes /\ ~ \E L : Good(n, L)
    OBVIOUS
  <2>3. CASE n = 0
    <3>1. Good(0, [x \in 0..0 |-> 0])
      BY <2>3, NAssumption DEF Hash
    <3> QED
      BY <2>2, <2>3, <3>1
  <2>4. CASE n # 0
    <3>1. n - 1 \in Nodes /\ n \in Hash
      BY <2>2, <2>4, NAssumption DEF Nodes, Hash
    <3>2. PICK L : Good(n - 1, L)
      <4>1. n - 1 \notin Bad
        <5> HIDE DEF Bad
        <5>1. n - 1 \in Bad => n <= n - 1
          BY <2>1
        <5>2. n \in Int
          BY <2>2, NAssumption DEF Nodes
        <5> QED
          BY <5>1, <5>2
      <4> QED
        BY <3>1, <4>1
    <3> DEFINE M == [x \in 0..n |-> IF x = n THEN (IF n \in S THEN L[f[n]] ELSE n) ELSE L[x]]
    <3>3. f[n] \in 0..(n - 1)
      BY <3>1, NAssumption DEF IsLink, Nodes, Hash
    <3>4. M \in [0..n -> 0..n]
      <4> SUFFICES ASSUME NEW x \in 0..n PROVE M[x] \in 0..n
        OBVIOUS
      <4>1. n \in Nat /\ \A k \in 0..(n - 1) : L[k] \in 0..(n - 1)
        BY <3>1, <3>2, NAssumption DEF Nodes
      <4>2. \A k \in 0..(n - 1) : L[k] \in 0..n
        BY <4>1
      <4>3. x # n => x \in 0..(n - 1)
        BY <4>1
      <4> QED
        BY <4>1, <4>2, <4>3, <3>3
    <3>5. \A x \in 0..n : M[x] = IF x \in S THEN M[f[x]] ELSE x
      <4> SUFFICES ASSUME NEW x \in 0..n
                   PROVE  M[x] = IF x \in S THEN M[f[x]] ELSE x
        OBVIOUS
      <4>1. CASE x = n
        BY <4>1, <3>1, <3>3, NAssumption DEF Nodes
      <4>2. CASE x # n
        <5>1. x \in 0..(n - 1)
          BY <4>2, <3>1, NAssumption DEF Nodes
        <5>2. x \in S => f[x] \in 0..(n - 1)
          BY <5>1, <3>1, NAssumption DEF IsLink, Nodes, Hash
        <5>3. L[x] = IF x \in S THEN L[f[x]] ELSE x
          BY <5>1, <3>2
        <5> QED
          BY <4>2, <5>1, <5>2, <5>3, <3>1, NAssumption DEF Nodes
      <4> QED
        BY <4>1, <4>2
    <3> QED
      BY <3>4, <3>5, <2>2
  <2> QED
    BY <2>3, <2>4
<1>2. PICK L : Good(N, L)
  <2>1. N \in Nodes
    BY NAssumption DEF Nodes
  <2> QED
    BY <1>1, <2>1
<1> QED
  BY <1>2 DEF IsLastMap, Nodes

(* What the walk does: it goes on below an item and stops elsewhere.        *)
LEMMA LastMapWalks ==
    ASSUME NEW f, IsLink(f), NEW S \in SUBSET Hash
    PROVE  /\ \A x \in S : LastMap(f, S)[x] = LastMap(f, S)[f[x]]
           /\ \A x \in Nodes \ S : LastMap(f, S)[x] = x
<1> DEFINE R(g) == [x \in Nodes |-> IF x \in S THEN g[f[x]] ELSE x]
<1>1. PICK L \in [Nodes -> Nodes] : IsLastMap(f, S, L)
  BY LastMapExists
<1>2. L = R(L)
  BY <1>1 DEF IsLastMap
<1>3. LastMap(f, S) = CHOOSE g : g = R(g)
  BY DEF LastMap
<1>4. LastMap(f, S) = R(LastMap(f, S))
  BY <1>2, <1>3
<1>5. S \subseteq Nodes
  BY NAssumption DEF Hash, Nodes
<1> QED
  BY <1>4, <1>5

LEMMA HashTypes == Nodes \subseteq Nat /\ Hash \subseteq Nodes /\ Hash \subseteq Nat
  BY NAssumption DEF Hash, Nodes

LEMMA LastInFacts ==
    ASSUME IsLink(prev), NEW S \in SUBSET Hash
    PROVE  /\ \A x \in S : /\ prev[x] \in Nodes /\ prev[x] < x
                           /\ LastIn(S, x) = LastIn(S, prev[x])
           /\ \A x \in Nodes \ S : LastIn(S, x) = x
           /\ \A x \in Nodes : LastIn(S, x) \in Nodes \ S /\ LastIn(S, x) <= x
<1>1. \A x \in S : prev[x] \in Nodes /\ prev[x] < x /\ LastIn(S, x) = LastIn(S, prev[x])
  BY LastMapWalks DEF IsLink, LastIn
<1>2. \A x \in Nodes \ S : LastIn(S, x) = x
  BY LastMapWalks DEF LastIn
<1>3. \A x \in Nodes : LastIn(S, x) \in Nodes \ S /\ LastIn(S, x) <= x
  <2> DEFINE Bad == {x \in Nodes : ~ (LastIn(S, x) \in Nodes \ S /\ LastIn(S, x) <= x)}
  <2> SUFFICES ASSUME Bad # {} PROVE FALSE
    OBVIOUS
  <2>1. Bad \in SUBSET Nat
    BY NAssumption DEF Nodes
  <2>2. PICK x \in Bad : \A k \in Bad : x <= k
    <3> HIDE DEF Bad
    <3> QED
      BY <2>1, LeastElement
  <2>3. x \in S
    BY <1>2, NAssumption DEF Nodes
  <2>4. prev[x] \notin Bad
    <3>1. prev[x] \in Int /\ x \in Int /\ prev[x] < x
      BY <1>1, <2>3, NAssumption DEF Nodes
    <3> HIDE DEF Bad
    <3> QED
      BY <2>2, <3>1
  <2>5. LastIn(S, prev[x]) \in Nodes \ S /\ LastIn(S, prev[x]) <= prev[x]
    BY <1>1, <2>3, <2>4
  <2>6. LastIn(S, x) \in Nodes \ S /\ LastIn(S, x) <= x
    BY <1>1, <2>3, <2>5, NAssumption DEF Nodes
  <2> QED
    BY <2>6
<1> QED
  BY <1>1, <1>2, <1>3

(* Adding a hash joins the walks that ended at it to the walk below it;     *)
(* read from right to left, this is what removing it does.                  *)
LEMMA LastInAdd ==
    ASSUME IsLink(prev), NEW S \in SUBSET Hash, NEW h \in Hash \ S
    PROVE  \A x \in Nodes : LastIn(S \cup {h}, x) =
              IF LastIn(S, x) = h THEN LastIn(S, prev[h]) ELSE LastIn(S, x)
<1> DEFINE T == S \cup {h}
           Joined(x) == IF LastIn(S, x) = h THEN LastIn(S, prev[h]) ELSE LastIn(S, x)
           Bad == {x \in Nodes : LastIn(T, x) # Joined(x)}
<1> SUFFICES ASSUME Bad # {} PROVE FALSE
  OBVIOUS
<1>1. PICK x \in Bad : \A k \in Bad : x <= k
  <2>1. Bad \in SUBSET Nat
    BY NAssumption DEF Nodes
  <2> HIDE DEF Bad
  <2> QED
    BY <2>1, LeastElement
<1>2. x \in Nodes /\ LastIn(T, x) # Joined(x)
  OBVIOUS
<1>3. x \in T
  <2> SUFFICES ASSUME x \notin T PROVE FALSE
    OBVIOUS
  <2>1. LastIn(T, x) = x /\ LastIn(S, x) = x
    <3>1. T \in SUBSET Hash /\ x \in Nodes \ T /\ x \in Nodes \ S
      BY <1>2
    <3> HIDE DEF T
    <3> QED
      BY <3>1, LastInFacts
  <2> QED
    BY <1>2, <2>1
<1>4. /\ prev[x] \in Nodes /\ prev[x] < x /\ x \in Nat /\ prev[x] \in Nat
      /\ LastIn(T, x) = LastIn(T, prev[x])
  BY <1>3, LastInFacts, NAssumption DEF Hash, Nodes
<1>5. LastIn(T, prev[x]) = Joined(prev[x])
  <2>1. prev[x] \notin Bad
    <3> HIDE DEF Bad
    <3> QED
      BY <1>1, <1>4
  <2> QED
    BY <1>4, <2>1
<1>6. CASE x = h
  <2>1. LastIn(S, x) = h
    BY <1>2, <1>6, LastInFacts
  <2>2. LastIn(S, prev[h]) <= prev[h] /\ LastIn(S, prev[h]) \in Nodes
    BY <1>4, <1>6, LastInFacts
  <2>3. LastIn(S, prev[h]) # h
    BY <1>4, <1>6, <2>2, NAssumption DEF Nodes
  <2> QED
    BY <1>2, <1>4, <1>5, <1>6, <2>1, <2>3
<1>7. CASE x \in S
  <2>1. LastIn(S, x) = LastIn(S, prev[x])
    BY <1>7, LastInFacts
  <2> QED
    BY <1>2, <1>4, <1>5, <2>1
<1> QED
  BY <1>3, <1>6, <1>7

(* A walk that moves at all ends right below an item.                       *)
LEMMA LastHasChild ==
    ASSUME IsLink(prev), NEW S \in SUBSET Hash
    PROVE  \A x \in S : \E c \in S : prev[c] = LastIn(S, x)
<1> DEFINE Bad == {x \in S : ~ \E c \in S : prev[c] = LastIn(S, x)}
<1> SUFFICES ASSUME Bad # {} PROVE FALSE
  OBVIOUS
<1>1. PICK x \in Bad : \A k \in Bad : x <= k
  <2>1. Bad \in SUBSET Nat
    BY HashTypes
  <2> HIDE DEF Bad
  <2> QED
    BY <2>1, LeastElement
<1>2. x \in S /\ ~ \E c \in S : prev[c] = LastIn(S, x)
  OBVIOUS
<1>3. prev[x] \in Nodes /\ prev[x] < x /\ LastIn(S, x) = LastIn(S, prev[x])
  BY <1>2, LastInFacts
<1>4. prev[x] \in S
  BY <1>2, <1>3, LastInFacts
<1>5. prev[x] \in Bad
  BY <1>2, <1>3, <1>4
<1> HIDE DEF Bad
<1>6. x \in Nat /\ prev[x] \in Nat
  <2>1. x \in Hash /\ prev[x] \in Hash
    BY <1>2, <1>4
  <2> QED
    BY <2>1, HashTypes
<1> QED
  BY <1>1, <1>3, <1>5, <1>6

Leaf(S, y) == y \in S /\ ChildrenIn(S, y) = {}

(* Every item is below some head, which ends where the item ends.           *)
LEMMA HeadAbove ==
    ASSUME IsLink(prev), NEW S \in SUBSET Hash, NEW x \in S
    PROVE  \E y \in S : Leaf(S, y) /\ LastIn(S, y) = LastIn(S, x)
<1> DEFINE Up == {y \in S : LastIn(S, y) = LastIn(S, x)}
<1>1. Up \in SUBSET Nodes /\ Up # {}
  BY HashTypes
<1>2. PICK m \in Up : \A k \in Up : k <= m
  <2> HIDE DEF Up
  <2> QED
    BY <1>1, GreatestNode
<1>3. ChildrenIn(S, m) = {}
  <2> SUFFICES ASSUME NEW c \in ChildrenIn(S, m) PROVE FALSE
    OBVIOUS
  <2>1. c \in S /\ prev[c] = m
    BY DEF ChildrenIn
  <2>2. m < c /\ LastIn(S, c) = LastIn(S, m)
    BY <2>1, LastInFacts
  <2>3. c <= m
    BY <1>2, <2>1, <2>2
  <2>4. c \in Int /\ m \in Int
    BY <2>1, NAssumption DEF Hash
  <2> QED
    BY <2>2, <2>3, <2>4
<1> QED
  BY <1>3 DEF Leaf

-----------------------------------------------------------------------------
(* The inductive invariant: the indexes are exact.                          *)

Linked == prev \in Links /\ items \subseteq Hash

IInv == Linked /\ ReverseExact /\ HeadsExact /\ TailsExact

LEMMA LinkedLinks == Linked => IsLink(prev)
  BY LinksAssumption DEF Linked, IsLink

LEMMA LinkedItems == IInv => IsLink(prev) /\ items \in SUBSET Hash
BY LinkedLinks DEF IInv, Linked

(* The types follow from what the indexes are.                              *)
LEMMA IInvTypeOK == IInv => TypeOK
<1> SUFFICES ASSUME IInv PROVE TypeOK
  OBVIOUS
<1> USE DEF IInv
<1>1. IsLink(prev) /\ items \subseteq Hash /\ prev \in Links
  BY LinkedLinks DEF Linked
<1>2. \A x \in items : prev[x] \in Nodes /\ LastIn(items, x) \in Nodes
  BY <1>1, LastInFacts, HashTypes
<1>3. DOMAIN reverse \subseteq Nodes /\ \A t \in DOMAIN reverse : reverse[t] \subseteq Hash
  BY <1>1, <1>2 DEF ReverseExact, ChildrenIn
<1>4. DOMAIN heads \subseteq Hash /\ \A h \in DOMAIN heads : heads[h] \in Nodes
  BY <1>1, <1>2 DEF HeadsExact
<1>5. DOMAIN tails \subseteq Nodes /\ \A t \in DOMAIN tails : tails[t] \subseteq Hash
  BY <1>2, <1>4 DEF TailsExact
<1> QED
  BY <1>1, <1>3, <1>4, <1>5 DEF TypeOK

LEMMA InitIInv == Init => IInv
<1> SUFFICES ASSUME Init PROVE IInv
  OBVIOUS
<1>1. DOMAIN <<>> = {}
  OBVIOUS
<1> QED
  BY <1>1 DEF Init, IInv, Linked, ReverseExact, HeadsExact, TailsExact, ChildrenIn

(* The last of a parent that is a head is in the index; of any other it is  *)
(* what the view answers.                                                   *)
LEMMA AddIInv ==
    ASSUME IInv, NEW h \in Hash, add(h)
    PROVE  IInv'
<1> USE DEF IInv
<1> DEFINE p == prev[h]
           S == items
           T == items \cup {h}
           hs == IF h \in DOMAIN tails THEN tails[h] ELSE {h}
           tail == LastIn(S, p)
<1>1. /\ IsLink(prev) /\ S \in SUBSET Hash /\ h \in Hash \ S
      /\ prev' = prev /\ items' = T /\ prev \in Links
  BY LinkedLinks DEF Linked, add, IndexAdd
<1>2. Linked'
  BY <1>1 DEF Linked
<1>3. p \in Nodes /\ p < h /\ h \in Nat /\ p \in Nat
  BY <1>1, HashTypes DEF IsLink
<1>4. tail \in Nodes \ S /\ tail <= p /\ tail # h
  <2>1. tail \in Nodes \ S /\ tail <= p
    BY <1>1, <1>3, LastInFacts
  <2> QED
    BY <2>1, <1>3, HashTypes
<1>5. (IF p \in DOMAIN heads THEN heads[p] ELSE get_last(p)) = tail
  BY DEF HeadsExact, get_last
<1>6. \A x \in Nodes : LastIn(T, x) = IF LastIn(S, x) = h THEN tail ELSE LastIn(S, x)
  BY <1>1, LastInAdd
<1>7. \A t : ChildrenIn(T, t) = IF t = p THEN ChildrenIn(S, t) \cup {h} ELSE ChildrenIn(S, t)
  BY DEF ChildrenIn
<1>8. ReverseExact'
  <2>1. reverse' = Updated(reverse, Entry(p, SetAt(reverse, p) \cup {h}))
    BY DEF add, IndexAdd
  <2>2. ReverseExact
    OBVIOUS
  <2>3. DOMAIN reverse' = DOMAIN reverse \cup {p}
    BY <2>1 DEF Updated, Entry
  <2>4. \A t \in DOMAIN reverse' : reverse'[t] = ChildrenIn(T, t)
    BY <1>7, <2>1, <2>2 DEF Updated, Entry, SetAt, ReverseExact, ChildrenIn
  <2>5. {prev[x] : x \in T} = {prev[x] : x \in S} \cup {p}
    OBVIOUS
  <2> QED
    BY <1>1, <2>2, <2>3, <2>4, <2>5 DEF ReverseExact, ChildrenIn
(* The heads that hang from h, or h itself.                                 *)
<1>9. hs = {x \in DOMAIN heads \cup {h} : Leaf(T, x) /\ LastIn(S, x) = h}
  <2>1. \A x \in DOMAIN heads : x \in S /\ ChildrenIn(S, x) = {} /\ heads[x] = LastIn(S, x)
    BY DEF HeadsExact
  <2>2. CASE h \in DOMAIN tails
    <3>1. hs = {x \in DOMAIN heads : heads[x] = h}
      BY <2>2 DEF TailsExact
    <3>2. ~ Leaf(T, h)
      BY <2>2, <1>1 DEF TailsExact, Leaf, ChildrenIn
    <3>3. p \notin hs
      BY <1>4, <2>1, <3>1
    <3>4. \A x \in hs : Leaf(T, x)
      BY <1>7, <2>1, <3>1, <3>3 DEF Leaf
    <3> QED
      BY <2>1, <3>1, <3>2, <3>4
  <2>3. CASE h \notin DOMAIN tails
    <3>1. hs = {h}
      BY <2>3
    <3>2. ChildrenIn(S, h) = {}
      BY <2>3, <1>1 DEF TailsExact, ChildrenIn
    <3>3. \A x \in S : LastIn(S, x) # h
      BY <1>1, <3>2, LastHasChild DEF ChildrenIn
    <3>4. Leaf(T, h) /\ LastIn(S, h) = h
      <4>1. LastIn(S, h) = h
        BY <1>1, LastInFacts, HashTypes
      <4>2. p # h
        BY <1>3
      <4>3. ChildrenIn(T, h) = {}
        BY <4>2, <1>7, <3>2
      <4> QED
        BY <4>1, <4>3 DEF Leaf
    <3> QED
      BY <2>1, <3>1, <3>3, <3>4
  <2> QED
    BY <2>2, <2>3
<1>10. heads' = Updated(Without(heads, p), [x \in hs |-> tail])
  BY <1>5 DEF add, IndexAdd
<1> HIDE DEF tail
<1>11. HeadsExact'
  <2>1. DOMAIN heads' = (DOMAIN heads \ {p}) \cup hs
    BY <1>10 DEF Updated, Without, Restrict
  <2>2. {x \in T : Leaf(T, x)} = (DOMAIN heads \ {p}) \cup hs
    <3>1. \A x \in S : Leaf(T, x) <=> x \in DOMAIN heads /\ x # p
      BY <1>7 DEF Leaf, HeadsExact
    <3>2. Leaf(T, h) => h \in hs
      BY <1>1, <1>9, LastInFacts, HashTypes
    <3>3. \A x \in hs : x \in T /\ Leaf(T, x)
      BY <1>9 DEF Leaf
    <3> HIDE DEF hs
    <3> QED
      BY <3>1, <3>2, <3>3 DEF HeadsExact
  <2>3. \A x \in DOMAIN heads' : heads'[x] = LastIn(T, x)
    <3> SUFFICES ASSUME NEW x \in DOMAIN heads' PROVE heads'[x] = LastIn(T, x)
      OBVIOUS
    <3>1. x \in T /\ Leaf(T, x) /\ x \in Nodes
      BY <1>1, <2>1, <2>2, HashTypes
    <3>2. CASE x \in hs
      <4>1. heads'[x] = tail
        BY <3>2, <1>10 DEF Updated
      <4> QED
        BY <4>1, <3>1, <3>2, <1>6, <1>9
    <3>3. CASE x \notin hs
      <4>1. x \in DOMAIN heads /\ heads'[x] = heads[x]
        BY <3>3, <2>1, <1>10 DEF Updated, Without, Restrict
      <4>2. heads[x] = LastIn(S, x) /\ LastIn(S, x) # h
        BY <4>1, <3>1, <3>3, <1>9 DEF HeadsExact
      <4> QED
        BY <3>1, <4>1, <4>2, <1>6
    <3> QED
      BY <3>2, <3>3
  <2>5. DOMAIN heads' = {x \in T : {y \in T : prev[y] = x} = {}}
    BY <2>1, <2>2 DEF Leaf, ChildrenIn
  <2> QED
    <3>1. \A x : LastIn(items, x)' = LastIn(T, x)
      BY <1>1 DEF LastIn, LastMap
    <3>2. \A x : ChildrenIn(items, x)' = {y \in T : prev[y] = x}
      BY <1>1 DEF ChildrenIn
    <3> QED
      BY <1>1, <2>3, <2>5, <3>1, <3>2 DEF HeadsExact
<1>12. tails' = Updated(Without(tails, h),
                        Entry(tail, (SetAt(Without(tails, h), tail) \cup hs) \ {p}))
  BY <1>5 DEF add, IndexAdd, tail
<1>13. TailsExact'
  <2>1. DOMAIN tails' = (DOMAIN tails \ {h}) \cup {tail}
    BY <1>12 DEF Updated, Without, Restrict, Entry
  <2>2. tail \in {prev[x] : x \in T} \ T
    <3>1. CASE p \in S
      BY <3>1, <1>1, <1>4, LastHasChild DEF tail
    <3>2. CASE p \notin S
      BY <3>2, <1>1, <1>3, <1>4, LastInFacts DEF tail
    <3> QED
      BY <3>1, <3>2
  <2>3. p \in S \/ p = tail
    BY <1>1, <1>3, LastInFacts DEF tail
  <2>4. DOMAIN tails' = {prev[x] : x \in T} \ T
    BY <2>1, <2>2, <2>3 DEF TailsExact
  <2>5. \A x \in DOMAIN heads' : heads'[x] = IF x \in hs THEN tail ELSE heads[x]
    BY <1>10 DEF Updated, Without, Restrict
  <2>6. DOMAIN heads' = (DOMAIN heads \ {p}) \cup hs
    BY <1>10 DEF Updated, Without, Restrict
  <2>7. p \notin hs
    BY <1>1, <1>3, <1>7, <1>9 DEF Leaf, ChildrenIn
  <2>8. p \in DOMAIN heads => heads[p] = tail
    BY DEF HeadsExact, tail
  <2>9. SetAt(Without(tails, h), tail) = {x \in DOMAIN heads : heads[x] = tail}
    <3>1. CASE tail \in DOMAIN tails
      BY <3>1, <1>4 DEF SetAt, Without, Restrict, TailsExact
    <3>2. CASE tail \notin DOMAIN tails
      <4>1. \A x \in DOMAIN heads : heads[x] \in DOMAIN tails
        <5> SUFFICES ASSUME NEW x \in DOMAIN heads PROVE heads[x] \in DOMAIN tails
          OBVIOUS
        <5>1. x \in S /\ x \in Nodes /\ heads[x] = LastIn(S, x)
          BY <1>1, HashTypes DEF HeadsExact
        <5>2. heads[x] \notin S /\ \E c \in S : prev[c] = heads[x]
          BY <5>1, <1>1, LastInFacts, LastHasChild
        <5> QED
          BY <5>2 DEF TailsExact
      <4> QED
        BY <3>2, <4>1 DEF SetAt, Without, Restrict
    <3> QED
      BY <3>1, <3>2
  <2>10. \A t \in DOMAIN tails' : tails'[t] = {x \in DOMAIN heads' : heads'[x] = t}
    <3> HIDE DEF hs, p
    <3> SUFFICES ASSUME NEW t \in DOMAIN tails'
                 PROVE  tails'[t] = {x \in DOMAIN heads' : heads'[x] = t}
      OBVIOUS
    <3>1. CASE t = tail
      <4>1. tails'[t] = ({x \in DOMAIN heads : heads[x] = tail} \cup hs) \ {p}
        BY <3>1, <1>12, <2>9 DEF Updated, Entry
      <4> QED
        BY <3>1, <4>1, <2>5, <2>6, <2>7
    <3>2. CASE t # tail
      <4>1. t \in DOMAIN tails /\ tails'[t] = tails[t]
        BY <3>2, <1>12, <2>1 DEF Updated, Entry, Without, Restrict
      <4>2. tails'[t] = {x \in DOMAIN heads : heads[x] = t}
        BY <4>1 DEF TailsExact
      <4>3. \A x \in DOMAIN heads : heads[x] = t => x \notin hs
        <5> SUFFICES ASSUME NEW x \in DOMAIN heads, heads[x] = t, x \in hs PROVE FALSE
          OBVIOUS
        <5>1. t = h
          BY <1>1, <1>9 DEF HeadsExact
        <5> QED
          BY <5>1, <2>1, <3>2
      <4> QED
        BY <3>2, <4>2, <4>3, <2>5, <2>6, <2>7, <2>8
    <3> QED
      BY <3>1, <3>2
  <2> QED
    BY <1>1, <2>4, <2>10 DEF TailsExact
<1> QED
  BY <1>2, <1>8, <1>11, <1>13

(* What every branch of remove leaves: the items lose h, `reverse` follows, *)
(* and a walk that used to pass h now ends there.                           *)
LEMMA RemoveCommon ==
    ASSUME IInv, NEW h \in items, IndexRemove(h), UNCHANGED prev
    PROVE  LET S == items
               T == items \ {h}
               p == prev[h]
           IN /\ Linked' /\ ReverseExact'
              /\ IsLink(prev) /\ S \in SUBSET Hash /\ T \in SUBSET Hash
              /\ h \in Hash /\ p \in Nodes /\ p # h
              /\ \A t : ChildrenIn(T, t) = ChildrenIn(S, t) \ {h}
              /\ \A x \in Nodes : LastIn(S, x) =
                    IF LastIn(T, x) = h THEN LastIn(T, p) ELSE LastIn(T, x)
              /\ \A x \in T : x \in Nodes /\ x \in S
              /\ \A x : LastIn(items, x)' = LastIn(T, x)
              /\ \A x : ChildrenIn(items, x)' = ChildrenIn(T, x)
<1> USE DEF IInv
<1> DEFINE S == items
           T == items \ {h}
           p == prev[h]
<1>1. /\ IsLink(prev) /\ S \in SUBSET Hash /\ T \in SUBSET Hash /\ h \in Hash
      /\ items' = T /\ prev' = prev /\ prev \in Links
  BY LinkedLinks DEF Linked, IndexRemove
<1>2. p \in Nodes /\ p # h
  <2>1. p \in Nodes /\ p < h /\ h \in Nat
    BY <1>1, HashTypes DEF IsLink
  <2> QED
    BY <2>1, HashTypes
<1>3. \A t : ChildrenIn(T, t) = ChildrenIn(S, t) \ {h}
  BY DEF ChildrenIn
<1>4. \A x \in Nodes : LastIn(S, x) =
         IF LastIn(T, x) = h THEN LastIn(T, p) ELSE LastIn(T, x)
  <2>1. h \in Hash \ T /\ S = T \cup {h}
    BY <1>1
  <2> HIDE DEF S, T
  <2> QED
    BY <1>1, <2>1, LastInAdd
<1>5. \A x : LastIn(items, x)' = LastIn(T, x)
  BY <1>1 DEF LastIn, LastMap
<1>6. \A x : ChildrenIn(items, x)' = ChildrenIn(T, x)
  BY <1>1 DEF ChildrenIn
<1>7. ReverseExact'
  <2> DEFINE r1 == [reverse EXCEPT ![p] = @ \ {h}]
  <2>1. ReverseExact /\ p \in DOMAIN reverse
    BY <1>1 DEF ReverseExact
  <2>2. reverse' = DropEmpty(r1, p)
    BY DEF IndexRemove
  <2>3. DOMAIN r1 = DOMAIN reverse
    OBVIOUS
  <2>4. \A t \in DOMAIN r1 : r1[t] = ChildrenIn(T, t)
    BY <1>3, <2>1 DEF ReverseExact, ChildrenIn
  <2>5. {prev[x] : x \in T} = {t \in DOMAIN r1 : r1[t] # {}}
    <3>1. \A x \in T : prev[x] \in DOMAIN r1
      BY <2>1, <2>3 DEF ReverseExact
    <3> QED
      BY <2>4, <3>1 DEF ChildrenIn
  <2>6. \A t \in DOMAIN r1 : t # p => r1[t] # {}
    BY <2>1, <2>3 DEF ReverseExact, ChildrenIn
  <2>7. /\ DOMAIN reverse' = {t \in DOMAIN r1 : r1[t] # {}}
        /\ \A t \in DOMAIN reverse' : reverse'[t] = r1[t]
    <3> HIDE DEF r1
    <3>1. CASE r1[p] = {}
      BY <3>1, <2>1, <2>2, <2>3, <2>6 DEF DropEmpty, Without, Restrict
    <3>2. CASE r1[p] # {}
      BY <3>2, <2>1, <2>2, <2>3, <2>6 DEF DropEmpty
    <3> QED
      BY <3>1, <3>2
  <2>8. DOMAIN reverse' = {prev'[x] : x \in items'}
    BY <1>1, <2>5, <2>7
  <2>9. \A t \in DOMAIN reverse' : reverse'[t] = ChildrenIn(T, t)
    BY <2>4, <2>7
  <2> HIDE DEF r1, T
  <2> QED
    BY <1>6, <2>8, <2>9 DEF ReverseExact
<1>8. Linked'
  BY <1>1 DEF Linked
<1>9. \A x \in T : x \in Nodes /\ x \in S
  BY <1>1, HashTypes
<1> QED
  BY <1>1, <1>2, <1>3, <1>4, <1>5, <1>6, <1>7, <1>8, <1>9

(* Every head ends at a tail of the index.                                  *)
LEMMA HeadTails ==
    ASSUME IInv
    PROVE  \A x \in DOMAIN heads : heads[x] \in DOMAIN tails
<1> SUFFICES ASSUME NEW x \in DOMAIN heads PROVE heads[x] \in DOMAIN tails
  OBVIOUS
<1>1. IsLink(prev) /\ items \in SUBSET Hash
  BY LinkedLinks DEF IInv, Linked
<1>2. x \in items /\ x \in Nodes /\ heads[x] = LastIn(items, x)
  BY <1>1, HashTypes DEF IInv, HeadsExact
<1>3. heads[x] \notin items
  BY <1>1, <1>2, LastInFacts
<1>4. PICK c \in items : prev[c] = heads[x]
  BY <1>1, <1>2, LastHasChild
<1> QED
  BY <1>3, <1>4 DEF IInv, TailsExact

(* The removal of a head moves no other walk.                               *)
LEMMA RemoveLeaf ==
    ASSUME IInv, NEW h \in DOMAIN heads, IndexRemove(h), UNCHANGED prev
    PROVE  /\ h \in items
           /\ \A x \in items \ {h} : LastIn(items \ {h}, x) = LastIn(items, x)
           /\ heads[h] = LastIn(items, prev[h])
           /\ \A x \in items : prev[x] # h
<1> DEFINE T == items \ {h}
<1>1. h \in items /\ ChildrenIn(items, h) = {} /\ heads[h] = LastIn(items, h)
  BY DEF IInv, HeadsExact
<1>2. /\ IsLink(prev) /\ T \in SUBSET Hash /\ items \in SUBSET Hash
      /\ \A x \in T : x \in Nodes
      /\ \A x \in Nodes : LastIn(items, x) =
            IF LastIn(T, x) = h THEN LastIn(T, prev[h]) ELSE LastIn(T, x)
  BY <1>1, RemoveCommon
<1>3. \A x \in items : prev[x] # h
  BY <1>1 DEF ChildrenIn
<1>4. \A x \in T : LastIn(T, x) # h
  <2> HIDE DEF T
  <2>1. \A x \in T : \E c \in T : prev[c] = LastIn(T, x)
    BY <1>2, LastHasChild
  <2> QED
    BY <1>3, <2>1 DEF T
<1>5. heads[h] = LastIn(items, prev[h])
  BY <1>1, <1>2, LastInFacts
<1> QED
  BY <1>1, <1>2, <1>3, <1>4, <1>5

LEMMA RemoveLoneIInv ==
    ASSUME IInv, NEW h \in items, RemoveLone(h), UNCHANGED prev
    PROVE  IInv'
<1> DEFINE S == items
           T == items \ {h}
           p == prev[h]
           tails1 == [tails EXCEPT ![heads[h]] = @ \ {h}]
<1>1. /\ h \in DOMAIN heads /\ p \in DOMAIN tails /\ IndexRemove(h)
      /\ heads' = Without(heads, h) /\ tails' = DropEmpty(tails1, p)
  BY DEF RemoveLone
<1>2. /\ Linked' /\ ReverseExact' /\ items' = T /\ prev' = prev
      /\ IsLink(prev) /\ S \in SUBSET Hash /\ T \in SUBSET Hash /\ p \in Nodes
      /\ \A t : ChildrenIn(T, t) = ChildrenIn(S, t) \ {h}
      /\ \A x : LastIn(items, x)' = LastIn(T, x)
      /\ \A x : ChildrenIn(items, x)' = ChildrenIn(T, x)
  BY <1>1, RemoveCommon DEF IndexRemove
<1>3. /\ \A x \in T : LastIn(T, x) = LastIn(S, x)
      /\ heads[h] = LastIn(S, p) /\ \A x \in S : prev[x] # h
  BY <1>1, RemoveLeaf
<1>4. p \notin S /\ heads[h] = p
  BY <1>1, <1>2, <1>3, LastInFacts DEF IInv, TailsExact
<1>5. HeadsExact /\ TailsExact
  BY DEF IInv
<1>6. DOMAIN heads' = {x \in T : ChildrenIn(T, x) = {}}
  <2>1. \A x \in T : ChildrenIn(T, x) = ChildrenIn(S, x)
    BY <1>2, <1>4 DEF ChildrenIn
  <2> QED
    BY <1>1, <1>5, <2>1 DEF HeadsExact, Without, Restrict
<1>7. \A x \in DOMAIN heads' : heads'[x] = heads[x] /\ heads[x] = LastIn(T, x)
  BY <1>1, <1>3, <1>5, <1>6 DEF HeadsExact, Without, Restrict
<1>8. HeadsExact'
  <2> HIDE DEF T
  <2> QED
    BY <1>2, <1>6, <1>7 DEF HeadsExact
<1>9. \A t \in DOMAIN tails : tails1[t] = {x \in DOMAIN heads' : heads'[x] = t}
  BY <1>1, <1>4, <1>5, <1>7 DEF TailsExact, Without, Restrict
<1>10. tails1[p] = {} <=> ~ \E c \in T : prev[c] = p
  <2>1. ASSUME NEW c \in T, prev[c] = p PROVE tails1[p] # {}
    <3>1. LastIn(T, c) = p
      BY <2>1, <1>2, <1>4, LastInFacts
    <3>2. PICK y \in T : Leaf(T, y) /\ LastIn(T, y) = p
      <4> HIDE DEF T
      <4> QED
        BY <1>2, <3>1, HeadAbove
    <3>3. y \in DOMAIN heads' /\ heads'[y] = p
      BY <1>6, <1>7, <3>2 DEF Leaf
    <3>4. y \in tails1[p]
      <4> HIDE DEF tails1
      <4> QED
        BY <1>1, <1>9, <3>3
    <3> QED
      BY <3>4
  <2>2. ASSUME NEW x \in tails1[p] PROVE \E c \in T : prev[c] = p
    <3>1. x \in T /\ LastIn(T, x) = p
      BY <1>1, <1>6, <1>7, <1>9
    <3> HIDE DEF T
    <3> QED
      BY <1>2, <3>1, LastHasChild
  <2> QED
    BY <2>1, <2>2
<1>11. DOMAIN tails' = {prev[x] : x \in T} \ T
  <2>1. DOMAIN tails1 = DOMAIN tails
    OBVIOUS
  <2>2. DOMAIN tails' = IF tails1[p] = {} THEN DOMAIN tails \ {p} ELSE DOMAIN tails
    BY <1>1, <2>1 DEF DropEmpty, Without, Restrict
  <2>3. {prev[x] : x \in T} \ T =
           IF \E c \in T : prev[c] = p THEN DOMAIN tails ELSE DOMAIN tails \ {p}
    BY <1>3, <1>4, <1>5 DEF TailsExact
  <2> QED
    BY <1>10, <2>2, <2>3
<1>12. \A t \in DOMAIN tails' : tails'[t] = tails1[t] /\ t \in DOMAIN tails
  BY <1>1 DEF DropEmpty, Without, Restrict
<1>13. TailsExact'
  <2> HIDE DEF tails1
  <2> QED
    BY <1>2, <1>9, <1>11, <1>12 DEF TailsExact
<1> QED
  BY <1>2, <1>8, <1>13 DEF IInv

LEMMA RemoveHeadIInv ==
    ASSUME IInv, NEW h \in items, RemoveHead(h), UNCHANGED prev
    PROVE  IInv'
<1> DEFINE S == items
           T == items \ {h}
           p == prev[h]
           t == heads[h]
           only == reverse[p] = {h}
           kept == (DOMAIN heads \ {h}) \cup (IF only THEN {p} ELSE {})
<1>1. h \in DOMAIN heads /\ p \notin DOMAIN tails /\ IndexRemove(h)
  BY DEF RemoveHead
<1>2. /\ Linked' /\ ReverseExact' /\ items' = T /\ prev' = prev
      /\ IsLink(prev) /\ S \in SUBSET Hash /\ T \in SUBSET Hash /\ p \in Nodes /\ p # h
      /\ \A x : ChildrenIn(T, x) = ChildrenIn(S, x) \ {h}
      /\ \A x : LastIn(items, x)' = LastIn(T, x)
      /\ \A x : ChildrenIn(items, x)' = ChildrenIn(T, x)
  BY <1>1, RemoveCommon DEF IndexRemove
<1>3. /\ \A x \in T : LastIn(T, x) = LastIn(S, x)
      /\ heads[h] = LastIn(S, p) /\ \A x \in S : prev[x] # h
  BY <1>1, RemoveLeaf
<1>4. HeadsExact /\ TailsExact /\ ReverseExact
  BY DEF IInv
(* The parent is an item: otherwise it would be a tail.                     *)
<1>5. p \in T
  BY <1>1, <1>2, <1>4 DEF TailsExact
<1>6. only <=> ChildrenIn(T, p) = {}
  <2>1. p \in DOMAIN reverse /\ reverse[p] = ChildrenIn(S, p) /\ h \in ChildrenIn(S, p)
    BY <1>4 DEF ReverseExact, ChildrenIn
  <2>2. ChildrenIn(T, p) = ChildrenIn(S, p) \ {h}
    BY <1>2
  <2> QED
    BY <2>1, <2>2
<1>7. p \notin DOMAIN heads
  BY <1>4 DEF HeadsExact, ChildrenIn
<1>8. t \in DOMAIN tails
  BY <1>1, HeadTails
<1>9. /\ DOMAIN heads' = kept
      /\ \A x \in kept : heads'[x] = IF x = p THEN t ELSE heads[x]
  <2>1. CASE only
    <3>1. heads' = Updated(Without(heads, h), Entry(p, t))
      BY <2>1 DEF RemoveHead
    <3> QED
      BY <2>1, <3>1 DEF Updated, Without, Restrict, Entry
  <2>2. CASE ~ only
    <3>1. heads' = Without(heads, h)
      BY <2>2 DEF RemoveHead
    <3> QED
      BY <2>2, <3>1, <1>7 DEF Without, Restrict
  <2> QED
    BY <2>1, <2>2
<1>10. kept = {x \in T : ChildrenIn(T, x) = {}}
  <2>1. \A x \in T : x # p => ChildrenIn(T, x) = ChildrenIn(S, x)
    BY <1>2 DEF ChildrenIn
  <2>2. \A x \in T : x # p => (x \in DOMAIN heads <=> ChildrenIn(T, x) = {})
    BY <1>4, <2>1 DEF HeadsExact
  <2>3. DOMAIN heads \subseteq S
    BY <1>4 DEF HeadsExact
  <2> HIDE DEF only
  <2> QED
    BY <1>5, <1>6, <1>7, <2>2, <2>3
<1> HIDE DEF only, kept
<1>11. \A x \in kept : heads'[x] = LastIn(T, x)
  <2>1. \A x \in kept : x \in T /\ (x = p \/ x \in DOMAIN heads)
    BY <1>10 DEF kept
  <2>2. LastIn(T, p) = t
    BY <1>3, <1>5
  <2> QED
    BY <1>3, <1>4, <1>9, <2>1, <2>2 DEF HeadsExact
<1>12. HeadsExact'
  <2> HIDE DEF T
  <2> QED
    BY <1>2, <1>9, <1>10, <1>11 DEF HeadsExact
<1>13. /\ DOMAIN tails' = DOMAIN tails
       /\ \A u \in DOMAIN tails : u # t => tails'[u] = tails[u]
       /\ tails'[t] = (tails[t] \ {h}) \cup (IF only THEN {p} ELSE {})
  BY <1>8 DEF RemoveHead, only
<1>14. DOMAIN tails' = {prev[x] : x \in T} \ T
  <2>1. DOMAIN tails = {prev[x] : x \in S} \ S
    BY <1>4 DEF TailsExact
  <2> QED
    BY <1>3, <1>5, <1>13, <2>1
<1>15. \A u \in DOMAIN tails' : tails'[u] = {x \in DOMAIN heads' : heads'[x] = u}
  <2> SUFFICES ASSUME NEW u \in DOMAIN tails
               PROVE  tails'[u] = {x \in kept : heads'[x] = u}
    BY <1>9, <1>13
  <2>1. tails[u] = {x \in DOMAIN heads : heads[x] = u}
    BY <1>4 DEF TailsExact
  <2>2. kept = (DOMAIN heads \ {h}) \cup (IF only THEN {p} ELSE {})
    BY DEF kept
  <2>3. CASE u = t
    BY <2>1, <2>2, <2>3, <1>7, <1>9, <1>13
  <2>4. CASE u # t
    BY <2>1, <2>2, <2>4, <1>7, <1>9, <1>13
  <2> QED
    BY <2>3, <2>4
<1>16. TailsExact'
  <2> HIDE DEF T
  <2> QED
    BY <1>2, <1>14, <1>15 DEF TailsExact
<1> QED
  BY <1>2, <1>12, <1>16 DEF IInv

(* The two branches that remove the lowest item of a chain move to it       *)
(* exactly the heads whose walk passed it; one lemma covers both.           *)
LEMMA RemoveLowestIInv ==
    ASSUME IInv, NEW h \in items, IndexRemove(h), UNCHANGED prev,
           h \notin DOMAIN heads, prev[h] \in DOMAIN tails,
           NEW hs, hs = {x \in DOMAIN heads : LastIn(items \ {h}, x) = h},
           heads' = Updated(heads, [x \in hs |-> h]),
           NEW other, other <=> \E c \in items \ {h} : prev[c] = prev[h],
           DOMAIN tails' = (DOMAIN tails \ (IF other THEN {} ELSE {prev[h]})) \cup {h},
           tails'[h] = hs,
           other => tails'[prev[h]] = tails[prev[h]] \ hs,
           \A u \in DOMAIN tails \ {prev[h]} : tails'[u] = tails[u]
    PROVE  IInv'
<1> DEFINE S == items
           T == items \ {h}
           p == prev[h]
<1>1. /\ Linked' /\ ReverseExact' /\ items' = T /\ prev' = prev
      /\ IsLink(prev) /\ S \in SUBSET Hash /\ T \in SUBSET Hash /\ p \in Nodes /\ p # h
      /\ \A x : ChildrenIn(T, x) = ChildrenIn(S, x) \ {h}
      /\ \A x \in T : x \in Nodes /\ x \in S
      /\ \A x \in Nodes : LastIn(S, x) =
            IF LastIn(T, x) = h THEN LastIn(T, p) ELSE LastIn(T, x)
      /\ \A x : LastIn(items, x)' = LastIn(T, x)
      /\ \A x : ChildrenIn(items, x)' = ChildrenIn(T, x)
  BY RemoveCommon DEF IndexRemove
<1>2. HeadsExact /\ TailsExact
  BY DEF IInv
<1>3. p \notin S /\ LastIn(T, p) = p
  <2>1. p \notin S
    BY <1>2 DEF TailsExact
  <2> HIDE DEF T
  <2>2. p \in Nodes \ T
    BY <1>1, <2>1
  <2> QED
    BY <1>1, <2>1, <2>2, LastInFacts
<1>4. PICK c \in T : prev[c] = h
  BY <1>1, <1>2 DEF HeadsExact, ChildrenIn
<1>5. \A x \in DOMAIN heads : /\ x \in T /\ x \in Nodes
                              /\ heads[x] = IF x \in hs THEN p ELSE LastIn(T, x)
  <2>1. \A x \in DOMAIN heads : x \in T /\ x \in Nodes /\ heads[x] = LastIn(S, x)
    BY <1>1, <1>2 DEF HeadsExact
  <2> QED
    BY <1>1, <1>3, <2>1
<1>6. DOMAIN heads' = DOMAIN heads
  BY DEF Updated
<1>7. \A x \in DOMAIN heads : heads'[x] = IF x \in hs THEN h ELSE heads[x]
  BY DEF Updated
<1>8. HeadsExact'
  <2>1. \A x \in T : ChildrenIn(T, x) = ChildrenIn(S, x)
    BY <1>1, <1>3 DEF ChildrenIn
  <2>2. DOMAIN heads' = {x \in T : ChildrenIn(T, x) = {}}
    BY <1>2, <1>6, <2>1 DEF HeadsExact
  <2>3. \A x \in DOMAIN heads' : heads'[x] = LastIn(T, x)
    BY <1>5, <1>6, <1>7
  <2>4. items' = T /\ \A x : /\ LastIn(items, x)' = LastIn(T, x)
                              /\ ChildrenIn(items, x)' = ChildrenIn(T, x)
    BY <1>1
  <2>5. DOMAIN heads' = {x \in items' : ChildrenIn(items, x)' = {}}
    BY <2>2, <2>4
  <2>6. \A x \in DOMAIN heads' : heads'[x] = LastIn(items, x)'
    BY <2>3, <2>4
  <2> QED
    BY <2>5, <2>6 DEF HeadsExact
<1>9. h \notin DOMAIN tails
  BY <1>2 DEF TailsExact
<1>10. DOMAIN tails' = {prev[x] : x \in T} \ T
  <2>1. DOMAIN tails = {prev[x] : x \in S} \ S
    BY <1>2 DEF TailsExact
  <2> QED
    BY <1>3, <1>4, <2>1
<1>11. \A u \in DOMAIN tails' : tails'[u] = {x \in DOMAIN heads' : heads'[x] = u}
  <2> SUFFICES ASSUME NEW u \in DOMAIN tails'
               PROVE  tails'[u] = {x \in DOMAIN heads : heads'[x] = u}
    BY <1>6
  <2>1. \A x \in DOMAIN heads : heads[x] # h
    BY <1>9, HeadTails
  <2>2. \A x \in hs : heads[x] = p /\ x \in DOMAIN heads
    BY <1>5
  <2>3. CASE u = h
    BY <2>1, <2>2, <2>3, <1>7
  <2>4. CASE u = p
    <3>1. tails'[u] = tails[p] \ hs
      BY <2>4, <1>1
    <3>2. tails[p] = {x \in DOMAIN heads : heads[x] = p}
      BY <1>2 DEF TailsExact
    <3> QED
      BY <2>4, <3>1, <3>2, <1>1, <1>7
  <2>5. CASE u # h /\ u # p
    <3>1. tails'[u] = {x \in DOMAIN heads : heads[x] = u}
      BY <2>5, <1>2 DEF TailsExact
    <3> QED
      BY <2>2, <2>5, <3>1, <1>7
  <2> QED
    BY <2>3, <2>4, <2>5
<1>12. TailsExact'
  <2>1. DOMAIN tails' = {prev'[x] : x \in items'} \ items'
    BY <1>1, <1>10
  <2> QED
    BY <1>11, <2>1 DEF TailsExact
<1> QED
  BY <1>1, <1>8, <1>12 DEF IInv

(* Which heads pass the lowest item, and whether its tail keeps others.     *)
LEMMA HeadsThrough ==
    ASSUME IInv, NEW h \in items, IndexRemove(h), UNCHANGED prev,
           prev[h] \in DOMAIN tails, h \notin DOMAIN heads
    PROVE  /\ tails[prev[h]] = {x \in DOMAIN heads : heads[x] = prev[h]}
           /\ \A x \in DOMAIN heads :
                 LastIn(items \ {h}, x) = h => heads[x] = prev[h]
           /\ \A x \in DOMAIN heads :
                 (heads[x] = prev[h] /\ LastIn(items \ {h}, x) # h)
                 => \E c \in items \ {h} : prev[c] = prev[h]
           /\ (\E c \in items \ {h} : prev[c] = prev[h])
              => \E x \in DOMAIN heads :
                    heads[x] = prev[h] /\ LastIn(items \ {h}, x) # h
<1> DEFINE S == items
           T == items \ {h}
           p == prev[h]
<1>1. /\ IsLink(prev) /\ S \in SUBSET Hash /\ T \in SUBSET Hash /\ p \in Nodes /\ p # h
      /\ \A x \in T : x \in Nodes /\ x \in S
      /\ \A x \in Nodes : LastIn(S, x) =
            IF LastIn(T, x) = h THEN LastIn(T, p) ELSE LastIn(T, x)
      /\ \A x : ChildrenIn(T, x) = ChildrenIn(S, x) \ {h}
  BY RemoveCommon
<1>2. HeadsExact /\ TailsExact
  BY DEF IInv
<1>3. p \notin S /\ LastIn(T, p) = p
  <2>1. p \notin S
    BY <1>2 DEF TailsExact
  <2> HIDE DEF T
  <2>2. p \in Nodes \ T
    BY <1>1, <2>1
  <2> QED
    BY <1>1, <2>1, <2>2, LastInFacts
<1>4. \A x \in DOMAIN heads : x \in T /\ x \in Nodes /\ heads[x] = LastIn(S, x)
  BY <1>1, <1>2 DEF HeadsExact
<1>5. tails[p] = {x \in DOMAIN heads : heads[x] = p}
  BY <1>2 DEF TailsExact
<1>6. \A x \in DOMAIN heads : LastIn(T, x) = h => heads[x] = p
  BY <1>1, <1>3, <1>4
<1>7. ASSUME NEW x \in DOMAIN heads, heads[x] = p, LastIn(T, x) # h
      PROVE  \E c \in T : prev[c] = p
  <2>1. LastIn(T, x) = p /\ x \in T
    BY <1>1, <1>4, <1>7
  <2> HIDE DEF T
  <2> QED
    BY <1>1, <2>1, LastHasChild
<1>8. ASSUME NEW c \in T, prev[c] = p
      PROVE  \E x \in DOMAIN heads : heads[x] = p /\ LastIn(T, x) # h
  <2>1. LastIn(T, c) = p
    <3> HIDE DEF T
    <3> QED
      BY <1>1, <1>3, <1>8, LastInFacts
  <2>2. PICK y \in T : Leaf(T, y) /\ LastIn(T, y) = p
    <3> HIDE DEF T
    <3> QED
      BY <1>1, <2>1, HeadAbove
  <2>3. ChildrenIn(S, y) = {}
    BY <1>1, <1>3, <2>2 DEF Leaf, ChildrenIn
  <2>4. y \in DOMAIN heads
    BY <1>1, <1>2, <2>2, <2>3 DEF HeadsExact
  <2>5. heads[y] = p
    BY <1>1, <1>4, <2>2, <2>4
  <2> QED
    BY <1>1, <2>2, <2>4, <2>5
<1> QED
  BY <1>5, <1>6, <1>7, <1>8

LEMMA HashFinite == IsFiniteSet(Hash)
BY FS_Interval, NAssumption DEF Hash

(* A lowest item counted alone on its tail is its parent's only child.      *)
LEMMA OnlyChild ==
    ASSUME IInv, NEW h \in items, Cardinality(reverse[prev[h]]) <= 1
    PROVE  ~ \E c \in items \ {h} : prev[c] = prev[h]
<1> DEFINE p == prev[h]
<1>1. reverse[p] = ChildrenIn(items, p) /\ h \in reverse[p]
  BY DEF IInv, ReverseExact, ChildrenIn
<1>2. IsFiniteSet(reverse[p])
  <2>1. IsFiniteSet(Hash)
    BY HashFinite
  <2>2. reverse[p] \in SUBSET Hash
    <3>1. items \in SUBSET Hash
      BY LinkedItems
    <3> QED
      BY <1>1, <3>1 DEF ChildrenIn
  <2> QED
    BY <2>1, <2>2, FS_Subset
<1>3. SUFFICES ASSUME NEW c \in items, c # h, prev[c] = p PROVE FALSE
  OBVIOUS
<1>4. {c, h} \subseteq reverse[p]
  BY <1>1, <1>3 DEF ChildrenIn
<1>5. Cardinality(reverse[p]) \in Nat /\ Cardinality(reverse[p]) # 0
  BY <1>1, <1>2, FS_CardinalityType, FS_EmptySet
<1>6. Cardinality(reverse[p]) = 1
  BY <1>5
<1>7. PICK y : reverse[p] = {y}
  BY <1>2, <1>6, FS_Singleton
<1> QED
  BY <1>3, <1>4, <1>7

LEMMA RemoveTailIInv ==
    ASSUME IInv, NEW h \in items, RemoveTail(h), UNCHANGED prev
    PROVE  IInv'
<1> DEFINE p == prev[h]
           hs == {x \in DOMAIN heads : LastIn(items \ {h}, x) = h}
<1>1. /\ h \notin DOMAIN heads /\ p \in DOMAIN tails /\ IndexRemove(h)
      /\ Cardinality(reverse[p]) <= 1
      /\ heads' = Updated(heads, [x \in tails[p] |-> h])
      /\ tails' = Updated(Without(tails, p), Entry(h, tails[p]))
  BY DEF RemoveTail
(* h is the only child of its parent.                                       *)
<1>2. ~ \E c \in items \ {h} : prev[c] = p
  BY <1>1, OnlyChild
<1>3. tails[p] = hs
  BY <1>1, <1>2, HeadsThrough
<1>4. heads' = Updated(heads, [x \in hs |-> h])
  BY <1>1, <1>3
<1>5. /\ DOMAIN tails' = (DOMAIN tails \ {p}) \cup {h}
      /\ tails'[h] = hs
  BY <1>1, <1>3 DEF Updated, Without, Restrict, Entry
<1>6. \A u \in DOMAIN tails \ {p} : tails'[u] = tails[u]
  <2>1. h \notin DOMAIN tails
    BY DEF IInv, TailsExact
  <2> QED
    BY <1>1, <2>1 DEF Updated, Without, Restrict, Entry
<1> HIDE DEF hs
<1>7. hs = {x \in DOMAIN heads : LastIn(items \ {h}, x) = h}
  BY DEF hs
<1> QED
  BY <1>1, <1>2, <1>4, <1>5, <1>6, <1>7, RemoveLowestIInv

LEMMA RemoveBranchIInv ==
    ASSUME IInv, NEW h \in items, UNCHANGED prev,
           RemoveBranch(h, {x \in tails[prev[h]] : is_child_of(h, x)})
    PROVE  IInv'
<1> DEFINE p == prev[h]
           hs == {x \in DOMAIN heads : LastIn(items \ {h}, x) = h}
           asked == {x \in tails[p] : is_child_of(h, x)}
           tails1 == DropEmpty([tails EXCEPT ![p] = @ \ asked], p)
<1>1. /\ h \notin DOMAIN heads /\ p \in DOMAIN tails /\ IndexRemove(h)
      /\ Cardinality(reverse[p]) > 1
      /\ heads' = Updated(heads, [x \in asked |-> h])
      /\ tails' = Updated(tails1, Entry(h, asked))
  BY DEF RemoveBranch
(* h has a sibling.                                                         *)
<1>2. PICK c \in items \ {h} : prev[c] = p
  <2>1. reverse[p] = ChildrenIn(items, p) /\ h \in reverse[p]
    BY DEF IInv, ReverseExact, ChildrenIn
  <2>2. reverse[p] # {h}
    <3>1. Cardinality({h}) = 1
      BY FS_Singleton, Zenon
    <3> QED
      BY <1>1, <3>1
  <2>3. PICK c \in reverse[p] : c # h
    BY <2>1, <2>2
  <2> QED
    BY <2>1, <2>3 DEF ChildrenIn
<1>3. asked = hs
  <2>1. \A x \in DOMAIN heads : x \in items
    BY DEF IInv, HeadsExact
  <2>2. /\ tails[p] = {x \in DOMAIN heads : heads[x] = p}
        /\ \A x \in DOMAIN heads : LastIn(items \ {h}, x) = h => heads[x] = p
    BY <1>1, HeadsThrough
  <2> QED
    BY <2>1, <2>2 DEF is_child_of
<1>4. tails[p] \ asked # {}
  BY <1>1, <1>2, <1>3, HeadsThrough
<1>5. tails1 = [tails EXCEPT ![p] = @ \ asked]
  BY <1>1, <1>4 DEF DropEmpty
<1>6. h \notin DOMAIN tails
  BY DEF IInv, TailsExact
<1>7. /\ DOMAIN tails' = DOMAIN tails \cup {h}
      /\ tails'[h] = asked
      /\ \A u \in DOMAIN tails : tails'[u] = tails1[u]
  <2>1. DOMAIN tails1 = DOMAIN tails
    BY <1>5
  <2> HIDE DEF tails1
  <2> QED
    BY <1>1, <1>6, <2>1 DEF Updated, Entry
<1>8. /\ tails'[p] = tails[p] \ hs
      /\ \A u \in DOMAIN tails \ {p} : tails'[u] = tails[u]
  BY <1>1, <1>3, <1>5, <1>7
<1>9. heads' = Updated(heads, [x \in hs |-> h])
  BY <1>1, <1>3
<1>10. tails'[h] = hs /\ DOMAIN tails' = (DOMAIN tails \ {}) \cup {h}
  BY <1>3, <1>7
<1> HIDE DEF hs, asked, tails1
<1>11. hs = {x \in DOMAIN heads : LastIn(items \ {h}, x) = h}
  BY DEF hs
<1> QED
  BY <1>1, <1>2, <1>8, <1>9, <1>10, <1>11, RemoveLowestIInv

-----------------------------------------------------------------------------
LEMMA NextIInv == IInv /\ [Next]_vars => IInv'
<1> SUFFICES ASSUME IInv, [Next]_vars PROVE IInv'
  OBVIOUS
<1>1. CASE UNCHANGED vars
  BY <1>1 DEF vars, IInv, Linked, ReverseExact, HeadsExact, TailsExact,
              ChildrenIn, LastIn, LastMap
<1>2. ASSUME NEW h \in Hash, add(h) PROVE IInv'
  BY <1>2, AddIInv
<1>3. ASSUME NEW h \in Hash, remove(h) PROVE IInv'
  <2>1. h \in items /\ UNCHANGED prev
    BY <1>3 DEF remove
  <2>2. CASE RemoveLone(h)
    BY <2>1, <2>2, RemoveLoneIInv
  <2>3. CASE RemoveHead(h)
    BY <2>1, <2>3, RemoveHeadIInv
  <2>4. CASE RemoveTail(h)
    BY <2>1, <2>4, RemoveTailIInv
  <2>5. CASE RemoveBranch(h, {x \in tails[prev[h]] : is_child_of(h, x)})
    BY <2>1, <2>5, RemoveBranchIInv
  <2> QED
    BY <1>3, <2>2, <2>3, <2>4, <2>5 DEF remove
<1> QED
  BY <1>1, <1>2, <1>3 DEF Next

(* In every reachable state the indexes are what a full walk computes, for  *)
(* every number of hashes, every forest and every order of adds and         *)
(* removes.                                                                 *)
THEOREM IndexesExact == Spec => []IInv
  BY InitIInv, NextIInv, PTL DEF Spec

(* The indexes hold hashes only.                                            *)
THEOREM TypeCorrect == Spec => []TypeOK
  BY IndexesExact, IInvTypeOK, PTL

(* `heads` are the leaves, each with the end of its walk.                   *)
THEOREM HeadsCorrect == Spec => []HeadsExact
<1>1. IInv => HeadsExact
  BY DEF IInv
<1> QED
  BY <1>1, IndexesExact, PTL

(* `tails` are the missing parents, each with the heads that hang from it.  *)
THEOREM TailsCorrect == Spec => []TailsExact
<1>1. IInv => TailsExact
  BY DEF IInv
<1> QED
  BY <1>1, IndexesExact, PTL

-----------------------------------------------------------------------------
(* Recursion along a walk, and the heights it counts.                       *)

(* A step down: from every member of S to a smaller node.                   *)
Descends(next, S) == \A x \in S : next[x] \in Nodes /\ next[x] < x

(* The form of induction used below: of the nodes that lack a property one  *)
(* is outside S or steps to one that has it.                                *)
LEMMA LowestLacking ==
    ASSUME NEW S \in SUBSET Hash, NEW next, Descends(next, S),
           NEW T \in SUBSET Nodes, T # {}
    PROVE  \E m \in T : m \notin S \/ next[m] \in Nodes \ T
<1>1. T \in SUBSET Nat
  BY HashTypes
<1>2. PICK m \in T : \A k \in T : m <= k
  BY <1>1, LeastElement
<1>3. m \in S => next[m] \in Nodes /\ next[m] \in Nat /\ next[m] < m /\ m \in Nat
  BY HashTypes DEF Descends
<1>4. m \in S => next[m] \notin T
  <2>1. \A k \in T : m <= k
    BY <1>2
  <2>2. next[m] \in T => m <= next[m]
    BY <2>1
  <2> QED
    BY <1>3, <2>2
<1> QED
  BY <1>3, <1>4

(* A function defined by recursion along such steps exists.                 *)
LEMMA RecursionExists ==
    ASSUME NEW S \in SUBSET Hash, NEW next, Descends(next, S),
           NEW V, NEW base \in [Nodes -> V], NEW G \in [Nodes -> [V -> V]]
    PROVE  \E s \in [Nodes -> V] :
              \A x \in Nodes : s[x] = IF x \in S THEN G[x][s[next[x]]] ELSE base[x]
<1> DEFINE Good(n, s) ==
        /\ s \in [0..n -> V]
        /\ \A x \in 0..n : s[x] = IF x \in S THEN G[x][s[next[x]]] ELSE base[x]
           Bad == {n \in Nodes : ~ \E s : Good(n, s)}
<1>1. Bad = {}
  <2> SUFFICES ASSUME Bad # {} PROVE FALSE
    OBVIOUS
  <2>1. PICK n \in Bad : \A k \in Bad : n <= k
    <3>1. Bad \in SUBSET Nat
      BY HashTypes
    <3> HIDE DEF Bad
    <3> QED
      BY <3>1, LeastElement
  <2>2. n \in Nodes /\ ~ (\E s : Good(n, s)) /\ n \in Nat
    BY HashTypes
  <2>3. n # 0
    <3> DEFINE s0 == [x \in 0..0 |-> base[0]]
    <3>1. 0 \in Nodes /\ 0 \notin S
      BY NAssumption DEF Hash, Nodes
    <3>2. s0 \in [0..0 -> V] /\ \A x \in 0..0 : x = 0 /\ s0[x] = base[x]
      BY <3>1
    <3> HIDE DEF s0
    <3>3. Good(0, s0)
      BY <3>1, <3>2
    <3> QED
      BY <2>2, <3>3
  <2>4. n - 1 \in Nodes
    BY <2>2, <2>3, NAssumption DEF Nodes
  <2>5. PICK s : Good(n - 1, s)
    <3>1. n - 1 \notin Bad
      <4> HIDE DEF Bad
      <4>1. n - 1 \in Bad => n <= n - 1
        BY <2>1
      <4> QED
        BY <4>1, <2>2
    <3> QED
      BY <2>4, <3>1
  <2> DEFINE new == IF n \in S THEN G[n][s[next[n]]] ELSE base[n]
             t == [x \in 0..n |-> IF x = n THEN new ELSE s[x]]
  <2>6. \A x \in S : x \in 0..n => next[x] \in 0..(x - 1) /\ next[x] \in 0..(n - 1)
    <3> SUFFICES ASSUME NEW x \in S, x \in 0..n
                 PROVE  next[x] \in 0..(x - 1) /\ next[x] \in 0..(n - 1)
      OBVIOUS
    <3>1. next[x] \in Nat /\ next[x] < x
      BY HashTypes DEF Descends
    <3> QED
      BY <2>2, <3>1
  <2>7. new \in V
    <3>1. n \in S => s[next[n]] \in V
      BY <2>2, <2>5, <2>6
    <3>2. G[n] \in [V -> V] /\ base[n] \in V
      BY <2>2
    <3>3. \A u \in V : G[n][u] \in V
      BY <3>2
    <3> QED
      BY <3>1, <3>2, <3>3
  <2>8. \A x \in 0..n : x # n => x \in 0..(n - 1)
    BY <2>2
  <2>9. t \in [0..n -> V]
    <3> HIDE DEF new
    <3> QED
      BY <2>5, <2>7, <2>8
  <2>10. ASSUME NEW x \in 0..n
         PROVE  t[x] = IF x \in S THEN G[x][t[next[x]]] ELSE base[x]
    <3>1. x \in S => next[x] \in 0..n /\ next[x] # n /\ t[next[x]] = s[next[x]]
      BY <2>2, <2>6
    <3>2. CASE x = n
      BY <3>1, <3>2
    <3>3. CASE x # n
      <4>1. t[x] = s[x] /\ x \in 0..(n - 1)
        BY <2>8, <3>3
      <4>2. s[x] = IF x \in S THEN G[x][s[next[x]]] ELSE base[x]
        BY <2>5, <4>1
      <4> HIDE DEF t
      <4> QED
        BY <3>1, <4>1, <4>2
    <3> QED
      BY <3>2, <3>3
  <2> HIDE DEF t
  <2>11. Good(n, t)
    BY <2>9, <2>10
  <2> QED
    BY <2>2, <2>11
<1>2. PICK s : Good(N, s)
  BY <1>1, NAssumption DEF Nodes
<1> QED
  BY <1>2 DEF Nodes

(* Parents are such steps.                                                  *)
LEMMA LinkDescends ==
    ASSUME IsLink(prev), NEW S \in SUBSET Hash
    PROVE  Descends(prev, S)
BY DEF IsLink, Descends

(* The height of a chain is a number, and counts its items.                 *)
LEMMA HeightFacts ==
    ASSUME IsLink(prev), NEW S \in SUBSET Hash
    PROVE  \A x \in Nodes :
              /\ HeightMap(prev, S)[x] \in Nat
              /\ x \in S => HeightMap(prev, S)[x] = 1 + HeightMap(prev, S)[prev[x]]
              /\ x \notin S => HeightMap(prev, S)[x] = 0
<1> DEFINE H == HeightMap(prev, S)
           V == Nat
           G == [x \in Nodes |-> [k \in V |-> 1 + k]]
           base == [x \in Nodes |-> 0]
           R(s) == [x \in Nodes |-> IF x \in S THEN 1 + s[prev[x]] ELSE 0]
<1>1. Descends(prev, S)
  BY LinkDescends
<1>2. PICK s \in [Nodes -> V] :
         \A x \in Nodes : s[x] = IF x \in S THEN G[x][s[prev[x]]] ELSE base[x]
  <2>1. G \in [Nodes -> [V -> V]] /\ base \in [Nodes -> V]
    OBVIOUS
  <2> HIDE DEF V, G, base
  <2>2. \A ba \in [Nodes -> V] : \A g \in [Nodes -> [V -> V]] :
           \E s \in [Nodes -> V] :
              \A x \in Nodes : s[x] = IF x \in S THEN g[x][s[prev[x]]] ELSE ba[x]
    BY <1>1, RecursionExists
  <2> QED
    BY <2>1, <2>2
<1>3. \A x \in S : prev[x] \in Nodes
  BY <1>1 DEF Descends
<1>31. \A x \in Nodes : x \in S => G[x][s[prev[x]]] = 1 + s[prev[x]]
  BY <1>2, <1>3
<1>4. s = R(s)
  <2> HIDE DEF G
  <2> QED
    BY <1>2, <1>31
<1>5. H = CHOOSE g : g = R(g)
  BY DEF HeightMap
<1>6. H = R(H)
  BY <1>4, <1>5
<1> HIDE DEF H
<1>7. \A x \in Nodes : H[x] = IF x \in S THEN 1 + H[prev[x]] ELSE 0
  BY <1>6
<1> DEFINE T == {x \in Nodes : H[x] \notin Nat}
<1>8. T = {}
  <2> SUFFICES ASSUME T # {} PROVE FALSE
    OBVIOUS
  <2>1. PICK m \in T : m \notin S \/ prev[m] \in Nodes \ T
    <3>1. T \in SUBSET Nodes
      OBVIOUS
    <3> HIDE DEF T
    <3> QED
      BY <1>1, <3>1, LowestLacking
  <2>2. H[m] \in Nat
    BY <1>7, <2>1
  <2> QED
    BY <2>2
<1> QED
  BY <1>7, <1>8 DEF H

(* How many steps a hash is above the first share of its chain: heights are *)
(* differences of depths.                                                   *)
Depth == HeightMap(prev, Hash)

LEMMA HeightIsDepth ==
    ASSUME IsLink(prev), NEW S \in SUBSET Hash
    PROVE  \A x \in Nodes :
              /\ Depth[x] \in Nat /\ Depth[LastIn(S, x)] \in Nat
              /\ HeightMap(prev, S)[x] = Depth[x] - Depth[LastIn(S, x)]
<1> DEFINE H == HeightMap(prev, S)
           T == {x \in Nodes : H[x] # Depth[x] - Depth[LastIn(S, x)]}
<1>1. \A x \in Nodes : Depth[x] \in Nat /\ LastIn(S, x) \in Nodes
  BY HeightFacts, LastInFacts DEF Depth
<1>2. \A x \in Nodes : x \in S => H[x] = 1 + H[prev[x]]
  BY HeightFacts
<1>3. \A x \in Nodes : x \notin S => H[x] = 0
  BY HeightFacts
<1>4. \A x \in S : Depth[x] = 1 + Depth[prev[x]] /\ x \in Nodes
  BY HeightFacts, HashTypes DEF Depth
<1>5. \A x \in S : prev[x] \in Nodes /\ LastIn(S, x) = LastIn(S, prev[x])
  BY LastInFacts
<1>6. \A x \in Nodes \ S : LastIn(S, x) = x
  BY LastInFacts
<1> HIDE DEF H
<1>7. T = {}
  <2> SUFFICES ASSUME T # {} PROVE FALSE
    OBVIOUS
  <2>1. PICK m \in T : m \notin S \/ prev[m] \in Nodes \ T
    <3>1. T \in SUBSET Nodes /\ Descends(prev, S)
      BY LinkDescends
    <3> HIDE DEF T
    <3> QED
      BY <3>1, LowestLacking
  <2>2. CASE m \notin S
    BY <1>1, <1>3, <1>6, <2>2
  <2>3. CASE m \in S
    <3>1. H[prev[m]] = Depth[prev[m]] - Depth[LastIn(S, prev[m])] /\ prev[m] \in Nodes
      BY <2>1, <2>3
    <3>2. H[m] = Depth[m] - Depth[LastIn(S, m)]
      BY <1>1, <1>2, <1>4, <1>5, <2>3, <3>1
    <3> QED
      BY <3>2
  <2> QED
    BY <2>2, <2>3
<1> QED
  BY <1>1, <1>7 DEF H

(* n parents up from a node that is at least n members of S above the end   *)
(* of its walk.                                                             *)
LEMMA ParentsFacts ==
    ASSUME IsLink(prev), NEW S \in SUBSET Hash, NEW x \in Nodes,
           NEW n \in Nat, n <= HeightMap(prev, S)[x]
    PROVE  /\ ParentsOf(x, n) \in Nodes
           /\ LastIn(S, ParentsOf(x, n)) = LastIn(S, x)
           /\ HeightMap(prev, S)[ParentsOf(x, n)] = HeightMap(prev, S)[x] - n
<1> DEFINE H == HeightMap(prev, S)
           Up(m, u) == /\ u \in [0..m -> Nodes] /\ u[0] = x
                       /\ \A k \in 1..m : u[k] = prev[u[k - 1]]
                       /\ \A k \in 0..m : /\ H[u[k]] = H[x] - k
                                          /\ LastIn(S, u[k]) = LastIn(S, x)
           Bad == {m \in 0..n : ~ \E u : Up(m, u)}
           R(u) == [k \in 0..n |-> IF k = 0 THEN x ELSE prev[u[k - 1]]]
<1>1. \A y \in Nodes : /\ H[y] \in Nat
                       /\ y \in S => H[y] = 1 + H[prev[y]]
                       /\ y \notin S => H[y] = 0
  BY HeightFacts
<1>2. \A y \in S : prev[y] \in Nodes /\ LastIn(S, y) = LastIn(S, prev[y])
  BY LastInFacts
<1>3. n <= H[x]
  OBVIOUS
<1> HIDE DEF H
<1>4. Bad = {}
  <2> SUFFICES ASSUME Bad # {} PROVE FALSE
    OBVIOUS
  <2>1. PICK m \in Bad : \A k \in Bad : m <= k
    <3>1. Bad \in SUBSET Nat
      OBVIOUS
    <3> HIDE DEF Bad
    <3> QED
      BY <3>1, LeastElement
  <2>2. m \in 0..n /\ ~ (\E u : Up(m, u)) /\ m \in Nat
    OBVIOUS
  <2>3. m # 0
    <3> DEFINE u0 == [k \in 0..0 |-> x]
    <3>1. u0 \in [0..0 -> Nodes] /\ u0[0] = x /\ \A k \in 0..0 : k = 0
      OBVIOUS
    <3>2. H[u0[0]] = H[x] - 0
      BY <1>1, <3>1
    <3>3. \A k \in 0..0 : H[u0[k]] = H[x] - k /\ LastIn(S, u0[k]) = LastIn(S, x)
      BY <3>1, <3>2
    <3> HIDE DEF u0
    <3>4. Up(0, u0)
      BY <3>1, <3>3
    <3> QED
      BY <2>2, <3>4
  <2>4. m - 1 \in 0..n /\ m - 1 \in Nat
    BY <2>2, <2>3
  <2>5. PICK u : Up(m - 1, u)
    <3> HIDE DEF Up
    <3>1. m - 1 \notin Bad
      <4> HIDE DEF Bad
      <4>1. m - 1 \in Bad => m <= m - 1
        BY <2>1
      <4> QED
        BY <4>1, <2>2
    <3> QED
      BY <2>4, <3>1
  <2> DEFINE y == u[m - 1]
             w == [k \in 0..m |-> IF k = m THEN prev[y] ELSE u[k]]
  <2>6. y \in Nodes /\ H[y] = H[x] - (m - 1) /\ LastIn(S, y) = LastIn(S, x)
    BY <2>4, <2>5
  <2>7. y \in S
    BY <1>1, <1>3, <2>2, <2>6
  <2>8. prev[y] \in Nodes /\ H[prev[y]] = H[x] - m /\ LastIn(S, prev[y]) = LastIn(S, x)
    <3> HIDE DEF y
    <3>1. prev[y] \in Nodes /\ LastIn(S, prev[y]) = LastIn(S, x)
      BY <1>2, <2>6, <2>7
    <3>2. H[y] = 1 + H[prev[y]] /\ H[prev[y]] \in Nat /\ H[x] \in Nat
      BY <1>1, <2>6, <2>7, <3>1
    <3> QED
      BY <2>2, <2>6, <3>1, <3>2
  <2>9. /\ \A k \in 0..m : k # m => k \in 0..(m - 1)
        /\ \A k \in 1..m : k # m => k \in 1..(m - 1)
        /\ \A k \in 1..m : k - 1 \in 0..m /\ k - 1 # m
    BY <2>2
  <2>10. w \in [0..m -> Nodes] /\ w[0] = x
    <3>1. 0 \in 0..m /\ 0 # m
      BY <2>2, <2>3
    <3>2. \A k \in 0..m : w[k] \in Nodes
      <4> HIDE DEF y
      <4> QED
        BY <2>5, <2>8, <2>9
    <3>3. w[0] = u[0]
      BY <3>1
    <3> QED
      BY <2>5, <3>2, <3>3
  <2>11. \A k \in 1..m : w[k] = prev[w[k - 1]]
    <3> SUFFICES ASSUME NEW k \in 1..m PROVE w[k] = prev[w[k - 1]]
      OBVIOUS
    <3>1. w[k - 1] = u[k - 1]
      BY <2>9
    <3>2. CASE k = m
      BY <3>1, <3>2
    <3>3. CASE k # m
      BY <2>5, <2>9, <3>1, <3>3
    <3> QED
      BY <3>2, <3>3
  <2>12. \A k \in 0..m : H[w[k]] = H[x] - k /\ LastIn(S, w[k]) = LastIn(S, x)
    <3> HIDE DEF y
    <3> QED
      BY <2>5, <2>8, <2>9
  <2> HIDE DEF w
  <2>13. Up(m, w)
    BY <2>10, <2>11, <2>12
  <2> HIDE DEF Up
  <2> QED
    BY <2>2, <2>13
<1>5. PICK u : Up(n, u)
  <2>1. n \in 0..n
    OBVIOUS
  <2> HIDE DEF Up
  <2> QED
    BY <1>4, <2>1
<1>6. u = R(u)
  BY <1>5
<1> DEFINE U == CHOOSE g : g = R(g)
<1>7. U = R(U)
  <2> HIDE DEF R
  <2> QED
    BY <1>6
<1>8. ParentsOf(x, n) = U[n]
  BY DEF ParentsOf
<1> HIDE DEF U
<1>9. \A k \in 0..n : U[k] = IF k = 0 THEN x ELSE prev[U[k - 1]]
  BY <1>7
<1> DEFINE Off == {k \in 0..n : U[k] # u[k]}
<1>10. Off = {}
  <2> SUFFICES ASSUME Off # {} PROVE FALSE
    OBVIOUS
  <2>1. PICK k \in Off : \A j \in Off : k <= j
    <3>1. Off \in SUBSET Nat
      OBVIOUS
    <3> HIDE DEF Off
    <3> QED
      BY <3>1, LeastElement
  <2>2. k \in 0..n /\ U[k] # u[k]
    OBVIOUS
  <2>3. k # 0
    BY <1>5, <1>9, <2>2
  <2>4. k - 1 \in 0..n /\ k \in 1..n
    BY <2>2, <2>3
  <2>5. U[k - 1] = u[k - 1]
    <3>1. k - 1 \notin Off
      <4> HIDE DEF Off
      <4>1. k - 1 \in Off => k <= k - 1
        BY <2>1
      <4> QED
        BY <4>1, <2>2
    <3> QED
      BY <2>4, <3>1
  <2> QED
    BY <1>5, <1>9, <2>2, <2>3, <2>4, <2>5
<1>11. ParentsOf(x, n) = u[n] /\ n \in 0..n
  BY <1>8, <1>10
<1> QED
  BY <1>5, <1>11 DEF H

(* is_child_of, decided from heights and lasts.                             *)
LEMMA ChildFromHeights ==
    ASSUME IsLink(prev), items \in SUBSET Hash, NEW h \in items, NEW x \in items
    PROVE  LET Height == HeightMap(prev, items) IN
           is_child_of(h, x) <=> /\ LastIn(items, h) = LastIn(items, x)
                                 /\ Height[x] >= Height[h]
                                 /\ ParentsOf(x, Height[x] - Height[h]) = h
<1> DEFINE S == items \ {h}
           A == HeightMap(prev, items)
           B == HeightMap(prev, S)
<1>0. S \in SUBSET Hash /\ h \in Hash \ S /\ S \cup {h} = items /\ x \in Nodes /\ h \in Nodes
  BY HashTypes
<1>1. \A y \in Nodes : LastIn(items, y) =
                          IF LastIn(S, y) = h THEN LastIn(S, prev[h]) ELSE LastIn(S, y)
  <2> HIDE DEF S
  <2> QED
    BY <1>0, LastInAdd
<1>2. LastIn(S, h) = h
  BY <1>0, LastInFacts
<1>3. \A y \in Nodes : /\ Depth[y] \in Nat /\ Depth[LastIn(items, y)] \in Nat
                       /\ A[y] = Depth[y] - Depth[LastIn(items, y)]
  BY HeightIsDepth
<1>4. \A y \in Nodes : /\ Depth[LastIn(S, y)] \in Nat
                       /\ B[y] = Depth[y] - Depth[LastIn(S, y)]
  BY <1>0, HeightIsDepth
<1>5. \A y \in Nodes : /\ B[y] \in Nat
                       /\ y \in S => B[y] = 1 + B[prev[y]]
                       /\ y \notin S => B[y] = 0
  BY <1>0, HeightFacts
<1>6. A[h] \in Nat /\ A[h] > 0
  <2>1. A[h] = 1 + A[prev[h]] /\ prev[h] \in Nodes
    BY <1>0, HeightFacts, LastInFacts
  <2>2. A[prev[h]] \in Nat
    BY <2>1, HeightFacts
  <2> HIDE DEF A
  <2> QED
    BY <2>1, <2>2
<1>7. \A n \in Nat : n <= B[x] =>
         /\ ParentsOf(x, n) \in Nodes
         /\ LastIn(S, ParentsOf(x, n)) = LastIn(S, x)
         /\ B[ParentsOf(x, n)] = B[x] - n
  <2> HIDE DEF S
  <2> QED
    BY <1>0, ParentsFacts
<1> HIDE DEF A, B
<1>8. ASSUME LastIn(S, x) = h
      PROVE  /\ LastIn(items, h) = LastIn(items, x)
             /\ A[x] >= A[h] /\ ParentsOf(x, A[x] - A[h]) = h
  <2> HIDE DEF S
  <2>1. LastIn(items, h) = LastIn(items, x)
    BY <1>0, <1>1, <1>2, <1>8
  <2>2. A[x] - A[h] = B[x]
    BY <1>0, <1>3, <1>4, <1>8, <2>1
  <2> DEFINE y == ParentsOf(x, B[x])
  <2>3. y \in Nodes /\ LastIn(S, y) = h /\ B[y] = B[x] - B[x]
    BY <1>0, <1>5, <1>7, <1>8
  <2> HIDE DEF y
  <2>4. B[y] = 0
    BY <1>0, <1>5, <2>3
  <2>5. y \notin S
    <3>1. y \in S => prev[y] \in Nodes
      BY <1>0, LastInFacts
    <3> QED
      BY <1>5, <2>3, <2>4, <3>1
  <2>6. y = h
    BY <1>0, <2>3, <2>5, LastInFacts
  <2>7. A[x] >= A[h]
    BY <1>0, <1>3, <1>5, <2>2
  <2> QED
    BY <2>1, <2>2, <2>6, <2>7 DEF y
<1>9. ASSUME LastIn(items, h) = LastIn(items, x), A[x] >= A[h],
             ParentsOf(x, A[x] - A[h]) = h
      PROVE  LastIn(S, x) = h
  <2> SUFFICES ASSUME LastIn(S, x) # h PROVE FALSE
    OBVIOUS
  <2> HIDE DEF S
  <2>1. LastIn(S, x) = LastIn(items, x)
    BY <1>0, <1>1
  <2>2. B[x] = A[x] /\ A[x] \in Nat /\ A[h] \in Nat
    BY <1>0, <1>3, <1>4, <1>5, <1>6, <2>1
  <2>3. A[x] - A[h] \in Nat /\ A[x] - A[h] <= B[x]
    BY <1>6, <1>9, <2>2
  <2>4. B[h] = B[x] - (A[x] - A[h])
    BY <1>7, <1>9, <2>3
  <2>5. B[h] = 0
    BY <1>0, <1>5
  <2> QED
    BY <1>6, <2>2, <2>4, <2>5
<1> QED
  BY <1>8, <1>9 DEF is_child_of, S, A

-----------------------------------------------------------------------------
(* The cache.  What an item's cached delta jumps to.                        *)
JumpTo(v, x) == v.refs[v.deltas[x].ref].tail

(* Every ref is filed under the tail it ends at,                            *)
Filed(v) ==
    /\ DOMAIN v.refs \subseteq 1..(N + 1)
    /\ DOMAIN v.members \subseteq DOMAIN v.refs
    /\ \A r \in DOMAIN v.refs :
          v.refs[r].tail \in DOMAIN v.refOf /\ v.refOf[v.refs[r].tail] = r
    /\ \A t \in DOMAIN v.refOf :
          v.refOf[t] \in DOMAIN v.refs /\ v.refs[v.refOf[t]].tail = t

(* it measures the way from its head down to that tail, or up to it once    *)
(* removals have moved the tail,                                            *)
Measured(v) ==
    \A r \in DOMAIN v.refs :
       /\ v.refs[r].head \in Nodes /\ v.refs[r].tail \in Nodes
       /\ v.refs[r].head <= v.refs[r].tail
       /\ v.refs[r].height = Depth[v.refs[r].head] - Depth[v.refs[r].tail]

(* the deltas of the items D measure the way to the head of their ref,      *)
Live(v, D) ==
    /\ D \subseteq DOMAIN v.deltas /\ D \subseteq Hash
    /\ \A x \in D :
          /\ v.deltas[x].ref \in DOMAIN v.refs
          /\ v.deltas[x].d.head = x
          /\ v.deltas[x].d.tail = v.refs[v.deltas[x].ref].head
          /\ v.deltas[x].d.height = Depth[x] - Depth[v.refs[v.deltas[x].ref].head]

(* a ref's members are the items that use it, and every ref has one, except *)
(* for the refs in keep.                                                    *)
Users(v, D, r) == {x \in D : v.deltas[x].ref = r}
Counted(v, D) == \A r \in DOMAIN v.refs : SetAt(v.members, r) = Users(v, D, r)
Inhabited(v, D, keep) == \A r \in DOMAIN v.refs \ keep : Users(v, D, r) # {}

Wired(v, D, keep) ==
    /\ Filed(v) /\ Measured(v) /\ Live(v, D) /\ Counted(v, D)
    /\ Inhabited(v, D, keep) /\ v.ok = TRUE

LEMMA ViewFields ==
    ASSUME NEW ds, NEW ms, NEW rs, NEW of, NEW ok
    PROVE  /\ View(ds, ms, rs, of, ok).deltas = ds /\ View(ds, ms, rs, of, ok).members = ms
           /\ View(ds, ms, rs, of, ok).refs = rs /\ View(ds, ms, rs, of, ok).refOf = of
           /\ View(ds, ms, rs, of, ok).ok = ok
BY DEF View

LEMMA WithoutFacts ==
    ASSUME NEW f, NEW k
    PROVE  /\ DOMAIN Without(f, k) = DOMAIN f \ {k}
           /\ \A x \in DOMAIN f : x # k => Without(f, k)[x] = f[x]
BY DEF Without, Restrict

LEMMA DeltaFields ==
    ASSUME NEW a, NEW b, NEW c
    PROVE  DeltaOf(a, b, c).head = a /\ DeltaOf(a, b, c).tail = b /\ DeltaOf(a, b, c).height = c
BY DEF DeltaOf

LEMMA DepthNat == IsLink(prev) => \A x \in Nodes : Depth[x] \in Nat
BY HeightFacts DEF Depth

(* There are more numbers for refs than nodes to end at.                    *)
LEMMA FreshRefExists ==
    ASSUME NEW v, Filed(v), Measured(v), NEW t \in Nodes, t \notin DOMAIN v.refOf
    PROVE  FreshRef(v) \in 1..(N + 1) \ DOMAIN v.refs
<1> SUFFICES ASSUME 1..(N + 1) \subseteq DOMAIN v.refs PROVE FALSE
  BY DEF FreshRef
<1> DEFINE S == 1..(N + 1)
           T == Nodes \ {t}
           f == [r \in S |-> v.refs[r].tail]
<1>1. IsFiniteSet(S) /\ Cardinality(S) = N + 1
  BY FS_Interval, NAssumption
<1>2. IsFiniteSet(Nodes) /\ Cardinality(Nodes) = N + 1
  BY FS_Interval, NAssumption DEF Nodes
<1>3. IsFiniteSet(T) /\ Cardinality(T) = (N + 1) - 1
  BY <1>2, FS_RemoveElement
<1>4. f \in [S -> T]
  BY DEF Filed, Measured
<1>5. \A r, q \in S : f[r] = f[q] => r = q
  BY DEF Filed
<1>6. Cardinality(T) < Cardinality(S)
  BY <1>1, <1>3, NAssumption
<1> HIDE DEF f, S, T
<1>7. \E r, q \in S : r # q /\ f[r] = f[q]
  BY <1>1, <1>3, <1>4, <1>6, FS_PigeonHole
<1> QED
  BY <1>5, <1>7

(* Asking for the ref of a tail adds at most an unused one.                 *)
LEMMA WithRefToWired ==
    ASSUME IsLink(prev), NEW v, NEW D, Wired(v, D, {}), NEW t \in Nodes
    PROVE  LET w == WithRefTo(v, t) IN
           /\ t \in DOMAIN w.refOf /\ w.refOf[t] \in DOMAIN w.refs
           /\ w.refs[w.refOf[t]].tail = t
           /\ Wired(w, D, {w.refOf[t]})
           /\ w.deltas = v.deltas
           /\ \A x \in D : JumpTo(w, x) = JumpTo(v, x)
<1> DEFINE w == WithRefTo(v, t)
<1> USE DEF Wired
<1>1. CASE t \in DOMAIN v.refOf
  <2>1. w = v
    BY <1>1 DEF WithRefTo
  <2>2. Inhabited(v, D, {v.refOf[t]})
    BY DEF Inhabited
  <2> QED
    BY <1>1, <2>1, <2>2 DEF Filed
<1>2. CASE t \notin DOMAIN v.refOf
  <2> DEFINE r == FreshRef(v)
             entry == DeltaOf(t, t, 0)
  <2>1. r \in 1..(N + 1) \ DOMAIN v.refs
    BY <1>2, FreshRefExists
  <2> HIDE DEF r
  <2>2. w = View(v.deltas, v.members, Updated(v.refs, Entry(r, entry)),
                 Updated(v.refOf, Entry(t, r)), v.ok)
    BY <1>2 DEF WithRefTo, get_none, r
  <2>3. entry.head = t /\ entry.tail = t /\ entry.height = 0
    BY DEF DeltaOf
  <2> HIDE DEF entry
  <2> DEFINE rs == Updated(v.refs, Entry(r, entry))
             of == Updated(v.refOf, Entry(t, r))
  <2>4. /\ DOMAIN rs = DOMAIN v.refs \cup {r} /\ rs[r] = entry
        /\ \A q \in DOMAIN v.refs : rs[q] = v.refs[q]
    <3>1. /\ DOMAIN rs = DOMAIN v.refs \cup {r} /\ rs[r] = entry
          /\ \A q \in DOMAIN v.refs : q # r => rs[q] = v.refs[q]
      BY DEF Updated, Entry
    <3> QED
      BY <2>1, <3>1
  <2>5. /\ DOMAIN of = DOMAIN v.refOf \cup {t} /\ of[t] = r
        /\ \A s \in DOMAIN v.refOf : of[s] = v.refOf[s]
    <3>1. /\ DOMAIN of = DOMAIN v.refOf \cup {t} /\ of[t] = r
          /\ \A s \in DOMAIN v.refOf : s # t => of[s] = v.refOf[s]
      BY DEF Updated, Entry
    <3> QED
      BY <1>2, <3>1
  <2>6. /\ w.deltas = v.deltas /\ w.members = v.members /\ w.refs = rs
        /\ w.refOf = of /\ w.ok = v.ok
    BY <2>2, ViewFields
  <2> HIDE DEF w, rs, of
  <2>7. Filed(w)
    <3>1. \A q \in DOMAIN v.refs : v.refs[q].tail # t
      BY <1>2 DEF Filed
    <3> QED
      BY <2>1, <2>3, <2>4, <2>5, <2>6, <3>1 DEF Filed
  <2>8. Measured(w)
    <3>1. Depth[t] - Depth[t] = 0 /\ t <= t
      BY DepthNat, HashTypes
    <3> QED
      BY <2>3, <2>4, <2>6, <3>1 DEF Measured
  <2>9. Live(w, D)
    BY <2>4, <2>6 DEF Live
  <2>10. \A q : Users(w, D, q) = Users(v, D, q)
    BY <2>6 DEF Users
  <2>11. Users(v, D, r) = {} /\ SetAt(v.members, r) = {}
    BY <2>1 DEF Live, Users, SetAt, Filed
  <2>12. Counted(w, D) /\ Inhabited(w, D, {r})
    BY <2>4, <2>6, <2>10, <2>11 DEF Counted, Inhabited
  <2>13. \A x \in D : JumpTo(w, x) = JumpTo(v, x)
    BY <2>4, <2>6 DEF JumpTo, Live
  <2> QED
    BY <2>3, <2>4, <2>5, <2>6, <2>7, <2>8, <2>9, <2>12, <2>13 DEF w
<1> QED
  BY <1>1, <1>2

(* An item that stops using its ref leaves the others as they are.          *)
LEMMA UnuseWired ==
    ASSUME NEW v, NEW D, NEW keep, Wired(v, D, keep), NEW x \in D
    PROVE  LET w == Unuse(v, x, keep) IN
           /\ Wired(w, D \ {x}, keep)
           /\ w.deltas = v.deltas
           /\ \A y \in D \ {x} : JumpTo(w, y) = JumpTo(v, y)
           /\ \A r \in DOMAIN v.refs : r \in keep =>
                 /\ r \in DOMAIN w.refs /\ w.refs[r] = v.refs[r]
                 /\ w.refOf[v.refs[r].tail] = r
<1> DEFINE w == Unuse(v, x, keep)
           r == v.deltas[x].ref
           others == v.members[r] \ {x}
           t == v.refs[r].tail
<1> USE DEF Wired
<1>1. r \in DOMAIN v.refs
  BY DEF Live
<1>2. r \in DOMAIN v.members /\ v.members[r] = Users(v, D, r)
  <2>1. x \in Users(v, D, r)
    BY DEF Users
  <2>2. SetAt(v.members, r) = Users(v, D, r)
    BY <1>1 DEF Counted
  <2> QED
    BY <2>1, <2>2 DEF SetAt
<1>3. others = Users(v, D \ {x}, r)
  BY <1>2 DEF Users
<1>4. \A q : q # r => Users(v, D \ {x}, q) = Users(v, D, q)
  BY DEF Users
<1>5. Live(v, D \ {x})
  BY DEF Live
<1>6. CASE others = {} /\ r \notin keep
  <2> HIDE DEF r, others, t
  <2>1. w = View(v.deltas, Without(v.members, r), Without(v.refs, r),
                 Without(v.refOf, t), v.ok)
    BY <1>6 DEF Unuse, DropRef, r, others, t
  <2> DEFINE ms == Without(v.members, r)
             rs == Without(v.refs, r)
             of == Without(v.refOf, t)
  <2>2. /\ w.deltas = v.deltas /\ w.members = ms /\ w.refs = rs
        /\ w.refOf = of /\ w.ok = v.ok
    BY <2>1, ViewFields
  <2>3. DOMAIN ms = DOMAIN v.members \ {r} /\ \A q \in DOMAIN v.members : q # r => ms[q] = v.members[q]
    BY WithoutFacts, Zenon
  <2>4. DOMAIN rs = DOMAIN v.refs \ {r} /\ \A q \in DOMAIN v.refs : q # r => rs[q] = v.refs[q]
    BY WithoutFacts, Zenon
  <2>5. DOMAIN of = DOMAIN v.refOf \ {t} /\ \A s \in DOMAIN v.refOf : s # t => of[s] = v.refOf[s]
    BY WithoutFacts, Zenon
  <2>6. v.refOf[t] = r /\ \A q \in DOMAIN v.refs : q # r => v.refs[q].tail # t
    BY <1>1 DEF Filed, t
  <2>7. \A y \in D \ {x} : v.deltas[y].ref # r
    BY <1>3, <1>6 DEF Users
  <2> HIDE DEF w, ms, rs, of
  <2>8. Filed(w)
    <3>1. DOMAIN rs \subseteq 1..(N + 1) /\ DOMAIN ms \subseteq DOMAIN rs
      BY <2>3, <2>4 DEF Filed
    <3>2. \A q \in DOMAIN rs : rs[q].tail \in DOMAIN of /\ of[rs[q].tail] = q
      BY <2>4, <2>5, <2>6 DEF Filed
    <3>3. \A s \in DOMAIN of : v.refOf[s] # r
      BY <2>5 DEF Filed, t
    <3>4. \A s \in DOMAIN of : of[s] \in DOMAIN rs /\ rs[of[s]].tail = s
      BY <2>4, <2>5, <3>3 DEF Filed
    <3> QED
      BY <2>2, <3>1, <3>2, <3>4 DEF Filed
  <2>9. Measured(w)
    BY <2>2, <2>4 DEF Measured
  <2>10. Live(w, D \ {x})
    BY <1>5, <2>2, <2>4, <2>7 DEF Live
  <2>11. \A q : Users(w, D \ {x}, q) = Users(v, D \ {x}, q)
    BY <2>2 DEF Users
  <2>12. Counted(w, D \ {x})
    BY <1>4, <2>2, <2>3, <2>4, <2>11 DEF Counted, SetAt
  <2>13. Inhabited(w, D \ {x}, keep)
    BY <1>4, <2>2, <2>4, <2>11 DEF Inhabited
  <2>14. \A y \in D \ {x} : JumpTo(w, y) = JumpTo(v, y)
    BY <2>2, <2>4, <2>7 DEF JumpTo, Live
  <2>15. \A q \in DOMAIN v.refs : q \in keep =>
            /\ q \in DOMAIN w.refs /\ w.refs[q] = v.refs[q]
            /\ w.refOf[v.refs[q].tail] = q
    BY <1>6, <2>2, <2>4, <2>5, <2>6 DEF Filed
  <2> QED
    BY <2>2, <2>8, <2>9, <2>10, <2>12, <2>13, <2>14, <2>15 DEF w
<1>7. CASE ~ (others = {} /\ r \notin keep)
  <2> HIDE DEF r, others, t
  <2> DEFINE ms == [v.members EXCEPT ![r] = others]
  <2>1. w = View(v.deltas, ms, v.refs, v.refOf, v.ok)
    BY <1>7 DEF Unuse, r, others
  <2>2. /\ w.deltas = v.deltas /\ w.members = ms /\ w.refs = v.refs
        /\ w.refOf = v.refOf /\ w.ok = v.ok
    BY <2>1, ViewFields
  <2>3. /\ DOMAIN ms = DOMAIN v.members /\ ms[r] = others
        /\ \A q \in DOMAIN v.members : q # r => ms[q] = v.members[q]
    BY <1>2
  <2> HIDE DEF w, ms
  <2>4. Filed(w) /\ Measured(w) /\ Live(w, D \ {x})
    BY <1>5, <2>2, <2>3 DEF Filed, Measured, Live
  <2>5. \A q : Users(w, D \ {x}, q) = Users(v, D \ {x}, q)
    BY <2>2 DEF Users
  <2>6. Counted(w, D \ {x})
    BY <1>2, <1>3, <1>4, <2>2, <2>3, <2>5 DEF Counted, SetAt
  <2>7. Inhabited(w, D \ {x}, keep)
    BY <1>3, <1>4, <1>7, <2>2, <2>5 DEF Inhabited
  <2>8. \A y \in D \ {x} : JumpTo(w, y) = JumpTo(v, y)
    BY <2>2 DEF JumpTo
  <2>9. \A q \in DOMAIN v.refs : q \in keep =>
            /\ q \in DOMAIN w.refs /\ w.refs[q] = v.refs[q]
            /\ w.refOf[v.refs[q].tail] = q
    BY <2>2 DEF Filed
  <2> QED
    BY <2>2, <2>4, <2>6, <2>7, <2>8, <2>9 DEF w
<1> QED
  BY <1>6, <1>7

-----------------------------------------------------------------------------
(* What the view's operations do to a view whose tables agree.              *)
Cached(v) == DOMAIN v.deltas
Sound(v) == Wired(v, Cached(v), {})

LEMMA AssertsFields ==
    ASSUME NEW ds, NEW ms, NEW rs, NEW of, NEW ok, NEW c
    PROVE  LET w == Asserts(View(ds, ms, rs, of, ok), c) IN
           /\ w.deltas = ds /\ w.members = ms /\ w.refs = rs /\ w.refOf = of
           /\ w.ok = (ok /\ c)
BY DEF Asserts, View

(* _set_delta makes an item jump to the tail it is given and moves nothing  *)
(* else.                                                                    *)
LEMMA SetDeltaWired ==
    ASSUME IsLink(prev), NEW v, Sound(v), NEW y \in Hash, NEW t \in Nodes, t < y
    PROVE  LET w == _set_delta(v, y, DeltaOf(y, t, Depth[y] - Depth[t])) IN
           /\ Sound(w) /\ Cached(w) = Cached(v) \cup {y}
           /\ JumpTo(w, y) = t
           /\ \A x \in Cached(v) : x # y => JumpTo(w, x) = JumpTo(v, x)
<1> DEFINE D == Cached(v)
           E == D \ {y}
           k == Depth[y] - Depth[t]
           delta == DeltaOf(y, t, k)
           v1 == WithRefTo(v, t)
           r == v1.refOf[t]
           v2 == IF y \in DOMAIN v1.deltas THEN Unuse(v1, y, {r}) ELSE v1
           moved == [d |-> Minus(delta, v1.refs[r]), ref |-> r]
           ds == Updated(v2.deltas, Entry(y, moved))
           ms == Updated(v2.members, Entry(r, SetAt(v2.members, r) \cup {y}))
           ok == v2.ok /\ v1.refs[r].tail = t /\ MinusDefined(delta, v1.refs[r])
           w == _set_delta(v, y, delta)
<1>0. delta.head = y /\ delta.tail = t /\ delta.height = k
  BY DEF DeltaOf
<1>1. w = Asserts(View(ds, ms, v2.refs, v2.refOf, v2.ok),
                  v1.refs[r].tail = t /\ MinusDefined(delta, v1.refs[r]))
  BY <1>0 DEF _set_delta
<1>2. /\ t \in DOMAIN v1.refOf /\ r \in DOMAIN v1.refs /\ v1.refs[r].tail = t
      /\ Wired(v1, D, {r}) /\ v1.deltas = v.deltas
      /\ \A x \in D : JumpTo(v1, x) = JumpTo(v, x)
  BY WithRefToWired DEF Sound
<1> HIDE DEF v1, r, delta
<1>3. /\ Wired(v2, E, {r}) /\ v2.deltas = v.deltas
      /\ r \in DOMAIN v2.refs /\ v2.refs[r] = v1.refs[r]
      /\ \A x \in E : JumpTo(v2, x) = JumpTo(v, x)
  <2>1. CASE y \in DOMAIN v1.deltas
    <3>1. y \in D /\ r \in {r}
      BY <1>2, <2>1 DEF Cached
    <3>2. v2 = Unuse(v1, y, {r})
      BY <2>1
    <3> HIDE DEF v2
    <3> DEFINE keep == {r}
    <3>3. Wired(v1, D, keep) /\ r \in keep /\ v2 = Unuse(v1, y, keep) /\ y \in D
      BY <1>2, <3>1, <3>2
    <3> HIDE DEF keep, D
    <3>4. /\ Wired(v2, D \ {y}, keep) /\ v2.deltas = v1.deltas
          /\ \A x \in D \ {y} : JumpTo(v2, x) = JumpTo(v1, x)
          /\ \A q \in DOMAIN v1.refs : q \in keep =>
                q \in DOMAIN v2.refs /\ v2.refs[q] = v1.refs[q]
      BY <3>3, UnuseWired
    <3> QED
      BY <1>2, <3>3, <3>4 DEF keep, D
  <2>2. CASE y \notin DOMAIN v1.deltas
    <3>1. E = D /\ v2 = v1
      BY <1>2, <2>2 DEF Cached
    <3> QED
      BY <1>2, <3>1
  <2> QED
    BY <2>1, <2>2
<1> HIDE DEF v2
<1>4. /\ v2.refs[r].head \in Nodes /\ v2.refs[r].tail = t
      /\ v2.refs[r].head <= t
      /\ v2.refs[r].height = Depth[v2.refs[r].head] - Depth[t]
  BY <1>2, <1>3 DEF Wired, Measured
<1>5. /\ delta.head # v2.refs[r].head
      /\ y \in Nat /\ t \in Nat /\ y \in Nodes
  BY <1>0, <1>4, HashTypes
<1>6. /\ moved.ref = r /\ moved.d.head = y /\ moved.d.tail = v2.refs[r].head
      /\ moved.d.height = Depth[y] - Depth[v2.refs[r].head]
  <2>1. Minus(delta, v1.refs[r])
          = DeltaOf(delta.head, v2.refs[r].head, delta.height - v2.refs[r].height)
    BY <1>3, <1>5 DEF Minus
  <2>2. k - (Depth[v2.refs[r].head] - Depth[t]) = Depth[y] - Depth[v2.refs[r].head]
    <3>1. Depth[y] \in Nat /\ Depth[t] \in Nat /\ Depth[v2.refs[r].head] \in Nat
      BY <1>4, <1>5, DepthNat
    <3> QED
      BY <3>1
  <2> QED
    BY <1>0, <1>4, <2>1, <2>2 DEF DeltaOf
<1>7. MinusDefined(delta, v1.refs[r])
  BY <1>0, <1>2 DEF MinusDefined
<1> HIDE DEF moved
<1>8. /\ DOMAIN ds = DOMAIN v2.deltas \cup {y} /\ ds[y] = moved
      /\ \A x \in DOMAIN v2.deltas : x # y => ds[x] = v2.deltas[x]
  BY DEF Updated, Entry
<1>9. /\ DOMAIN ms = DOMAIN v2.members \cup {r} /\ ms[r] = SetAt(v2.members, r) \cup {y}
      /\ \A q \in DOMAIN v2.members : q # r => ms[q] = v2.members[q]
  BY DEF Updated, Entry
<1>10. /\ w.deltas = ds /\ w.members = ms /\ w.refs = v2.refs /\ w.refOf = v2.refOf
       /\ w.ok = TRUE
  <2> HIDE DEF ds, ms
  <2>1. v2.ok = TRUE
    BY <1>3 DEF Wired
  <2> QED
    <3> DEFINE c == v1.refs[r].tail = t /\ MinusDefined(delta, v1.refs[r])
    <3>1. c
      BY <1>2, <1>7
    <3>5. w = Asserts(View(ds, ms, v2.refs, v2.refOf, v2.ok), c)
      BY <1>1
    <3> HIDE DEF c, w, ds, ms
    <3>2. /\ w.deltas = ds /\ w.members = ms /\ w.refs = v2.refs
          /\ w.refOf = v2.refOf /\ w.ok = (v2.ok /\ c)
      BY <3>5, AssertsFields
    <3>3. (v2.ok /\ c) = TRUE
      BY <2>1, <3>1
    <3> QED
      BY <3>2, <3>3, Zenon
<1> HIDE DEF ds, ms, w
<1>11. Filed(w) /\ Measured(w)
  BY <1>3, <1>9, <1>10 DEF Wired, Filed, Measured
<1>12. Cached(w) = D \cup {y} /\ Cached(w) = E \cup {y} /\ y \notin E /\ Cached(w) \subseteq Hash
  BY <1>3, <1>8, <1>10 DEF Cached, Sound, Wired, Live
<1>13. Live(w, Cached(w))
  <2>1. \A x \in E : w.deltas[x] = v2.deltas[x]
    BY <1>3, <1>8, <1>10 DEF Wired, Live
  <2> QED
    BY <1>3, <1>6, <1>8, <1>10, <1>12, <2>1 DEF Wired, Live, Cached
<1>14. /\ Users(w, Cached(w), r) = Users(v2, E, r) \cup {y}
       /\ \A q : q # r => Users(w, Cached(w), q) = Users(v2, E, q)
  <2>1. \A x \in E : w.deltas[x] = v2.deltas[x]
    BY <1>3, <1>8, <1>10 DEF Wired, Live
  <2>2. w.deltas[y].ref = r
    BY <1>6, <1>8, <1>10
  <2> QED
    BY <1>12, <2>1, <2>2 DEF Users
<1>15. Counted(w, Cached(w))
  BY <1>3, <1>9, <1>10, <1>14 DEF Wired, Counted, SetAt
<1>16. Inhabited(w, Cached(w), {})
  BY <1>3, <1>10, <1>14 DEF Wired, Inhabited
<1>17. JumpTo(w, y) = t
  BY <1>4, <1>6, <1>8, <1>10 DEF JumpTo
<1>18. \A x \in D : x # y => JumpTo(w, x) = JumpTo(v, x)
  <2>1. \A x \in E : w.deltas[x] = v2.deltas[x]
    BY <1>3, <1>8, <1>10 DEF Wired, Live
  <2> QED
    BY <1>3, <1>10, <2>1 DEF JumpTo
<1> QED
  BY <1>10, <1>11, <1>12, <1>13, <1>15, <1>16, <1>17, <1>18 DEF Sound, Wired, w, delta

(* _handle_removed: the item is forgotten.                                  *)
LEMMA RemovedWired ==
    ASSUME NEW v, Sound(v), NEW h
    PROVE  LET w == _handle_removed(v, h) IN
           /\ Sound(w) /\ Cached(w) = Cached(v) \ {h}
           /\ \A x \in Cached(w) : JumpTo(w, x) = JumpTo(v, x)
<1> DEFINE w == _handle_removed(v, h)
           E == Cached(v) \ {h}
<1>1. CASE h \notin Cached(v)
  <2>1. w = v
    BY <1>1 DEF _handle_removed, Cached
  <2> QED
    BY <1>1, <2>1
<1>2. CASE h \in Cached(v)
  <2> DEFINE v1 == Unuse(v, h, {})
             ds == Without(v1.deltas, h)
  <2>1. w = View(ds, v1.members, v1.refs, v1.refOf, v1.ok)
    BY <1>2 DEF _handle_removed, Cached
  <2>2. /\ Wired(v1, E, {}) /\ v1.deltas = v.deltas
        /\ \A y \in E : JumpTo(v1, y) = JumpTo(v, y)
    BY <1>2, UnuseWired DEF Sound
  <2> HIDE DEF v1
  <2>3. DOMAIN ds = E /\ \A x \in E : ds[x] = v.deltas[x]
    BY <2>2 DEF Without, Restrict, Cached
  <2> HIDE DEF ds, w
  <2>4. /\ w.deltas = ds /\ w.members = v1.members /\ w.refs = v1.refs
        /\ w.refOf = v1.refOf /\ w.ok = v1.ok
    BY <2>1, ViewFields
  <2>5. Cached(w) = E
    BY <2>3, <2>4 DEF Cached
  <2>6. Filed(w) /\ Measured(w) /\ Live(w, E)
    BY <2>2, <2>3, <2>4 DEF Wired, Filed, Measured, Live
  <2>7. \A q : Users(w, E, q) = Users(v1, E, q)
    BY <2>2, <2>3, <2>4 DEF Users
  <2>8. Counted(w, E) /\ Inhabited(w, E, {})
    BY <2>2, <2>4, <2>7 DEF Wired, Counted, Inhabited
  <2>9. \A x \in E : JumpTo(w, x) = JumpTo(v, x)
    BY <2>2, <2>3, <2>4 DEF JumpTo
  <2> QED
    BY <2>2, <2>4, <2>5, <2>6, <2>8, <2>9 DEF Sound, Wired, w
<1> QED
  BY <1>1, <1>2

(* A ref that is filed is in use.                                           *)
LEMMA FiledInUse ==
    ASSUME NEW v, Sound(v)
    PROVE  \A t : t \in DOMAIN v.refOf <=> \E x \in Cached(v) : JumpTo(v, x) = t
<1>1. ASSUME NEW t \in DOMAIN v.refOf PROVE \E x \in Cached(v) : JumpTo(v, x) = t
  <2>1. v.refOf[t] \in DOMAIN v.refs /\ v.refs[v.refOf[t]].tail = t
    BY DEF Sound, Wired, Filed
  <2>2. Users(v, Cached(v), v.refOf[t]) # {}
    BY <2>1 DEF Sound, Wired, Inhabited
  <2> QED
    BY <2>1, <2>2 DEF Users, JumpTo
<1>2. ASSUME NEW x \in Cached(v) PROVE JumpTo(v, x) \in DOMAIN v.refOf
  BY DEF Sound, Wired, Live, Filed, JumpTo
<1> QED
  BY <1>1, <1>2

(* _handle_remove_special2: nothing jumps to the parent any longer.         *)
LEMMA Special2Wired ==
    ASSUME NEW v, Sound(v), NEW h
    PROVE  LET w == _handle_remove_special2(v, h) IN
           /\ Sound(w)
           /\ Cached(w) = {x \in Cached(v) : JumpTo(v, x) # prev[h]}
           /\ \A x \in Cached(w) : JumpTo(w, x) = JumpTo(v, x)
<1> DEFINE w == _handle_remove_special2(v, h)
           p == prev[h]
           D == Cached(v)
           E == {x \in D : JumpTo(v, x) # p}
<1> USE DEF Wired
<1>1. CASE p \notin DOMAIN v.refOf
  <2>1. w = v
    BY <1>1 DEF _handle_remove_special2
  <2>2. E = D
    BY <1>1, FiledInUse
  <2> QED
    BY <2>1, <2>2
<1>2. CASE p \in DOMAIN v.refOf
  <2> DEFINE r == v.refOf[p]
             ds == Restrict(v.deltas, DOMAIN v.deltas \ v.members[r])
             ms == Without(v.members, r)
             rs == Without(v.refs, r)
             of == Without(v.refOf, p)
  <2>1. r \in DOMAIN v.refs /\ v.refs[r].tail = p
    BY <1>2 DEF Sound, Filed
  <2>2. w = View(ds, ms, rs, of, v.ok)
    BY <1>2, <2>1 DEF _handle_remove_special2, DropRef, View
  <2> HIDE DEF r
  <2>3. r \in DOMAIN v.members /\ v.members[r] = Users(v, D, r)
    <3>1. SetAt(v.members, r) = Users(v, D, r) /\ Users(v, D, r) # {}
      BY <2>1 DEF Sound, Counted, Inhabited
    <3> QED
      BY <3>1 DEF SetAt
  <2>4. \A x \in D : v.deltas[x].ref = r <=> JumpTo(v, x) = p
    <3> SUFFICES ASSUME NEW x \in D PROVE v.deltas[x].ref = r <=> JumpTo(v, x) = p
      OBVIOUS
    <3>1. v.deltas[x].ref \in DOMAIN v.refs
      BY DEF Sound, Live
    <3>2. v.refOf[v.refs[v.deltas[x].ref].tail] = v.deltas[x].ref
      BY <3>1 DEF Sound, Filed
    <3> QED
      BY <2>1, <3>2 DEF JumpTo, r
  <2>5. DOMAIN ds = E /\ \A x \in E : ds[x] = v.deltas[x]
    BY <2>3, <2>4 DEF Restrict, Users, Cached
  <2>6. DOMAIN ms = DOMAIN v.members \ {r} /\ \A q \in DOMAIN v.members : q # r => ms[q] = v.members[q]
    BY DEF Without, Restrict
  <2>7. DOMAIN rs = DOMAIN v.refs \ {r} /\ \A q \in DOMAIN v.refs : q # r => rs[q] = v.refs[q]
    BY DEF Without, Restrict
  <2>8. DOMAIN of = DOMAIN v.refOf \ {p} /\ \A s \in DOMAIN v.refOf : s # p => of[s] = v.refOf[s]
    BY DEF Without, Restrict
  <2>9. /\ w.deltas = ds /\ w.members = ms /\ w.refs = rs /\ w.refOf = of /\ w.ok = v.ok
    <3> HIDE DEF ds, ms, rs, of
    <3> QED
      BY <2>2, ViewFields
  <2> HIDE DEF w, ds, ms, rs, of
  <2>10. Filed(w)
    <3>1. DOMAIN rs \subseteq 1..(N + 1) /\ DOMAIN ms \subseteq DOMAIN rs
      BY <2>6, <2>7 DEF Sound, Filed
    <3>2. \A q \in DOMAIN rs : v.refs[q].tail # p
      BY <2>7 DEF Sound, Filed, r
    <3>3. \A q \in DOMAIN rs : rs[q].tail \in DOMAIN of /\ of[rs[q].tail] = q
      BY <2>7, <2>8, <3>2 DEF Sound, Filed
    <3>4. \A s \in DOMAIN of : v.refOf[s] # r
      BY <2>1, <2>8 DEF Sound, Filed
    <3>5. \A s \in DOMAIN of : of[s] \in DOMAIN rs /\ rs[of[s]].tail = s
      BY <2>7, <2>8, <3>4 DEF Sound, Filed
    <3> QED
      BY <2>9, <3>1, <3>3, <3>5 DEF Filed
  <2>11. Measured(w)
    BY <2>7, <2>9 DEF Sound, Measured
  <2>12. \A x \in E : v.deltas[x].ref # r /\ x \in D
    BY <2>4
  <2>13. Live(w, E)
    BY <2>5, <2>7, <2>9, <2>12 DEF Sound, Live
  <2>14. \A q : q # r => Users(w, E, q) = Users(v, D, q)
    BY <2>4, <2>5, <2>9 DEF Users
  <2>15. Counted(w, E)
    BY <2>6, <2>7, <2>9, <2>14 DEF Sound, Counted, SetAt
  <2>16. Inhabited(w, E, {})
    BY <2>7, <2>9, <2>14 DEF Sound, Inhabited
  <2>17. \A x \in E : JumpTo(w, x) = JumpTo(v, x)
    <3>1. \A x \in E : v.deltas[x].ref \in DOMAIN v.refs
      BY <2>12 DEF Sound, Live
    <3>2. \A x \in E : w.deltas[x] = v.deltas[x] /\ w.refs[v.deltas[x].ref] = v.refs[v.deltas[x].ref]
      BY <2>5, <2>7, <2>9, <2>12, <3>1
    <3> QED
      BY <3>2 DEF JumpTo
  <2>18. Cached(w) = E
    BY <2>5, <2>9 DEF Cached
  <2>19. w.ok = TRUE
    BY <2>9 DEF Sound
  <2> QED
    BY <2>10, <2>11, <2>13, <2>15, <2>16, <2>17, <2>18, <2>19 DEF Sound, w
<1> QED
  BY <1>1, <1>2

(* _handle_remove_special moves the ref that ends at the parent, once       *)
(* nothing jumps to the item: what jumped to the parent jumps to the item.  *)
LEMMA MoveRefWired ==
    ASSUME IsLink(prev), NEW v, Sound(v), NEW h \in Hash,
           prev[h] \in DOMAIN v.refOf, h \notin DOMAIN v.refOf
    PROVE  LET w == MoveRef(v, h) IN
           /\ Sound(w) /\ Cached(w) = Cached(v)
           /\ \A x \in Cached(v) :
                 JumpTo(w, x) = IF JumpTo(v, x) = prev[h] THEN h ELSE JumpTo(v, x)
<1> DEFINE w == MoveRef(v, h)
           p == prev[h]
           D == Cached(v)
           r == v.refOf[p]
           moved == Minus(v.refs[r], from_element(h))
           rs == [v.refs EXCEPT ![r] = moved]
           of == Updated(Without(v.refOf, p), Entry(h, r))
<1> USE DEF Wired
<1>1. /\ r \in DOMAIN v.refs /\ v.refs[r].tail = p
      /\ v.refs[r].head \in Nodes /\ v.refs[r].head <= p
      /\ v.refs[r].height = Depth[v.refs[r].head] - Depth[p]
  BY DEF Sound, Filed, Measured
<1>2. /\ p \in Nodes /\ p < h /\ h \in Nodes /\ p \in Nat /\ h \in Nat
      /\ v.refs[r].head \in Nat
  BY <1>1, HashTypes DEF IsLink
<1>3. Depth[h] = 1 + Depth[p]
  BY <1>2, HeightFacts DEF Depth
<1>4. from_element(h) = DeltaOf(h, p, 1)
  BY DEF from_element
<1>5. w = Asserts(View(v.deltas, v.members, rs, of, v.ok),
                  /\ v.refs[r].tail = p
                  /\ MinusDefined(v.refs[r], from_element(h)) /\ moved.tail = h)
  BY DEF MoveRef
<1> HIDE DEF p, r
<1>6. moved = DeltaOf(v.refs[r].head, h, v.refs[r].height - 1)
  BY <1>1, <1>2, <1>4 DEF Minus, DeltaOf
<1>7. /\ moved.head = v.refs[r].head /\ moved.tail = h
      /\ moved.height = Depth[v.refs[r].head] - Depth[h]
  <2>1. v.refs[r].height - 1 = Depth[v.refs[r].head] - Depth[h]
    BY <1>1, <1>2, <1>3, DepthNat
  <2> QED
    BY <1>6, <2>1 DEF DeltaOf
<1>8. MinusDefined(v.refs[r], from_element(h))
  BY <1>1, <1>4 DEF MinusDefined, DeltaOf
<1> HIDE DEF moved
<1>9. /\ DOMAIN rs = DOMAIN v.refs /\ rs[r] = moved
      /\ \A q \in DOMAIN v.refs : q # r => rs[q] = v.refs[q]
  BY <1>1
<1>10. /\ DOMAIN of = (DOMAIN v.refOf \ {p}) \cup {h} /\ of[h] = r
       /\ \A s \in DOMAIN v.refOf : s # p => of[s] = v.refOf[s]
  BY DEF Updated, Entry, Without, Restrict
<1>11. /\ w.deltas = v.deltas /\ w.members = v.members /\ w.refs = rs /\ w.refOf = of
       /\ w.ok = TRUE
  <2> HIDE DEF rs, of
  <2> QED
    <3>1. v.ok = TRUE
      BY DEF Sound
    <3> DEFINE c == /\ v.refs[r].tail = p
                    /\ MinusDefined(v.refs[r], from_element(h)) /\ moved.tail = h
    <3>2. c
      BY <1>1, <1>7, <1>8
    <3>5. w = Asserts(View(v.deltas, v.members, rs, of, v.ok), c)
      BY <1>5
    <3> HIDE DEF c, w, rs, of
    <3>3. /\ w.deltas = v.deltas /\ w.members = v.members /\ w.refs = rs
          /\ w.refOf = of /\ w.ok = (v.ok /\ c)
      BY <3>5, AssertsFields
    <3>4. (v.ok /\ c) = TRUE
      BY <3>1, <3>2
    <3> QED
      BY <3>3, <3>4, Zenon
<1> HIDE DEF w, rs, of
<1>12. \A q \in DOMAIN v.refs : q # r => v.refs[q].tail # p
  BY DEF Sound, Filed, r
<1>13. Filed(w)
  <2>1. DOMAIN rs \subseteq 1..(N + 1) /\ DOMAIN v.members \subseteq DOMAIN rs
    BY <1>9 DEF Sound, Filed
  <2>2. \A q \in DOMAIN rs : rs[q].tail \in DOMAIN of /\ of[rs[q].tail] = q
    BY <1>7, <1>9, <1>10, <1>12 DEF Sound, Filed
  <2>3. \A s \in DOMAIN of : s # h => s \in DOMAIN v.refOf /\ s # p /\ v.refOf[s] # r
    BY <1>1, <1>10 DEF Sound, Filed
  <2>4. \A s \in DOMAIN of : of[s] \in DOMAIN rs /\ rs[of[s]].tail = s
    BY <1>1, <1>7, <1>9, <1>10, <2>3 DEF Sound, Filed
  <2> QED
    BY <1>11, <2>1, <2>2, <2>4 DEF Filed
<1>14. Measured(w)
  BY <1>1, <1>2, <1>7, <1>9, <1>11 DEF Sound, Measured
<1>15. Live(w, D)
  BY <1>7, <1>9, <1>11 DEF Sound, Live
<1>16. \A q : Users(w, D, q) = Users(v, D, q)
  BY <1>11 DEF Users
<1>17. Counted(w, D) /\ Inhabited(w, D, {})
  BY <1>9, <1>11, <1>16 DEF Sound, Counted, Inhabited
<1>18. \A x \in D : JumpTo(w, x) = IF JumpTo(v, x) = p THEN h ELSE JumpTo(v, x)
  BY <1>1, <1>7, <1>9, <1>11, <1>12 DEF Sound, Live, JumpTo
<1>19. Cached(w) = D
  BY <1>11 DEF Cached
<1> QED
  BY <1>11, <1>13, <1>14, <1>15, <1>17, <1>18, <1>19 DEF Sound, w, p

-----------------------------------------------------------------------------
(* Walks one after another.                                                 *)

(* The largest index of a set that holds the last one.                      *)
LEMMA MaxIsLast ==
    ASSUME NEW k \in Nat, NEW t \in SUBSET (1..k), k \in t
    PROVE  Max(t) = k
<1>1. \A y \in t : k >= y /\ y \in Int
  OBVIOUS
<1>2. \A x \in t : (\A y \in t : x >= y) => x = k
  BY <1>1
<1>3. Max(t) \in t /\ \A y \in t : Max(t) >= y
  BY <1>1 DEF Max
<1> QED
  BY <1>2, <1>3

(* The views a walk's path is pointed at its end through.                    *)
PointSteps(u, v, s, n) ==
    /\ u[0] = v
    /\ \A i \in 1..n : u[i] = _set_delta(u[i - 1], s[i], Walk(v, s[i]))

LEMMA WalkFold ==
    ASSUME NEW v, NEW s, NEW n \in Nat, DOMAIN s = 1..n
    PROVE  \E u : PointSteps(u, v, s, n) /\ PointAtEnd(v, s) = u[n]
<1> DEFINE op(w, y) == _set_delta(w, y, Walk(v, y))
           R(it, k) == [t \in SUBSET (1..k) |->
                          IF t = {} THEN v ELSE op(it[t \ {Max(t)}], s[Max(t)])]
           R0(it) == [t \in SUBSET DOMAIN s |->
                        IF t = {} THEN v ELSE LET x == Max(t) IN op(it[t \ {x}], s[x])]
           fold == PointAtEnd(v, s)
           it0 == CHOOSE it : it = R0(it)
<1>1. fold = it0[DOMAIN s]
  <2> QED
    BY DEF op, PointAtEnd, FoldLeft, MapThenFoldSet
<1> HIDE DEF op, fold
<1>2. \A it : R0(it) = R(it, n)
  OBVIOUS
<1> DEFINE Bad == {k \in 0..n : ~ \E it : it = R(it, k)}
<1>3. Bad = {}
  <2> SUFFICES ASSUME Bad # {} PROVE FALSE
    OBVIOUS
  <2> HIDE DEF R
  <2>1. PICK k \in Bad : \A j \in Bad : k <= j
    <3>1. Bad \in SUBSET Nat
      OBVIOUS
    <3> HIDE DEF Bad
    <3> QED
      BY <3>1, LeastElement
  <2>2. k \in 0..n /\ ~ (\E it : it = R(it, k)) /\ k \in Nat
    OBVIOUS
  <2>3. k # 0
    <3> DEFINE it == [t \in {{}} |-> v]
    <3>1. it = R(it, 0)
      <4>1. SUBSET (1..0) = {{}}
        OBVIOUS
      <4> QED
        BY <4>1 DEF R
    <3> QED
      BY <2>2, <3>1
  <2>4. PICK it : it = R(it, k - 1)
    <3>1. k - 1 \in 0..n /\ k - 1 \notin Bad
      <4> HIDE DEF Bad
      <4>1. k - 1 \in Bad => k <= k - 1
        BY <2>1
      <4> QED
        BY <4>1, <2>2, <2>3
    <3> QED
      BY <3>1
  <2> DEFINE up == [t \in SUBSET (1..k) |->
                      IF k \in t THEN op(it[t \ {k}], s[k]) ELSE it[t]]
  <2>5. \A t \in SUBSET (1..k) : k \notin t => t \in SUBSET (1..(k - 1))
    BY <2>2
  <2>6. \A t \in SUBSET (1..k) : t \ {k} \in SUBSET (1..(k - 1))
    BY <2>2
  <2>7. \A t \in SUBSET (1..(k - 1)) : t \in SUBSET (1..k) /\ k \notin t
    BY <2>2
  <2>8. \A t \in SUBSET (1..k) : up[t] = IF t = {} THEN v ELSE op(up[t \ {Max(t)}], s[Max(t)])
    <3> TAKE t \in SUBSET (1..k)
    <3>1. CASE k \in t
      <4>1. Max(t) = k
        BY <2>2, <3>1, MaxIsLast
      <4>2. up[t \ {k}] = it[t \ {k}]
        BY <2>6
      <4> QED
        BY <3>1, <4>1, <4>2
    <3>2. CASE k \notin t
      <4>1. /\ up[t] = it[t]
            /\ it[t] = IF t = {} THEN v ELSE op(it[t \ {Max(t)}], s[Max(t)])
        BY <2>4, <2>5, <3>2 DEF R
      <4>2. up[t \ {Max(t)}] = it[t \ {Max(t)}]
        BY <2>5, <3>2
      <4> QED
        BY <4>1, <4>2
    <3> QED
      BY <3>1, <3>2
  <2>9. up = R(up, k)
    <3>1. up = [t \in SUBSET (1..k) |-> up[t]]
      OBVIOUS
    <3> HIDE DEF up
    <3> QED
      BY <2>8, <3>1 DEF R
  <2> QED
    BY <2>2, <2>9
<1>4. it0 = R(it0, n)
  <2>1. PICK it : it = R(it, n)
    <3> HIDE DEF R
    <3>1. n \in 0..n /\ n \notin Bad
      <4> HIDE DEF Bad
      <4> QED
        BY <1>3
    <3> QED
      BY <3>1
  <2>2. it0 = CHOOSE it1 : it1 = R(it1, n)
    BY <1>2
  <2> HIDE DEF R, it0
  <2> QED
    BY <2>1, <2>2
<1> HIDE DEF it0
<1> DEFINE u == [i \in 0..n |-> it0[1..i]]
<1>5. u[0] = v
  <2>1. 1..0 = {} /\ {} \in SUBSET (1..n)
    OBVIOUS
  <2> QED
    BY <1>4, <2>1
<1>6. \A i \in 1..n : u[i] = op(u[i - 1], s[i])
  <2> TAKE i \in 1..n
  <2>1. 1..i \in SUBSET (1..n) /\ i \in 1..i /\ i \in Nat /\ i \in 0..n /\ i - 1 \in 0..n
    OBVIOUS
  <2>2. Max(1..i) = i
    BY <2>1, MaxIsLast
  <2>3. (1..i) \ {i} = 1..(i - 1)
    OBVIOUS
  <2>4. it0[1..i] = op(it0[1..(i - 1)], s[i])
    BY <1>4, <2>1, <2>2, <2>3
  <2> QED
    BY <2>1, <2>4
<1>7. fold = u[n]
  BY <1>1
<1> HIDE DEF u
<1>8. PointSteps(u, v, s, n)
  BY <1>5, <1>6 DEF PointSteps, op
<1> QED
  BY <1>7, <1>8 DEF fold
(* The views a sequence of walks leaves one after another.                  *)
WalkSteps(u, v, s, n) ==
    /\ u[0] = v
    /\ \A i \in 1..n : u[i] = AfterWalk(u[i - 1], s[i])

LEMMA WalksFold ==
    ASSUME NEW v, NEW s, NEW n \in Nat, DOMAIN s = 1..n
    PROVE  \E u : WalkSteps(u, v, s, n) /\ AfterWalks(v, s) = u[n]
<1> DEFINE op(w, y) == AfterWalk(w, y)
           R(it, k) == [t \in SUBSET (1..k) |->
                          IF t = {} THEN v ELSE op(it[t \ {Max(t)}], s[Max(t)])]
           R0(it) == [t \in SUBSET DOMAIN s |->
                        IF t = {} THEN v ELSE LET x == Max(t) IN op(it[t \ {x}], s[x])]
           fold == AfterWalks(v, s)
           it0 == CHOOSE it : it = R0(it)
<1>1. fold = it0[DOMAIN s]
  <2> QED
    BY DEF op, AfterWalks, FoldLeft, MapThenFoldSet
<1> HIDE DEF op, fold
<1>2. \A it : R0(it) = R(it, n)
  OBVIOUS
<1> DEFINE Bad == {k \in 0..n : ~ \E it : it = R(it, k)}
<1>3. Bad = {}
  <2> SUFFICES ASSUME Bad # {} PROVE FALSE
    OBVIOUS
  <2> HIDE DEF R
  <2>1. PICK k \in Bad : \A j \in Bad : k <= j
    <3>1. Bad \in SUBSET Nat
      OBVIOUS
    <3> HIDE DEF Bad
    <3> QED
      BY <3>1, LeastElement
  <2>2. k \in 0..n /\ ~ (\E it : it = R(it, k)) /\ k \in Nat
    OBVIOUS
  <2>3. k # 0
    <3> DEFINE it == [t \in {{}} |-> v]
    <3>1. it = R(it, 0)
      <4>1. SUBSET (1..0) = {{}}
        OBVIOUS
      <4> QED
        BY <4>1 DEF R
    <3> QED
      BY <2>2, <3>1
  <2>4. PICK it : it = R(it, k - 1)
    <3>1. k - 1 \in 0..n /\ k - 1 \notin Bad
      <4> HIDE DEF Bad
      <4>1. k - 1 \in Bad => k <= k - 1
        BY <2>1
      <4> QED
        BY <4>1, <2>2, <2>3
    <3> QED
      BY <3>1
  <2> DEFINE up == [t \in SUBSET (1..k) |->
                      IF k \in t THEN op(it[t \ {k}], s[k]) ELSE it[t]]
  <2>5. \A t \in SUBSET (1..k) : k \notin t => t \in SUBSET (1..(k - 1))
    BY <2>2
  <2>6. \A t \in SUBSET (1..k) : t \ {k} \in SUBSET (1..(k - 1))
    BY <2>2
  <2>7. \A t \in SUBSET (1..(k - 1)) : t \in SUBSET (1..k) /\ k \notin t
    BY <2>2
  <2>8. \A t \in SUBSET (1..k) : up[t] = IF t = {} THEN v ELSE op(up[t \ {Max(t)}], s[Max(t)])
    <3> TAKE t \in SUBSET (1..k)
    <3>1. CASE k \in t
      <4>1. Max(t) = k
        BY <2>2, <3>1, MaxIsLast
      <4>2. up[t \ {k}] = it[t \ {k}]
        BY <2>6
      <4> QED
        BY <3>1, <4>1, <4>2
    <3>2. CASE k \notin t
      <4>1. /\ up[t] = it[t]
            /\ it[t] = IF t = {} THEN v ELSE op(it[t \ {Max(t)}], s[Max(t)])
        BY <2>4, <2>5, <3>2 DEF R
      <4>2. up[t \ {Max(t)}] = it[t \ {Max(t)}]
        BY <2>5, <3>2
      <4> QED
        BY <4>1, <4>2
    <3> QED
      BY <3>1, <3>2
  <2>9. up = R(up, k)
    <3>1. up = [t \in SUBSET (1..k) |-> up[t]]
      OBVIOUS
    <3> HIDE DEF up
    <3> QED
      BY <2>8, <3>1 DEF R
  <2> QED
    BY <2>2, <2>9
<1>4. it0 = R(it0, n)
  <2>1. PICK it : it = R(it, n)
    <3> HIDE DEF R
    <3>1. n \in 0..n /\ n \notin Bad
      <4> HIDE DEF Bad
      <4> QED
        BY <1>3
    <3> QED
      BY <3>1
  <2>2. it0 = CHOOSE it1 : it1 = R(it1, n)
    BY <1>2
  <2> HIDE DEF R, it0
  <2> QED
    BY <2>1, <2>2
<1> HIDE DEF it0
<1> DEFINE u == [i \in 0..n |-> it0[1..i]]
<1>5. u[0] = v
  <2>1. 1..0 = {} /\ {} \in SUBSET (1..n)
    OBVIOUS
  <2> QED
    BY <1>4, <2>1
<1>6. \A i \in 1..n : u[i] = op(u[i - 1], s[i])
  <2> TAKE i \in 1..n
  <2>1. 1..i \in SUBSET (1..n) /\ i \in 1..i /\ i \in Nat /\ i \in 0..n /\ i - 1 \in 0..n
    OBVIOUS
  <2>2. Max(1..i) = i
    BY <2>1, MaxIsLast
  <2>3. (1..i) \ {i} = 1..(i - 1)
    OBVIOUS
  <2>4. it0[1..i] = op(it0[1..(i - 1)], s[i])
    BY <1>4, <2>1, <2>2, <2>3
  <2> QED
    BY <2>1, <2>4
<1>7. fold = u[n]
  BY <1>1
<1> HIDE DEF u
<1>8. WalkSteps(u, v, s, n)
  BY <1>5, <1>6 DEF WalkSteps, op
<1> QED
  BY <1>7, <1>8 DEF fold

-----------------------------------------------------------------------------
(* On the way down from x through S, t is met before the end or is the end. *)
Through(S, x, t) == x \in S /\ t \in Nodes /\ t # x /\ LastIn(S \ {t}, x) = t
ExactJumps(v, S) == \A x \in Cached(v) : Through(S, x, JumpTo(v, x))

LEMMA ThroughFacts ==
    ASSUME IsLink(prev), NEW S \in SUBSET Hash, NEW x, NEW t, Through(S, x, t)
    PROVE  x \in S /\ t \in Nodes /\ t < x /\ LastIn(S, x) = LastIn(S, t)
<1> USE DEF Through
<1>1. x \in S /\ x \in Nodes /\ t \in Nodes /\ t # x /\ S \ {t} \in SUBSET Hash
      /\ x \in Nat /\ t \in Nat
  BY HashTypes
<1>2. t < x
  <2>1. LastIn(S \ {t}, x) <= x
    BY <1>1, LastInFacts
  <2> QED
    BY <1>1, <2>1
<1>3. CASE t \in S
  <2>1. t \in Hash \ (S \ {t}) /\ (S \ {t}) \cup {t} = S
    BY <1>3
  <2>2. \A y \in Nodes : LastIn((S \ {t}) \cup {t}, y) =
           IF LastIn(S \ {t}, y) = t THEN LastIn(S \ {t}, prev[t]) ELSE LastIn(S \ {t}, y)
    BY <1>1, <2>1, LastInAdd
  <2>3. t \notin S \ {t} /\ LastIn(S \ {t}, t) = t
    BY <1>1, LastInFacts
  <2> QED
    BY <1>1, <1>2, <2>1, <2>2, <2>3
<1>4. CASE t \notin S
  <2>1. S \ {t} = S /\ LastIn(S, t) = t
    BY <1>1, <1>4, LastInFacts
  <2> QED
    BY <1>1, <1>2, <2>1
<1> QED
  BY <1>3, <1>4

(* The end of its walk is such a node.                                      *)
LEMMA EndIsThrough ==
    ASSUME IsLink(prev), NEW S \in SUBSET Hash, NEW x \in S
    PROVE  Through(S, x, LastIn(S, x)) /\ LastIn(S, x) < x
<1>1. x \in Nodes /\ LastIn(S, x) \in Nodes \ S
  BY LastInFacts, HashTypes
<1>2. S \ {LastIn(S, x)} = S
  BY <1>1
<1>3. Through(S, x, LastIn(S, x))
  BY <1>1, <1>2 DEF Through
<1> QED
  BY <1>3, ThroughFacts

(* One jump, cached or not, leads down the way and measures it.             *)
LEMMA OneJump ==
    ASSUME IsLink(prev), items \in SUBSET Hash, NEW v, Sound(v), ExactJumps(v, items)
    PROVE  \A y \in items :
              LET t == _get_delta(v, y).tail IN
              /\ t \in Nodes /\ t < y /\ LastIn(items, y) = LastIn(items, t)
              /\ _get_delta(v, y) = DeltaOf(y, t, Depth[y] - Depth[t])
<1> SUFFICES ASSUME NEW y \in items
             PROVE  LET t == _get_delta(v, y).tail IN
                    /\ t \in Nodes /\ t < y /\ LastIn(items, y) = LastIn(items, t)
                    /\ _get_delta(v, y) = DeltaOf(y, t, Depth[y] - Depth[t])
  OBVIOUS
<1>0. y \in Nodes /\ y \in Hash /\ Depth[y] \in Nat
  BY HashTypes, DepthNat
<1>1. CASE y \in DOMAIN v.deltas
  <2> DEFINE r == v.deltas[y].ref
             t == v.refs[r].tail
             m == v.refs[r].head
  <2>1. Through(items, y, t)
    BY <1>1 DEF ExactJumps, Cached, JumpTo
  <2>2. t \in Nodes /\ t < y /\ LastIn(items, y) = LastIn(items, t)
    BY <2>1, ThroughFacts
  <2>3. /\ r \in DOMAIN v.refs /\ v.deltas[y].d.head = y
        /\ v.deltas[y].d.height = Depth[y] - Depth[m]
    BY <1>1 DEF Sound, Wired, Live, Cached
  <2>4. m \in Nodes /\ v.refs[r].height = Depth[m] - Depth[t]
    BY <2>3 DEF Sound, Wired, Measured
  <2>5. _get_delta(v, y) = DeltaOf(v.deltas[y].d.head, t,
                                   v.deltas[y].d.height + v.refs[r].height)
    BY <1>1 DEF _get_delta, Plus
  <2> HIDE DEF t, m, r
  <2>6. Depth[m] \in Nat /\ Depth[t] \in Nat
    BY <2>2, <2>4, DepthNat
  <2>7. (Depth[y] - Depth[m]) + (Depth[m] - Depth[t]) = Depth[y] - Depth[t]
    BY <1>0, <2>6
  <2>8. _get_delta(v, y) = DeltaOf(y, t, Depth[y] - Depth[t])
    BY <2>3, <2>4, <2>5, <2>7
  <2>9. _get_delta(v, y).tail = t
    BY <2>8, DeltaFields
  <2> QED
    BY <2>2, <2>8, <2>9
<1>2. CASE y \notin DOMAIN v.deltas
  <2>1. prev[y] \in Nodes /\ prev[y] < y /\ LastIn(items, y) = LastIn(items, prev[y])
    BY LastInFacts
  <2>2. Depth[y] = 1 + Depth[prev[y]]
    BY <1>0, HeightFacts DEF Depth
  <2>3. Depth[y] - Depth[prev[y]] = 1
    BY <1>0, <2>1, <2>2, DepthNat
  <2>4. _get_delta(v, y) = DeltaOf(y, prev[y], 1)
    BY <1>2 DEF _get_delta, from_element
  <2>5. _get_delta(v, y).tail = prev[y]
    BY <2>4, DeltaFields
  <2> QED
    BY <2>1, <2>3, <2>4, <2>5
<1> QED
  BY <1>1, <1>2

(* An answer is what a full walk finds.                                     *)
LEMMA WalkExact ==
    ASSUME IsLink(prev), items \in SUBSET Hash, NEW v, Sound(v), ExactJumps(v, items)
    PROVE  \A x \in Nodes :
              Walk(v, x) = DeltaOf(x, LastIn(items, x), Depth[x] - Depth[LastIn(items, x)])
<1> DEFINE next == [y \in Nodes |-> _get_delta(v, y).tail]
           R(g) == [y \in Nodes |-> IF y \in items
                                    THEN Plus(_get_delta(v, y), g[_get_delta(v, y).tail])
                                    ELSE get_none(y)]
           Exact(y) == DeltaOf(y, LastIn(items, y), Depth[y] - Depth[LastIn(items, y)])
           W == [y \in Nodes |-> Exact(y)]
           g0 == CHOOSE g : g = R(g)
<1>0. \A y \in Nodes : /\ LastIn(items, y) \in Nodes
                       /\ Depth[y] \in Nat /\ Depth[LastIn(items, y)] \in Nat
  BY LastInFacts, DepthNat
<1>1. \A y \in items : /\ y \in Nodes /\ next[y] \in Nodes /\ next[y] < y
                       /\ next[y] = _get_delta(v, y).tail
                       /\ LastIn(items, y) = LastIn(items, next[y])
                       /\ _get_delta(v, y) = DeltaOf(y, next[y], Depth[y] - Depth[next[y]])
  BY OneJump, HashTypes
<1>2. \A y \in items : Plus(_get_delta(v, y), Exact(next[y])) = Exact(y)
  <2> SUFFICES ASSUME NEW y \in items PROVE Plus(_get_delta(v, y), Exact(next[y])) = Exact(y)
    OBVIOUS
  <2> DEFINE t == next[y]
             l == LastIn(items, t)
  <2>1. /\ t \in Nodes /\ y \in Nodes /\ LastIn(items, y) = l
        /\ _get_delta(v, y) = DeltaOf(y, t, Depth[y] - Depth[t])
    BY <1>1
  <2> HIDE DEF next, t
  <2>2. Depth[y] \in Nat /\ Depth[t] \in Nat /\ Depth[l] \in Nat
    BY <1>0, <2>1
  <2> HIDE DEF l
  <2>3. (Depth[y] - Depth[t]) + (Depth[t] - Depth[l]) = Depth[y] - Depth[l]
    BY <2>2
  <2>4. Exact(t) = DeltaOf(t, l, Depth[t] - Depth[l])
    BY DEF l
  <2>5. Plus(_get_delta(v, y), Exact(t)) = DeltaOf(y, l, (Depth[y] - Depth[t]) + (Depth[t] - Depth[l]))
    BY <2>1, <2>4 DEF Plus, DeltaOf
  <2> QED
    BY <2>1, <2>3, <2>5 DEF t
<1>3. \A y \in Nodes \ items : get_none(y) = Exact(y)
  <2> SUFFICES ASSUME NEW y \in Nodes \ items PROVE get_none(y) = Exact(y)
    OBVIOUS
  <2>1. LastIn(items, y) = y /\ Depth[y] - Depth[y] = 0
    BY <1>0, LastInFacts
  <2> QED
    BY <2>1 DEF get_none
<1> HIDE DEF next, Exact
<1>4. W = R(W)
  BY <1>1, <1>2, <1>3
<1>5. g0 = R(g0)
  <2> HIDE DEF R, W
  <2> QED
    BY <1>4
<1> HIDE DEF g0
<1> DEFINE T == {y \in Nodes : g0[y] # Exact(y)}
<1>6. T = {}
  <2> SUFFICES ASSUME T # {} PROVE FALSE
    OBVIOUS
  <2>1. PICK m \in T : m \notin items \/ next[m] \in Nodes \ T
    <3>1. Descends(next, items) /\ T \in SUBSET Nodes
      BY <1>1 DEF Descends
    <3> HIDE DEF T
    <3> QED
      BY <3>1, LowestLacking
  <2>2. g0[m] = IF m \in items THEN Plus(_get_delta(v, m), g0[next[m]]) ELSE get_none(m)
    BY <1>1, <1>5
  <2>3. CASE m \notin items
    BY <1>3, <2>2, <2>3
  <2>4. CASE m \in items
    <3>1. g0[next[m]] = Exact(next[m])
      BY <2>1, <2>4
    <3> QED
      BY <1>2, <2>2, <2>4, <3>1
  <2> QED
    BY <2>3, <2>4
<1> SUFFICES ASSUME NEW x \in Nodes PROVE Walk(v, x) = Exact(x)
  BY DEF Exact
<1>7. Walk(v, x) = g0[x]
  BY DEF Walk, g0
<1> QED
  BY <1>6, <1>7

(* The hashes a walk jumps from are items, the first one the hash it is     *)
(* asked for.                                                               *)
LEMMA PathFacts ==
    ASSUME IsLink(prev), items \in SUBSET Hash, NEW v, Sound(v), ExactJumps(v, items),
           NEW x \in Nodes
    PROVE  /\ Path(v, x) \in Seq(items)
           /\ x \in items => Len(Path(v, x)) > 0 /\ Path(v, x)[1] = x
<1> DEFINE next == [y \in Nodes |-> _get_delta(v, y).tail]
           R(g) == [y \in Nodes |-> IF y \in items
                                    THEN <<y>> \o g[_get_delta(v, y).tail] ELSE <<>>]
           V == Seq(items)
           G == [y \in Nodes |-> [s \in V |-> IF y \in items THEN <<y>> \o s ELSE s]]
           base == [y \in Nodes |-> <<>>]
           g0 == CHOOSE g : g = R(g)
<1>1. \A y \in items : /\ y \in Nodes /\ next[y] \in Nodes /\ next[y] < y
                       /\ next[y] = _get_delta(v, y).tail
  BY OneJump, HashTypes
<1>2. Descends(next, items)
  BY <1>1 DEF Descends
<1> HIDE DEF next
<1>3. PICK s \in [Nodes -> V] :
         \A y \in Nodes : s[y] = IF y \in items THEN G[y][s[next[y]]] ELSE base[y]
  <2>1. G \in [Nodes -> [V -> V]] /\ base \in [Nodes -> V]
    <3>1. \A y \in Nodes : \A q \in V : (IF y \in items THEN <<y>> \o q ELSE q) \in V
      OBVIOUS
    <3>2. <<>> \in V
      OBVIOUS
    <3> HIDE DEF V
    <3> QED
      BY <3>1, <3>2
  <2> HIDE DEF V, G, base
  <2>2. \A ba \in [Nodes -> V] : \A g \in [Nodes -> [V -> V]] :
           \E s \in [Nodes -> V] :
              \A y \in Nodes : s[y] = IF y \in items THEN g[y][s[next[y]]] ELSE ba[y]
    BY <1>2, RecursionExists
  <2> QED
    BY <2>1, <2>2
<1>4. s = R(s)
  <2>1. \A y \in items : s[y] = <<y>> \o s[_get_delta(v, y).tail]
    BY <1>1, <1>3
  <2>2. \A y \in Nodes \ items : s[y] = <<>>
    BY <1>3
  <2>3. s = [y \in Nodes |-> s[y]]
    BY <1>3
  <2> HIDE DEF G, V, base
  <2> QED
    BY <2>1, <2>2, <2>3
<1>5. g0 = R(g0)
  <2> HIDE DEF R
  <2> QED
    BY <1>4
<1>6. Path(v, x) = g0[x]
  BY DEF Path, g0
<1> HIDE DEF g0
<1>7. \A y \in Nodes : g0[y] = IF y \in items THEN <<y>> \o g0[next[y]] ELSE <<>>
  BY <1>1, <1>5
<1> DEFINE T == {y \in Nodes : g0[y] \notin V}
<1>8. T = {}
  <2> SUFFICES ASSUME T # {} PROVE FALSE
    OBVIOUS
  <2>1. PICK m \in T : m \notin items \/ next[m] \in Nodes \ T
    <3>1. T \in SUBSET Nodes
      OBVIOUS
    <3> HIDE DEF T
    <3> QED
      BY <1>2, <3>1, LowestLacking
  <2>2. CASE m \notin items
    <3>1. g0[m] = <<>>
      BY <1>7, <2>2
    <3>2. <<>> \in Seq(items)
      OBVIOUS
    <3> QED
      BY <2>1, <3>1, <3>2
  <2>3. CASE m \in items
    <3>1. g0[next[m]] \in Seq(items)
      BY <2>1, <2>3
    <3>2. <<m>> \o g0[next[m]] \in Seq(items)
      BY <2>3, <3>1
    <3> QED
      BY <1>7, <2>3, <3>2
  <2> QED
    BY <2>2, <2>3
<1>9. x \in items => Len(g0[x]) > 0 /\ g0[x][1] = x
  <2> SUFFICES ASSUME x \in items PROVE Len(g0[x]) > 0 /\ g0[x][1] = x
    OBVIOUS
  <2>1. g0[next[x]] \in Seq(items) /\ g0[x] = <<x>> \o g0[next[x]]
    BY <1>1, <1>7, <1>8
  <2> HIDE DEF R
  <2> QED
    BY <2>1
<1> QED
  BY <1>6, <1>8, <1>9

(* Between two views only questions have been asked, of xs among others:    *)
(* an item jumps where it did or to the end, and those of xs to the end.    *)
Asked(v, w, xs) ==
    /\ Sound(w) /\ ExactJumps(w, items)
    /\ Cached(v) \subseteq Cached(w)
    /\ \A y \in Cached(w) : \/ JumpTo(w, y) = LastIn(items, y)
                            \/ y \in Cached(v) /\ JumpTo(w, y) = JumpTo(v, y)
    /\ \A y \in xs : y \in items => y \in Cached(w) /\ JumpTo(w, y) = LastIn(items, y)

(* Questions in a row are questions.                                        *)
LEMMA AskedFacts ==
    /\ \A v : Sound(v) /\ ExactJumps(v, items) => Asked(v, v, {})
    /\ \A u, v, w, xs, ys : Asked(u, v, xs) /\ Asked(v, w, ys) => Asked(u, w, xs \cup ys)
<1>1. \A v : Sound(v) /\ ExactJumps(v, items) => Asked(v, v, {})
  BY DEF Asked
<1>2. ASSUME NEW u, NEW v, NEW w, NEW xs, NEW ys, Asked(u, v, xs), Asked(v, w, ys)
      PROVE  Asked(u, w, xs \cup ys)
  <2>1. Sound(w) /\ ExactJumps(w, items) /\ Cached(u) \subseteq Cached(w)
    BY <1>2 DEF Asked
  <2>2. \A y \in Cached(w) : \/ JumpTo(w, y) = LastIn(items, y)
                             \/ y \in Cached(u) /\ JumpTo(w, y) = JumpTo(u, y)
    BY <1>2 DEF Asked
  <2>3. \A y \in xs \cup ys :
           y \in items => y \in Cached(w) /\ JumpTo(w, y) = LastIn(items, y)
    BY <1>2 DEF Asked
  <2> QED
    BY <2>1, <2>2, <2>3 DEF Asked
<1> QED
  BY <1>1, <1>2

(* To point an item at the end of its walk is to answer a question.         *)
LEMMA PointAsked ==
    ASSUME IsLink(prev), items \in SUBSET Hash, NEW v, Sound(v), ExactJumps(v, items),
           NEW w, Sound(w), ExactJumps(w, items), NEW y \in items
    PROVE  Asked(w, _set_delta(w, y, Walk(v, y)), {y})
<1> DEFINE l == LastIn(items, y)
           z == _set_delta(w, y, Walk(v, y))
<1>1. /\ y \in Hash /\ y \in Nodes /\ l \in Nodes /\ l < y
      /\ Through(items, y, l)
  BY EndIsThrough, HashTypes DEF Through
<1>2. Walk(v, y) = DeltaOf(y, l, Depth[y] - Depth[l])
  BY <1>1, WalkExact
<1>3. z = _set_delta(w, y, DeltaOf(y, l, Depth[y] - Depth[l]))
  BY <1>2
<1> HIDE DEF l, z
<1>4. /\ Sound(z) /\ Cached(z) = Cached(w) \cup {y} /\ JumpTo(z, y) = l
      /\ \A x \in Cached(w) : x # y => JumpTo(z, x) = JumpTo(w, x)
  BY <1>1, <1>3, SetDeltaWired
<1>5. ExactJumps(z, items)
  BY <1>1, <1>4 DEF ExactJumps
<1>6. Asked(w, z, {y})
  BY <1>4, <1>5 DEF Asked, l
<1> QED
  BY <1>6 DEF z

(* A question is answered and remembered.                                   *)
LEMMA AfterWalkAsked ==
    ASSUME IsLink(prev), items \in SUBSET Hash, NEW v, Sound(v), ExactJumps(v, items),
           NEW x \in Nodes
    PROVE  Asked(v, AfterWalk(v, x), {x})
<1> DEFINE s == Path(v, x)
           n == Len(s)
           done(i) == {s[k] : k \in 1..i}
<1>1. /\ s \in Seq(items) /\ n \in Nat /\ DOMAIN s = 1..n
      /\ \A i \in 1..n : s[i] \in items
      /\ x \in items => n > 0 /\ s[1] = x
  BY PathFacts
<1> HIDE DEF s, n
<1>2. PICK u : PointSteps(u, v, s, n) /\ PointAtEnd(v, s) = u[n]
  BY <1>1, WalkFold
<1> DEFINE Bad == {i \in 0..n : ~ Asked(v, u[i], done(i))}
<1>3. Bad = {}
  <2> SUFFICES ASSUME Bad # {} PROVE FALSE
    OBVIOUS
  <2>1. PICK i \in Bad : \A j \in Bad : i <= j
    <3>1. Bad \in SUBSET Nat
      BY <1>1
    <3> HIDE DEF Bad
    <3> QED
      BY <3>1, LeastElement
  <2> HIDE DEF done
  <2>2. i \in 0..n /\ i \in Nat /\ ~ Asked(v, u[i], done(i))
    BY <1>1
  <2>3. i # 0
    <3>1. done(0) = {} /\ Asked(v, v, {})
      BY AskedFacts DEF done
    <3> QED
      BY <1>2, <2>2, <3>1 DEF PointSteps
  <2>4. i \in 1..n /\ i - 1 \in 0..n
    BY <1>1, <2>2, <2>3
  <2>5. Asked(v, u[i - 1], done(i - 1))
    <3>1. i - 1 \notin Bad
      <4> HIDE DEF Bad
      <4>1. i - 1 \in Bad => i <= i - 1
        BY <2>1
      <4> QED
        BY <4>1, <2>2
    <3> QED
      BY <2>4, <3>1
  <2>6. Asked(u[i - 1], u[i], {s[i]})
    <3>1. Sound(u[i - 1]) /\ ExactJumps(u[i - 1], items)
      BY <2>5 DEF Asked
    <3>2. s[i] \in items /\ u[i] = _set_delta(u[i - 1], s[i], Walk(v, s[i]))
      BY <1>1, <1>2, <2>4 DEF PointSteps
    <3> QED
      BY <3>1, <3>2, PointAsked
  <2>7. done(i - 1) \cup {s[i]} = done(i)
    BY <1>1, <2>4 DEF done
  <2>8. Asked(v, u[i], done(i - 1) \cup {s[i]})
    BY <2>5, <2>6, AskedFacts
  <2> QED
    BY <2>2, <2>7, <2>8
<1>4. Asked(v, u[n], done(n))
  <2> HIDE DEF done
  <2> QED
    BY <1>1, <1>3
<1>5. x \in items => x \in done(n)
  BY <1>1
<1> HIDE DEF done
<1>6. Asked(v, u[n], {x})
  BY <1>4, <1>5 DEF Asked
<1> QED
  BY <1>2, <1>6 DEF AfterWalk, s

(* So is a sequence of them.                                                *)
LEMMA AfterWalksAsked ==
    ASSUME IsLink(prev), items \in SUBSET Hash, NEW v, Sound(v), ExactJumps(v, items),
           NEW n \in Nat, NEW s, DOMAIN s = 1..n, \A i \in 1..n : s[i] \in Nodes
    PROVE  Asked(v, AfterWalks(v, s), {s[i] : i \in 1..n})
<1> DEFINE done(i) == {s[k] : k \in 1..i}
<1>2. PICK u : WalkSteps(u, v, s, n) /\ AfterWalks(v, s) = u[n]
  BY WalksFold
<1> DEFINE Bad == {i \in 0..n : ~ Asked(v, u[i], done(i))}
<1>3. Bad = {}
  <2> SUFFICES ASSUME Bad # {} PROVE FALSE
    OBVIOUS
  <2>1. PICK i \in Bad : \A j \in Bad : i <= j
    <3>1. Bad \in SUBSET Nat
      OBVIOUS
    <3> HIDE DEF Bad
    <3> QED
      BY <3>1, LeastElement
  <2> HIDE DEF done
  <2>2. i \in 0..n /\ i \in Nat /\ ~ Asked(v, u[i], done(i))
    OBVIOUS
  <2>3. i # 0
    <3>1. done(0) = {} /\ Asked(v, v, {})
      BY AskedFacts DEF done
    <3> QED
      BY <1>2, <2>2, <3>1 DEF WalkSteps
  <2>4. i \in 1..n /\ i - 1 \in 0..n
    BY <2>2, <2>3
  <2>5. Asked(v, u[i - 1], done(i - 1))
    <3>1. i - 1 \notin Bad
      <4> HIDE DEF Bad
      <4>1. i - 1 \in Bad => i <= i - 1
        BY <2>1
      <4> QED
        BY <4>1, <2>2
    <3> QED
      BY <2>4, <3>1
  <2>6. Asked(u[i - 1], u[i], {s[i]})
    <3>1. Sound(u[i - 1]) /\ ExactJumps(u[i - 1], items)
      BY <2>5 DEF Asked
    <3>2. s[i] \in Nodes /\ u[i] = AfterWalk(u[i - 1], s[i])
      BY <1>2, <2>4 DEF WalkSteps
    <3> QED
      BY <3>1, <3>2, AfterWalkAsked
  <2>7. done(i - 1) \cup {s[i]} = done(i)
    BY <2>4 DEF done
  <2>8. Asked(v, u[i], done(i - 1) \cup {s[i]})
    BY <2>5, <2>6, AskedFacts
  <2> QED
    BY <2>2, <2>7, <2>8
<1>4. Asked(v, u[n], done(n))
  <2> HIDE DEF done
  <2>1. n \in 0..n
    OBVIOUS
  <2> QED
    BY <1>3, <2>1
<1> QED
  BY <1>2, <1>4

(* The order a set of hashes is asked in.                                   *)
LEMMA SetToSeqFacts ==
    ASSUME NEW S, IsFiniteSet(S)
    PROVE  /\ SetToSeq(S) \in Seq(S)
           /\ \E n \in Nat : /\ DOMAIN SetToSeq(S) = 1..n
                             /\ {SetToSeq(S)[i] : i \in 1..n} = S
<1> DEFINE n == Cardinality(S)
           s == SetToSeq(S)
<1>1. n \in Nat
  BY FS_CardinalityType
<1>2. Injection(1..n, S) # {}
  BY FS_CardinalityType DEF ExistsBijection, Bijection
<1>3. s \in Injection(1..n, S)
  BY <1>2 DEF SetToSeq, Injection
<1>4. IsFiniteSet(1..n) /\ Cardinality(1..n) = n
  BY <1>1, FS_Interval
<1>5. s \in Surjection(1..n, S)
  BY <1>3, <1>4, FS_Injection
<1> HIDE DEF s
<1>6. DOMAIN s = 1..n /\ {s[i] : i \in 1..n} = S
  BY <1>5 DEF Surjection
<1>7. s \in Seq(S)
  BY <1>1, <1>3 DEF Injection
<1> QED
  BY <1>1, <1>6, <1>7 DEF s

(* What is met on the way down is still met when an item is added.          *)
LEMMA ThroughAdd ==
    ASSUME IsLink(prev), NEW S \in SUBSET Hash, NEW h \in Hash \ S, NEW x, NEW t,
           Through(S, x, t)
    PROVE  Through(S \cup {h}, x, t)
<1>1. x \in S /\ x \in Nodes /\ t \in Nodes /\ t # x /\ LastIn(S \ {t}, x) = t
  BY HashTypes DEF Through
<1>2. CASE t = h
  <2>1. (S \cup {h}) \ {t} = S \ {t}
    BY <1>2
  <2> QED
    BY <1>1, <2>1 DEF Through
<1>3. CASE t # h
  <2>1. (S \cup {h}) \ {t} = (S \ {t}) \cup {h} /\ S \ {t} \in SUBSET Hash
        /\ h \in Hash \ (S \ {t})
    BY <1>3
  <2>2. LastIn((S \ {t}) \cup {h}, x) = t
    BY <1>1, <1>3, <2>1, LastInAdd
  <2> QED
    BY <1>1, <2>1, <2>2 DEF Through
<1> QED
  BY <1>2, <1>3

(* And when one is removed, unless the way led through it.                  *)
LEMMA ThroughRemove ==
    ASSUME IsLink(prev), NEW S \in SUBSET Hash, NEW h \in S, NEW x, NEW t,
           Through(S, x, t), x # h,
           ~ (t # h /\ LastIn(S \ {h, t}, x) = h
                    /\ LastIn(S \ {h, t}, prev[h]) = t)
    PROVE  Through(S \ {h}, x, t)
<1>1. x \in S /\ x \in Nodes /\ t \in Nodes /\ t # x /\ LastIn(S \ {t}, x) = t
  BY HashTypes DEF Through
<1>2. CASE t = h
  <2>1. (S \ {h}) \ {t} = S \ {t}
    BY <1>2
  <2> QED
    BY <1>1, <2>1 DEF Through
<1>3. CASE t # h
  <2> DEFINE T == S \ {h, t}
  <2>1. /\ T \in SUBSET Hash /\ h \in Hash \ T /\ T \cup {h} = S \ {t}
        /\ (S \ {h}) \ {t} = T
    BY <1>3
  <2>2. LastIn(T \cup {h}, x) =
           IF LastIn(T, x) = h THEN LastIn(T, prev[h]) ELSE LastIn(T, x)
    BY <1>1, <2>1, LastInAdd
  <2> QED
    BY <1>1, <1>3, <2>1, <2>2 DEF Through
<1> QED
  BY <1>2, <1>3

-----------------------------------------------------------------------------
(* The cache: its tables agree, and what an item jumps to is met on its way *)
(* down.                                                                    *)
CacheInv == Sound(view) /\ ExactJumps(view, items)

CIInv == IInv /\ CacheInv

(* Only what the variables hold counts.                                     *)
LEMMA NextCacheInv ==
    ASSUME NEW w, SetView(w), prev' = prev, Sound(w),
           \A x \in Cached(w) : Through(items', x, JumpTo(w, x))
    PROVE  CacheInv'
<1>1. /\ view'.deltas = w.deltas /\ view'.members = w.members /\ view'.refs = w.refs
      /\ view'.refOf = w.refOf /\ view'.ok = w.ok
  BY DEF SetView, view, View
<1>2. Depth' = Depth
  BY DEF Depth, HeightMap
<1>3. Sound(view)'
  <2>1. Filed(view)'
    BY <1>1 DEF Sound, Wired, Filed
  <2>2. Measured(view)'
    BY <1>1, <1>2 DEF Sound, Wired, Measured
  <2>3. Cached(view)' = Cached(w)
    BY <1>1 DEF Cached
  <2>4. Live(view, Cached(view))'
    BY <1>1, <1>2, <2>3 DEF Sound, Wired, Live
  <2>5. \A r : Users(view, Cached(view), r)' = Users(w, Cached(w), r)
    BY <1>1, <2>3 DEF Users
  <2>6. Counted(view, Cached(view))' /\ Inhabited(view, Cached(view), {})'
    BY <1>1, <2>5 DEF Sound, Wired, Counted, Inhabited
  <2> QED
    BY <1>1, <2>1, <2>2, <2>4, <2>6 DEF Sound, Wired
<1>4. ExactJumps(view, items)'
  <2>1. Cached(view)' = Cached(w) /\ \A x : JumpTo(view, x)' = JumpTo(w, x)
    BY <1>1 DEF Cached, JumpTo
  <2>2. \A S, x, t : Through(S, x, t)' <=> Through(S, x, t)
    BY DEF Through, LastIn
  <2> QED
    BY <2>1, <2>2 DEF ExactJumps
<1> QED
  BY <1>3, <1>4 DEF CacheInv

(* add, remove and the questions keep the cache and are steps of Forest.    *)
LEMMA CachedAddStep ==
    ASSUME CIInv, NEW h \in Hash, cached_add(h)
    PROVE  add(h) /\ CacheInv'
<1> USE DEF CIInv, CacheInv
<1>1. IsLink(prev) /\ items \in SUBSET Hash
  BY LinkedItems
<1>2. h \in Hash \ items /\ prev[h] \in Nodes /\ prev' = prev /\ items' = items \cup {h}
  BY <1>1 DEF cached_add, IndexAdd, IsLink
<1>3. Walk(view, prev[h]).tail = get_last(prev[h])
  <2>1. Walk(view, prev[h]) = DeltaOf(prev[h], LastIn(items, prev[h]),
                                      Depth[prev[h]] - Depth[LastIn(items, prev[h])])
    BY <1>1, <1>2, WalkExact
  <2> QED
    BY <2>1, DeltaFields DEF get_last
<1>4. add(h)
  BY <1>3 DEF cached_add, add
<1> DEFINE w == IF prev[h] \in DOMAIN heads THEN view ELSE AfterWalk(view, prev[h])
<1>5. SetView(w)
  BY DEF cached_add
<1>6. Sound(w) /\ ExactJumps(w, items)
  <2>1. Asked(view, AfterWalk(view, prev[h]), {prev[h]})
    BY <1>1, <1>2, AfterWalkAsked
  <2> QED
    BY <2>1 DEF Asked
<1> HIDE DEF w
<1>7. \A x \in Cached(w) : Through(items', x, JumpTo(w, x))
  BY <1>1, <1>2, <1>6, ThroughAdd DEF ExactJumps
<1> QED
  BY <1>2, <1>4, <1>5, <1>6, <1>7, NextCacheInv

(* A removal that leaves no jump over the removed item.                     *)
LEMMA RemovedStep ==
    ASSUME IInv, NEW h \in items, IndexRemove(h), UNCHANGED prev,
           NEW w, Sound(w), SetView(_handle_removed(w, h)),
           \A x \in Cached(w) : x # h => Through(items \ {h}, x, JumpTo(w, x))
    PROVE  CacheInv'
<1> DEFINE z == _handle_removed(w, h)
<1>1. /\ Sound(z) /\ Cached(z) = Cached(w) \ {h}
      /\ \A x \in Cached(z) : JumpTo(z, x) = JumpTo(w, x)
  BY RemovedWired
<1>2. SetView(z) /\ prev' = prev /\ items' = items \ {h}
  BY DEF IndexRemove
<1> HIDE DEF z
<1>3. \A x \in Cached(z) : Through(items', x, JumpTo(z, x))
  BY <1>1, <1>2
<1> QED
  BY <1>1, <1>2, <1>3, NextCacheInv

(* No way leads through a head.                                             *)
LEMMA LeafRemoved ==
    ASSUME CIInv, NEW h \in items, h \in DOMAIN heads, IndexRemove(h), UNCHANGED prev,
           SetView(_handle_removed(view, h))
    PROVE  CacheInv'
<1> USE DEF CIInv, CacheInv
<1>1. IsLink(prev) /\ items \in SUBSET Hash
  BY LinkedItems
<1>2. \A c \in items : prev[c] # h
  BY RemoveLeaf
<1>3. ASSUME NEW x \in Cached(view), x # h
      PROVE  Through(items \ {h}, x, JumpTo(view, x))
  <2> DEFINE t == JumpTo(view, x)
             T == items \ {h, t}
  <2>1. Through(items, x, t)
    BY DEF ExactJumps
  <2>2. x \in T /\ T \in SUBSET Hash
    BY <1>1, <1>3, <2>1 DEF Through
  <2> HIDE DEF t
  <2>3. \E c \in T : prev[c] = LastIn(T, x)
    BY <1>1, <2>2, LastHasChild
  <2>4. LastIn(T, x) # h
    BY <1>2, <2>3
  <2>5. Through(items \ {h}, x, t)
    BY <1>1, <1>3, <2>1, <2>4, ThroughRemove
  <2> QED
    BY <2>5 DEF t
<1> QED
  BY <1>3, RemovedStep

(* Only a jump to the missing parent can pass over a lowest item.           *)
LEMMA LowestRemoved ==
    ASSUME IInv, NEW h \in items, prev[h] \in DOMAIN tails,
           NEW x, NEW t, Through(items, x, t), x # h,
           t = prev[h] => LastIn(items \ {h}, x) # h
    PROVE  Through(items \ {h}, x, t)
<1> DEFINE p == prev[h]
           T == items \ {h, t}
<1>1. IsLink(prev) /\ items \in SUBSET Hash
  BY LinkedItems
<1>2. p \in Nodes \ items
  BY <1>1, LastInFacts DEF IInv, TailsExact
<1>3. LastIn(T, p) = p
  BY <1>1, <1>2, LastInFacts
<1>4. t = p => T = items \ {h}
  BY <1>2
<1> HIDE DEF T
<1>5. ~ (t # h /\ LastIn(T, x) = h /\ LastIn(T, p) = t)
  BY <1>3, <1>4
<1> QED
  BY <1>1, <1>5, ThroughRemove DEF T

(* remove_special leaves nothing that jumps over the item.                  *)
LEMMA SpecialSound ==
    ASSUME CIInv, NEW h \in items, prev[h] \in DOMAIN tails,
           ~ \E c \in items \ {h} : prev[c] = prev[h]
    PROVE  LET w == _handle_remove_special(view, h) IN
           /\ Sound(w)
           /\ \A x \in Cached(w) : x # h => Through(items \ {h}, x, JumpTo(w, x))
<1> USE DEF CIInv, CacheInv
<1> DEFINE p == prev[h]
           w == _handle_remove_special(view, h)
           T == items \ {h}
<1>1. /\ IsLink(prev) /\ items \in SUBSET Hash /\ h \in Hash /\ T \in SUBSET Hash
  BY LinkedItems
<1>2. p \in Nodes \ items
  BY <1>1, LastInFacts DEF IInv, TailsExact
<1>3. ASSUME NEW v, Sound(v), ExactJumps(v, items), p \notin DOMAIN v.refOf,
             NEW x \in Cached(v), x # h
      PROVE  Through(T, x, JumpTo(v, x))
  <2>1. JumpTo(v, x) # p /\ Through(items, x, JumpTo(v, x))
    BY <1>3, FiledInUse DEF ExactJumps
  <2> QED
    BY <1>3, <2>1, LowestRemoved
<1>4. CASE p \notin DOMAIN view.refOf
  <2>1. w = view
    BY <1>4 DEF _handle_remove_special
  <2> QED
    BY <1>3, <1>4, <2>1
<1>5. CASE p \in DOMAIN view.refOf
  <2> DEFINE hanging == IF h \in DOMAIN view.refOf
                        THEN SetAt(view.members, view.refOf[h]) ELSE {}
             v == AfterWalks(view, SetToSeq(hanging))
             z == IF p \in DOMAIN v.refOf THEN MoveRef(v, h) ELSE v
  <2>1. w = Asserts(z, h \notin DOMAIN v.refOf)
    BY <1>5 DEF _handle_remove_special
  <2>2. hanging = {x \in Cached(view) : JumpTo(view, x) = h}
    <3>1. CASE h \in DOMAIN view.refOf
      <4> DEFINE r == view.refOf[h]
      <4>1. r \in DOMAIN view.refs /\ view.refs[r].tail = h
        BY <3>1 DEF Sound, Wired, Filed
      <4>2. SetAt(view.members, r) = Users(view, Cached(view), r)
        BY <4>1 DEF Sound, Wired, Counted
      <4>3. \A x \in Cached(view) : view.deltas[x].ref = r <=> JumpTo(view, x) = h
        <5> SUFFICES ASSUME NEW x \in Cached(view)
                     PROVE view.deltas[x].ref = r <=> JumpTo(view, x) = h
          OBVIOUS
        <5>1. view.deltas[x].ref \in DOMAIN view.refs
          BY DEF Sound, Wired, Live
        <5>2. view.refOf[view.refs[view.deltas[x].ref].tail] = view.deltas[x].ref
          BY <5>1 DEF Sound, Wired, Filed
        <5> QED
          BY <4>1, <5>2 DEF JumpTo
      <4> QED
        BY <3>1, <4>2, <4>3 DEF Users
    <3>2. CASE h \notin DOMAIN view.refOf
      BY <3>2, FiledInUse
    <3> QED
      BY <3>1, <3>2
  <2> HIDE DEF hanging
  <2>3. hanging \in SUBSET items /\ hanging \in SUBSET Nodes /\ IsFiniteSet(hanging)
    <3>1. hanging \in SUBSET items
      BY <2>2 DEF ExactJumps, Through
    <3>2. IsFiniteSet(Hash)
      BY HashFinite
    <3> QED
      BY <1>1, <3>1, <3>2, FS_Subset, HashTypes
  <2>4. PICK n \in Nat : /\ DOMAIN SetToSeq(hanging) = 1..n
                         /\ {SetToSeq(hanging)[i] : i \in 1..n} = hanging
    BY <2>3, SetToSeqFacts
  <2>5. Asked(view, v, hanging)
    <3>1. \A i \in 1..n : SetToSeq(hanging)[i] \in Nodes
      BY <2>3, <2>4
    <3>2. Asked(view, v, {SetToSeq(hanging)[i] : i \in 1..n})
      BY <1>1, <2>4, <3>1, AfterWalksAsked
    <3> QED
      BY <2>4, <3>2
  <2> HIDE DEF v
  <2>6. Sound(v) /\ ExactJumps(v, items)
    BY <2>5 DEF Asked
(* What jumped to the item was asked for and jumps to the end.              *)
  <2>7. \A x \in Cached(v) : JumpTo(v, x) # h
    <3> SUFFICES ASSUME NEW x \in Cached(v), JumpTo(v, x) = h PROVE FALSE
      OBVIOUS
    <3>1. x \in items /\ x \in Nodes
      BY <1>1, <2>6, HashTypes DEF ExactJumps, Through
    <3>2. LastIn(items, x) # h
      BY <1>1, <3>1, LastInFacts
    <3>3. x \in Cached(view) /\ JumpTo(view, x) = h
      BY <2>5, <3>2 DEF Asked
    <3>4. x \in hanging
      BY <2>2, <3>3
    <3> QED
      BY <2>5, <3>1, <3>2, <3>4 DEF Asked
  <2>8. h \notin DOMAIN v.refOf
    BY <2>6, <2>7, FiledInUse
  <2>9. Sound(z) /\ \A x \in Cached(z) : x # h => Through(T, x, JumpTo(z, x))
    <3>1. CASE p \notin DOMAIN v.refOf
      <4>1. z = v
        BY <3>1
      <4> QED
        BY <1>3, <2>6, <3>1, <4>1
    <3>2. CASE p \in DOMAIN v.refOf
      <4>1. z = MoveRef(v, h)
        BY <3>2
      <4> HIDE DEF z
      <4>2. /\ Sound(z) /\ Cached(z) = Cached(v)
            /\ \A x \in Cached(v) :
                  JumpTo(z, x) = IF JumpTo(v, x) = p THEN h ELSE JumpTo(v, x)
        BY <1>1, <2>6, <2>8, <3>2, <4>1, MoveRefWired
      <4>3. ASSUME NEW x \in Cached(v), x # h PROVE Through(T, x, JumpTo(z, x))
        <5>1. Through(items, x, JumpTo(v, x))
          BY <2>6 DEF ExactJumps
        <5>2. CASE JumpTo(v, x) # p
          BY <4>2, <4>3, <5>1, <5>2, LowestRemoved
        <5>3. CASE JumpTo(v, x) = p
          <6>1. JumpTo(z, x) = h
            BY <4>2, <5>3
          <6>2. LastIn(items, x) = p
            BY <1>1, <1>2, <5>1, <5>3, ThroughFacts, LastInFacts
          <6>3. x \in T /\ x \in Nodes
            BY <1>1, <4>3, <5>1, HashTypes DEF Through
          <6>4. LastIn(T, x) = h
            <7>1. LastIn(T \cup {h}, x) =
                     IF LastIn(T, x) = h THEN LastIn(T, p) ELSE LastIn(T, x)
              BY <1>1, <6>3, LastInAdd
            <7>2. T \cup {h} = items
              OBVIOUS
            <7>3. LastIn(T, x) # p
              <8>1. \E c \in T : prev[c] = LastIn(T, x)
                BY <1>1, <6>3, LastHasChild
              <8> QED
                BY <8>1
            <7> QED
              BY <6>2, <7>1, <7>2, <7>3
          <6>5. T \ {h} = T /\ h \in Nodes
            BY <1>1, HashTypes
          <6> QED
            BY <4>3, <6>1, <6>3, <6>4, <6>5 DEF Through
        <5> QED
          BY <5>2, <5>3
      <4> QED
        BY <4>2, <4>3
    <3> QED
      BY <3>1, <3>2
  <2> HIDE DEF z, w
  <2>10. /\ w.deltas = z.deltas /\ w.members = z.members /\ w.refs = z.refs
         /\ w.refOf = z.refOf /\ w.ok = z.ok
    <3>1. z.ok = TRUE
      BY <2>9 DEF Sound, Wired
    <3>2. (z.ok /\ h \notin DOMAIN v.refOf) = TRUE
      BY <2>8, <3>1
    <3> QED
      BY <2>1, <3>1, <3>2 DEF Asserts, View
  <2>11. Sound(w)
    BY <2>9, <2>10 DEF Sound, Wired, Filed, Measured, Live, Users, Counted, Inhabited, Cached
  <2>12. Cached(w) = Cached(z) /\ \A x : JumpTo(w, x) = JumpTo(z, x)
    BY <2>10 DEF Cached, JumpTo
  <2> QED
    BY <2>9, <2>11, <2>12 DEF w
<1> QED
  BY <1>4, <1>5

(* The cached heights and lasts tell the items above h.                     *)
LEMMA CachedChildExact ==
    ASSUME CIInv, NEW h \in items, NEW x \in items
    PROVE  CachedChild(view, h, x) <=> is_child_of(h, x)
<1> USE DEF CIInv, CacheInv
<1> DEFINE w == AfterWalk(view, h)
           Height == HeightMap(prev, items)
<1>1. /\ IsLink(prev) /\ items \in SUBSET Hash /\ h \in Nodes /\ x \in Nodes
  BY LinkedItems, HashTypes
<1>2. Sound(w) /\ ExactJumps(w, items)
  BY <1>1, AfterWalkAsked DEF Asked
<1> HIDE DEF w
<1>3. /\ Walk(view, h) = DeltaOf(h, LastIn(items, h), Depth[h] - Depth[LastIn(items, h)])
      /\ Walk(w, x) = DeltaOf(x, LastIn(items, x), Depth[x] - Depth[LastIn(items, x)])
  BY <1>1, <1>2, WalkExact
<1>4. /\ Height[h] = Depth[h] - Depth[LastIn(items, h)]
      /\ Height[x] = Depth[x] - Depth[LastIn(items, x)]
  BY <1>1, HeightIsDepth
<1> HIDE DEF Height
<1>5. /\ Walk(view, h).tail = LastIn(items, h) /\ Walk(view, h).height = Height[h]
      /\ Walk(w, x).tail = LastIn(items, x) /\ Walk(w, x).height = Height[x]
  BY <1>3, <1>4, DeltaFields
<1>6. CachedChild(view, h, x) <=> /\ LastIn(items, h) = LastIn(items, x)
                                  /\ Height[x] >= Height[h]
                                  /\ ParentsOf(x, Height[x] - Height[h]) = h
  BY <1>5 DEF CachedChild, w
<1>7. is_child_of(h, x) <=> /\ LastIn(items, h) = LastIn(items, x)
                            /\ Height[x] >= Height[h]
                            /\ ParentsOf(x, Height[x] - Height[h]) = h
  BY <1>1, ChildFromHeights DEF Height
<1> QED
  BY <1>6, <1>7

(* remove_special2 leaves nothing that jumps over the item.                 *)
LEMMA Special2Sound ==
    ASSUME CIInv, NEW h \in items, prev[h] \in DOMAIN tails
    PROVE  LET asked == AfterWalks(view, <<h>> \o SetToSeq(tails[prev[h]]))
               w == _handle_remove_special2(asked, h)
           IN /\ Sound(w)
              /\ \A x \in Cached(w) : x # h => Through(items \ {h}, x, JumpTo(w, x))
<1> USE DEF CIInv, CacheInv
<1> DEFINE p == prev[h]
           s == SetToSeq(tails[p])
           asked == AfterWalks(view, <<h>> \o s)
           w == _handle_remove_special2(asked, h)
<1>1. /\ IsLink(prev) /\ items \in SUBSET Hash /\ h \in Nodes
  BY LinkedItems, HashTypes
<1>2. tails[p] \in SUBSET Hash /\ tails[p] \in SUBSET Nodes /\ IsFiniteSet(tails[p])
  <2>1. tails[p] \in SUBSET Hash
    <3>1. \A t \in DOMAIN tails : tails[t] \subseteq Hash
      BY IInvTypeOK DEF TypeOK
    <3> QED
      BY <3>1
  <2>2. IsFiniteSet(Hash)
    BY HashFinite
  <2> QED
    BY <2>1, <2>2, FS_Subset, HashTypes
<1>4. s \in Seq(Nodes)
  <2>1. s \in Seq(tails[p])
    BY <1>2, SetToSeqFacts
  <2> HIDE DEF s
  <2> QED
    BY <1>2, <2>1
<1> HIDE DEF s
<1>5. Sound(asked) /\ ExactJumps(asked, items)
  <2> DEFINE q == <<h>> \o s
             m == Len(q)
  <2>1. q \in Seq(Nodes)
    BY <1>1, <1>4
  <2> HIDE DEF q
  <2>2. m \in Nat /\ DOMAIN q = 1..m /\ \A i \in 1..m : q[i] \in Nodes
    BY <2>1
  <2> HIDE DEF m
  <2>3. Asked(view, AfterWalks(view, q), {q[i] : i \in 1..m})
    BY <1>1, <2>2, AfterWalksAsked
  <2> QED
    BY <2>3 DEF Asked, q
<1> HIDE DEF asked
<1>6. /\ Sound(w) /\ Cached(w) = {x \in Cached(asked) : JumpTo(asked, x) # p}
      /\ \A x \in Cached(w) : JumpTo(w, x) = JumpTo(asked, x)
  BY <1>5, Special2Wired
<1> HIDE DEF w
<1>7. ASSUME NEW x \in Cached(w), x # h
      PROVE  Through(items \ {h}, x, JumpTo(w, x))
  <2>1. JumpTo(w, x) # p /\ Through(items, x, JumpTo(w, x))
    BY <1>5, <1>6 DEF ExactJumps
  <2> QED
    BY <1>7, <2>1, LowestRemoved
<1> QED
  BY <1>6, <1>7 DEF w, asked, s

LEMMA CachedRemoveStep ==
    ASSUME CIInv, NEW h \in Hash, cached_remove(h)
    PROVE  remove(h) /\ CacheInv'
<1> USE DEF CIInv
<1>1. h \in items /\ UNCHANGED prev
  BY DEF cached_remove
<1>2. CASE RemoveLone(h) /\ SetView(_handle_removed(view, h))
  <2>1. h \in DOMAIN heads /\ IndexRemove(h)
    BY <1>2 DEF RemoveLone
  <2> QED
    BY <1>1, <1>2, <2>1, LeafRemoved DEF remove
<1>3. CASE RemoveHead(h) /\ SetView(_handle_removed(view, h))
  <2>1. h \in DOMAIN heads /\ IndexRemove(h)
    BY <1>3 DEF RemoveHead
  <2> QED
    BY <1>1, <1>3, <2>1, LeafRemoved DEF remove
<1>4. CASE RemoveTail(h) /\ SetView(_handle_removed(_handle_remove_special(view, h), h))
  <2>1. /\ prev[h] \in DOMAIN tails /\ IndexRemove(h)
        /\ Cardinality(reverse[prev[h]]) <= 1
    BY <1>4 DEF RemoveTail
  <2> DEFINE w == _handle_remove_special(view, h)
  <2>2. Sound(w) /\ \A x \in Cached(w) : x # h => Through(items \ {h}, x, JumpTo(w, x))
    BY <1>1, <2>1, OnlyChild, SpecialSound
  <2> HIDE DEF w
  <2>3. SetView(_handle_removed(w, h))
    BY <1>4 DEF w
  <2>4. CacheInv'
    BY <1>1, <2>1, <2>2, <2>3, RemovedStep
  <2> QED
    BY <1>1, <1>4, <2>4 DEF remove
<1>5. CASE /\ RemoveBranch(h, {x \in tails[prev[h]] : CachedChild(view, h, x)})
           /\ LET asked == AfterWalks(view, <<h>> \o SetToSeq(tails[prev[h]]))
              IN SetView(_handle_removed(_handle_remove_special2(asked, h), h))
  <2> DEFINE p == prev[h]
             asked == AfterWalks(view, <<h>> \o SetToSeq(tails[p]))
             w == _handle_remove_special2(asked, h)
  <2>1. p \in DOMAIN tails /\ IndexRemove(h)
    BY <1>5 DEF RemoveBranch
  <2>2. Sound(w) /\ \A x \in Cached(w) : x # h => Through(items \ {h}, x, JumpTo(w, x))
    BY <1>1, <2>1, Special2Sound
  <2> HIDE DEF w
  <2>3. SetView(_handle_removed(w, h))
    BY <1>5 DEF w
  <2>4. CacheInv'
    BY <1>1, <2>1, <2>2, <2>3, RemovedStep
  <2>5. \A x \in tails[p] : x \in items
    BY <2>1 DEF IInv, TailsExact, HeadsExact
  <2>6. {x \in tails[p] : CachedChild(view, h, x)} = {x \in tails[p] : is_child_of(h, x)}
    BY <1>1, <2>5, CachedChildExact
  <2>7. RemoveBranch(h, {x \in tails[p] : is_child_of(h, x)})
    BY <1>5, <2>6
  <2> QED
    BY <1>1, <2>4, <2>7 DEF remove
<1> QED
  BY <1>2, <1>3, <1>4, <1>5 DEF cached_remove

LEMMA QueryStep ==
    ASSUME CIInv, NEW x \in Hash, query(x)
    PROVE  UNCHANGED vars /\ CacheInv'
<1> USE DEF CIInv, CacheInv
<1> DEFINE w == AfterWalk(view, x)
<1>1. IsLink(prev) /\ items \in SUBSET Hash /\ x \in Nodes
  BY LinkedItems, HashTypes
<1>2. Sound(w) /\ ExactJumps(w, items)
  BY <1>1, AfterWalkAsked DEF Asked
<1> HIDE DEF w
<1>3. SetView(w) /\ UNCHANGED vars /\ prev' = prev /\ items' = items
  BY DEF query, w, vars
<1> QED
  BY <1>2, <1>3, NextCacheInv DEF ExactJumps

LEMMA InitCacheInv == CInit => CacheInv
<1> SUFFICES ASSUME CInit PROVE CacheInv
  OBVIOUS
<1>1. DOMAIN <<>> = {}
  OBVIOUS
<1>2. /\ view.deltas = <<>> /\ view.members = <<>> /\ view.refs = <<>>
      /\ view.refOf = <<>> /\ view.ok = TRUE
  BY DEF CInit, view, View
<1>3. Cached(view) = {}
  BY <1>1, <1>2 DEF Cached
<1>4. Wired(view, {}, {})
  BY <1>1, <1>2 DEF Wired, Filed, Measured, Live, Counted, Inhabited
<1> QED
  BY <1>3, <1>4 DEF CacheInv, Sound, ExactJumps

(* A step of the tracker with the cache is a step of the tracker.           *)
LEMMA CNextStep == CIInv /\ [CNext]_cvars => CIInv' /\ [Next]_vars
<1> SUFFICES ASSUME CIInv, [CNext]_cvars PROVE CIInv' /\ [Next]_vars
  OBVIOUS
<1> USE DEF CIInv
<1>1. CASE UNCHANGED cvars
  <2>1. UNCHANGED vars /\ prev' = prev /\ items' = items /\ view' = view
    BY <1>1 DEF cvars, vars, view
  <2>2. SetView(view)
    BY <1>1 DEF cvars, SetView, view, View
  <2>3. CacheInv'
    BY <2>1, <2>2, NextCacheInv DEF CacheInv, ExactJumps
  <2> QED
    BY <2>1, <2>3, NextIInv
<1>2. ASSUME NEW h \in Hash, cached_add(h) PROVE CIInv' /\ [Next]_vars
  <2>1. add(h) /\ CacheInv'
    BY <1>2, CachedAddStep
  <2>2. [Next]_vars
    BY <2>1 DEF Next
  <2> QED
    BY <2>1, <2>2, NextIInv
<1>3. ASSUME NEW h \in Hash, cached_remove(h) PROVE CIInv' /\ [Next]_vars
  <2>1. remove(h) /\ CacheInv'
    BY <1>3, CachedRemoveStep
  <2>2. [Next]_vars
    BY <2>1 DEF Next
  <2> QED
    BY <2>1, <2>2, NextIInv
<1>4. ASSUME NEW x \in Hash, query(x) PROVE CIInv' /\ [Next]_vars
  <2>1. UNCHANGED vars /\ CacheInv'
    BY <1>4, QueryStep
  <2> QED
    BY <2>1, NextIInv
<1> QED
  BY <1>1, <1>2, <1>3, <1>4 DEF CNext

-----------------------------------------------------------------------------
(* Whatever was added, removed and asked, the indexes are exact, the cache's *)
(* tables agree with each other and every cached delta jumps to a hash on   *)
(* the way down, which a removal has not made unreachable.                  *)
THEOREM CacheCorrect == CSpec => []CIInv
<1>1. CInit => CIInv
  BY InitIInv, InitCacheInv DEF CInit, CIInv
<1> QED
  BY <1>1, CNextStep, PTL DEF CSpec

(* The tracker that answers from its cache (get_last in add, is_child_of in *)
(* remove) does only what the tracker of Forest, which walks, may do.       *)
THEOREM CacheRefines == CSpec => ImplementsForest
<1>1. CInit => Init
  BY DEF CInit
<1> QED
  BY <1>1, CNextStep, CacheCorrect, PTL DEF CSpec, ImplementsForest

(* get_height, get_last and get_work answer from the cache what a full walk *)
(* would find.                                                              *)
THEOREM CacheAnswers == CSpec => []AnswersExact
<1>1. CIInv => AnswersExact
  <2> SUFFICES ASSUME CIInv PROVE AnswersExact
    OBVIOUS
  <2>1. IsLink(prev) /\ items \in SUBSET Hash
    BY LinkedItems DEF CIInv
  <2>2. \A x \in Nodes : /\ Walk(view, x) = DeltaOf(x, LastIn(items, x),
                                                    Depth[x] - Depth[LastIn(items, x)])
                         /\ HeightMap(prev, items)[x] = Depth[x] - Depth[LastIn(items, x)]
    BY <2>1, WalkExact, HeightIsDepth DEF CIInv, CacheInv
  <2> QED
    BY <2>2 DEF AnswersExact
<1> QED
  BY <1>1, CacheCorrect, PTL

(* No assertion of _set_delta or _handle_remove_special fails, and __add__  *)
(* and __sub__ are only given deltas that meet.                             *)
THEOREM CacheAsserts == CSpec => []AssertionsHold
<1>1. CIInv => AssertionsHold
  <2> SUFFICES ASSUME CIInv PROVE AssertionsHold
    OBVIOUS
  <2>1. Sound(view)
    BY DEF CIInv, CacheInv
  <2>2. view.deltas = deltas /\ view.refs = refs /\ view.ok = asserted
    BY DEF view, View
  <2>3. asserted
    BY <2>1, <2>2 DEF Sound, Wired
  <2>4. \A x \in DOMAIN deltas :
           deltas[x].d.head = x /\ deltas[x].d.tail = refs[deltas[x].ref].head
    BY <2>1, <2>2 DEF Sound, Wired, Live, Cached
  <2> QED
    BY <2>3, <2>4 DEF AssertionsHold
<1> QED
  BY <1>1, CacheCorrect, PTL
=============================================================================
