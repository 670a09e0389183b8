--------------------------- MODULE PayoutsProofs ---------------------------
(***************************************************************************)
(* Proofs about Payouts: for every chain, every contents of its shares,     *)
(* every length the dice throw and every order of adds, removals and calls, *)
(* the skip list adds up the shares of the chain and raises nothing, and    *)
(* the coinbase made of its answer pays the subsidy.                        *)
(***************************************************************************)
EXTENDS Payouts, FiniteSetTheorems, WellFoundedInduction, TLAPS

-----------------------------------------------------------------------------
(* Recursion along the links.                                               *)

Linked == prev \in [Hash -> Nodes] /\ \A h \in Hash : prev[h] < h
Shared ==
    /\ share \in [Hash -> [address : Address, attempts : Nat, donation : 0..Unit]]
    /\ \A h \in Hash : share[h].attempts > 0

LEMMA LeastElement ==
    ASSUME NEW T \in SUBSET Nat, T # {}
    PROVE  \E m \in T : \A k \in T : m <= k
<1>1. IsWellFoundedOn(OpToRel(<, Nat), Nat)
  BY NatLessThanWellFounded
<1>2. PICK m \in T : \A k \in T : ~ (<<k, m>> \in OpToRel(<, Nat))
  BY <1>1, WFMin
<1>3. \A k \in T : ~ (k < m)
  BY <1>2 DEF OpToRel
<1> QED
  BY <1>3

LEMMA HashTypes ==
    /\ Nodes \subseteq Nat /\ Hash \subseteq Nodes /\ None \in Nodes
    /\ \A x \in Nodes : x # None => x \in Hash
  BY NAssumption DEF Hash, Nodes, None

(* What a property of every parent makes of every share: the form of        *)
(* induction used below, for the nodes that lack a property.                *)
LEMMA LowestLacking ==
    ASSUME Linked, NEW T \in SUBSET Nodes, T # {}
    PROVE  \E m \in T : m = None \/ (m \in Hash /\ prev[m] \in Nodes \ T)
<1>0. T \in SUBSET Nat
  BY HashTypes
<1>1. PICK m \in T : \A k \in T : m <= k
  BY <1>0, LeastElement
<1>2. m \in Nodes /\ m \in Nat /\ (m = None \/ m \in Hash)
  BY HashTypes
<1>3. m \in Hash => prev[m] \in Nodes /\ prev[m] \in Nat /\ prev[m] < m
  BY HashTypes DEF Linked
<1>4. ASSUME m \in Hash, prev[m] \in T PROVE FALSE
  <2>1. m <= prev[m]
    BY <1>1, <1>4
  <2> QED
    BY <2>1, <1>2, <1>3, <1>4
<1> QED
  BY <1>2, <1>3, <1>4

(* A function that takes a value at None and goes on by G exists.           *)
LEMMA RecursionExists ==
    ASSUME Linked, NEW V, NEW v0 \in V, NEW G \in [Hash -> [V -> V]]
    PROVE  \E s \in [Nodes -> V] :
              s[None] = v0 /\ \A h \in Hash : s[h] = G[h][s[prev[h]]]
<1> DEFINE Good(n, s) ==
        /\ s \in [0..n -> V] /\ s[0] = v0
        /\ \A h \in 1..n : s[h] = G[h][s[prev[h]]]
           Bad == {n \in Nodes : ~ \E s : Good(n, s)}
<1>1. Bad = {}
  <2> SUFFICES ASSUME Bad # {} PROVE FALSE
    OBVIOUS
  <2>1. PICK n \in Bad : \A k \in Bad : n <= k
    <3>1. Bad \in SUBSET Nat
      BY HashTypes
    <3> HIDE DEF Bad
    <3> QED
      BY <3>1, LeastElement
  <2>2. n \in Nodes /\ ~ \E s : Good(n, s)
    OBVIOUS
  <2>3. n # 0
    <3>1. Good(0, [x \in 0..0 |-> v0])
      OBVIOUS
    <3> QED
      BY <2>2, <3>1
  <2>4. n - 1 \in Nodes /\ n \in Hash /\ n \in Nat
    BY <2>2, <2>3, NAssumption DEF Nodes, Hash
  <2>5. PICK s : Good(n - 1, s)
    <3>1. n - 1 \notin Bad
      <4> HIDE DEF Bad
      <4>1. n - 1 \in Bad => n <= n - 1
        BY <2>1
      <4> QED
        BY <4>1, <2>4
    <3> QED
      BY <2>4, <3>1
  <2>6. prev[n] \in 0..(n - 1)
    BY <2>4, NAssumption DEF Linked, Nodes, Hash
  <2> DEFINE t == [x \in 0..n |-> IF x = n THEN G[n][s[prev[n]]] ELSE s[x]]
  <2>7. s[prev[n]] \in V
    BY <2>5, <2>6
  <2>8. t \in [0..n -> V]
    <3> SUFFICES ASSUME NEW x \in 0..n PROVE t[x] \in V
      OBVIOUS
    <3>1. x # n => x \in 0..(n - 1)
      BY <2>4
    <3>2. G[n][s[prev[n]]] \in V
      BY <2>4, <2>7
    <3> QED
      BY <3>1, <3>2, <2>5
  <2>9. t[0] = v0
    BY <2>3, <2>4, <2>5
  <2>10. ASSUME NEW h \in 1..n PROVE t[h] = G[h][t[prev[h]]]
    <3>1. h \in Hash
      BY <2>4, NAssumption DEF Hash
    <3>2. prev[h] \in 0..(h - 1)
      BY <3>1, NAssumption DEF Linked, Nodes, Hash
    <3>3. prev[h] \in 0..n /\ prev[h] # n
      BY <3>2, <2>4
    <3>4. t[prev[h]] = s[prev[h]]
      BY <3>3
    <3>5. h # n => h \in 1..(n - 1) /\ t[h] = s[h]
      BY <2>4
    <3>6. h # n => s[h] = G[h][s[prev[h]]]
      BY <3>5, <2>5
    <3>7. h = n => t[h] = G[n][s[prev[n]]]
      BY <2>4
    <3> QED
      BY <3>4, <3>5, <3>6, <3>7
  <2> QED
    BY <2>2, <2>8, <2>9, <2>10
<1>2. PICK s : Good(N, s)
  BY <1>1, NAssumption DEF Nodes
<1> QED
  BY <1>2 DEF Nodes, Hash, None

-----------------------------------------------------------------------------
(* Sums, Ways and heights follow their recursions.                          *)

LEMMA ColumnFacts ==
    /\ "shares" \in Column /\ "total" \in Column /\ "donation" \in Column
    /\ Address \subseteq Column
    /\ "shares" \notin Address /\ "total" \notin Address /\ "donation" \notin Address
    /\ Unit \in Nat \ {0}
  BY PayoutsAssumption DEF Column

LEMMA DeltaFacts ==
    ASSUME Shared, NEW h \in Hash
    PROVE  /\ get_delta(h) \in [Column -> Int]
           /\ get_delta(h)["shares"] = 1
           /\ get_delta(h)["total"] = share[h].attempts * Unit
<1>1. share[h].attempts \in Nat /\ share[h].donation \in 0..Unit /\ share[h].address \in Address
  BY DEF Shared
<1>2. /\ share[h].attempts * Unit \in Int
      /\ share[h].attempts * share[h].donation \in Int
      /\ share[h].attempts * (Unit - share[h].donation) \in Int
  BY <1>1, ColumnFacts
<1>3. get_delta(h)["shares"] = 1
  BY ColumnFacts, <1>1 DEF get_delta
<1>4. get_delta(h)["total"] = share[h].attempts * Unit
  BY ColumnFacts, <1>1 DEF get_delta
<1>5. get_delta(h)["donation"] = share[h].attempts * share[h].donation
  BY ColumnFacts, <1>1 DEF get_delta
<1>6. \A a \in Address : get_delta(h)[a] =
         IF a = share[h].address THEN share[h].attempts * (Unit - share[h].donation) ELSE 0
  BY ColumnFacts, <1>1 DEF get_delta
<1>7. \A c \in Column : get_delta(h)[c] \in Int
  BY <1>2, <1>3, <1>4, <1>5, <1>6 DEF Column
<1>8. get_delta(h) = [c \in Column |-> get_delta(h)[c]]
  BY DEF get_delta
<1> QED
  BY <1>3, <1>4, <1>7, <1>8

LEMMA SumsFacts ==
    ASSUME Linked, Shared
    PROVE  /\ Sums \in [Nodes -> [Column -> Int]]
           /\ Sums[None] = Zero
           /\ \A h \in Hash : Sums[h] = combine_deltas(get_delta(h), Sums[prev[h]])
<1> DEFINE V == [Column -> Int]
           G == [h \in Hash |-> [v \in V |-> combine_deltas(get_delta(h), v)]]
           R(s) == [x \in Nodes |-> IF x = None THEN Zero
                                    ELSE combine_deltas(get_delta(x), s[prev[x]])]
<1>1. Zero \in V
  BY DEF Zero
<1>2. G \in [Hash -> [V -> V]]
  <2> SUFFICES ASSUME NEW h \in Hash, NEW v \in V PROVE combine_deltas(get_delta(h), v) \in V
    OBVIOUS
  <2>1. get_delta(h) \in V
    BY DeltaFacts
  <2> QED
    BY <2>1 DEF combine_deltas
<1>3. PICK s \in [Nodes -> V] :
         s[None] = Zero /\ \A h \in Hash : s[h] = G[h][s[prev[h]]]
  <2> HIDE DEF V, G
  <2> QED
    BY <1>1, <1>2, RecursionExists
<1>4. \A h \in Hash : prev[h] \in Nodes
  BY DEF Linked
<1>5. \A h \in Hash : s[h] = combine_deltas(get_delta(h), s[prev[h]])
  BY <1>3, <1>4
<1>6. s = R(s)
  BY <1>3, <1>5, HashTypes
<1>7. Sums = CHOOSE f : f = R(f)
  BY DEF Sums
<1>8. Sums = R(Sums)
  BY <1>6, <1>7
<1>9. Sums[None] = Zero /\ \A h \in Hash : Sums[h] = combine_deltas(get_delta(h), Sums[prev[h]])
  <2>1. \A h \in Hash : h \in Nodes /\ h # None
    BY NAssumption DEF Hash, Nodes, None
  <2> QED
    BY <1>8, <2>1, HashTypes
<1> DEFINE T == {x \in Nodes : Sums[x] \notin V}
<1>10. T = {}
  <2> SUFFICES ASSUME T # {} PROVE FALSE
    OBVIOUS
  <2>1. PICK m \in T : m = None \/ (m \in Hash /\ prev[m] \in Nodes \ T)
    <3> HIDE DEF T
    <3>1. T \in SUBSET Nodes
      BY DEF T
    <3> QED
      BY <3>1, LowestLacking
  <2>2. m # None
    BY <1>1, <1>9
  <2>3. Sums[prev[m]] \in V /\ get_delta(m) \in V
    BY <2>1, <2>2, DeltaFacts
  <2>4. combine_deltas(get_delta(m), Sums[prev[m]]) \in V
    BY <2>3 DEF combine_deltas
  <2>5. Sums[m] \in V
    <3> HIDE DEF V
    <3> QED
      BY <2>1, <2>2, <2>4, <1>9
  <2> QED
    BY <2>5
<1> QED
  BY <1>8, <1>9, <1>10

LEMMA WaysFacts ==
    ASSUME Linked
    PROVE  /\ Ways \in [Nodes -> SUBSET Nodes]
           /\ Ways[None] = {None}
           /\ \A h \in Hash : Ways[h] = {h} \cup Ways[prev[h]]
<1> DEFINE V == SUBSET Nodes
           G == [h \in Hash |-> [v \in V |-> {h} \cup v]]
           R(s) == [x \in Nodes |-> IF x = None THEN {None} ELSE {x} \cup s[prev[x]]]
<1>1. {None} \in V
  BY HashTypes
<1>2. G \in [Hash -> [V -> V]]
  BY HashTypes
<1>3. PICK s \in [Nodes -> V] :
         s[None] = {None} /\ \A h \in Hash : s[h] = G[h][s[prev[h]]]
  <2> HIDE DEF V, G
  <2> QED
    BY <1>1, <1>2, RecursionExists
<1>4. \A h \in Hash : prev[h] \in Nodes
  BY DEF Linked
<1>5. \A h \in Hash : s[h] = {h} \cup s[prev[h]]
  BY <1>3, <1>4
<1>6. s = R(s)
  BY <1>3, <1>5, HashTypes
<1>7. Ways = CHOOSE f : f = R(f)
  BY DEF Ways
<1>8. Ways = R(Ways)
  BY <1>6, <1>7
<1>9. Ways[None] = {None} /\ \A h \in Hash : Ways[h] = {h} \cup Ways[prev[h]]
  <2>1. \A h \in Hash : h \in Nodes /\ h # None
    BY NAssumption DEF Hash, Nodes, None
  <2> QED
    BY <1>8, <2>1, HashTypes
<1> DEFINE T == {x \in Nodes : Ways[x] \notin V}
<1>10. T = {}
  <2> SUFFICES ASSUME T # {} PROVE FALSE
    OBVIOUS
  <2>1. PICK m \in T : m = None \/ (m \in Hash /\ prev[m] \in Nodes \ T)
    <3> HIDE DEF T
    <3>1. T \in SUBSET Nodes
      BY DEF T
    <3> QED
      BY <3>1, LowestLacking
  <2>2. m # None
    BY <1>1, <1>9
  <2>3. Ways[m] \in V
    BY <2>1, <2>2, <1>9, HashTypes
  <2> QED
    BY <2>3
<1> QED
  BY <1>8, <1>9, <1>10

LEMMA HeightFacts ==
    ASSUME Linked, NEW S \in SUBSET Hash
    PROVE  /\ HeightMap(prev, S) \in [Nodes -> Nat]
           /\ HeightMap(prev, S)[None] = 0
           /\ \A h \in Hash : HeightMap(prev, S)[h] =
                 IF h \in S THEN 1 + HeightMap(prev, S)[prev[h]] ELSE 0
<1> DEFINE H == HeightMap(prev, S)
           V == Nat
           G == [h \in Hash |-> [v \in V |-> IF h \in S THEN 1 + v ELSE 0]]
           R(s) == [x \in Nodes |-> IF x \in S THEN 1 + s[prev[x]] ELSE 0]
<1>1. G \in [Hash -> [V -> V]] /\ 0 \in V
  OBVIOUS
<1>2. PICK s \in [Nodes -> V] : s[None] = 0 /\ \A h \in Hash : s[h] = G[h][s[prev[h]]]
  <2> HIDE DEF G, V
  <2> QED
    BY <1>1, RecursionExists
<1>3. \A h \in Hash : prev[h] \in Nodes
  BY DEF Linked
<1>4. \A h \in Hash : s[h] = IF h \in S THEN 1 + s[prev[h]] ELSE 0
  BY <1>2, <1>3
<1>5. None \notin S
  BY NAssumption DEF Hash, None
<1>6. s = R(s)
  BY <1>2, <1>4, <1>5, HashTypes
<1>7. H = CHOOSE f : f = R(f)
  BY DEF HeightMap
<1>8. H = R(H)
  BY <1>6, <1>7
<1>9. H[None] = 0 /\ \A h \in Hash : H[h] = IF h \in S THEN 1 + H[prev[h]] ELSE 0
  <2> HIDE DEF H
  <2> QED
    BY <1>8, <1>5, HashTypes
<1> DEFINE T == {x \in Nodes : H[x] \notin Nat}
<1>10. T = {}
  <2> SUFFICES ASSUME T # {} PROVE FALSE
    OBVIOUS
  <2> HIDE DEF H
  <2>1. PICK m \in T : m = None \/ (m \in Hash /\ prev[m] \in Nodes \ T)
    <3> HIDE DEF T
    <3>1. T \in SUBSET Nodes
      BY DEF T
    <3> QED
      BY <3>1, LowestLacking
  <2>2. m # None
    BY <1>9
  <2>3. H[m] \in Nat
    BY <2>1, <2>2, <1>9
  <2> QED
    BY <2>3
<1> QED
  BY <1>8, <1>9, <1>10

-----------------------------------------------------------------------------
(* Chains.                                                                  *)

(* A way only leads down, and what lies on it is counted.                   *)
LEMMA WaysDown ==
    ASSUME Linked, Shared, NEW x \in Nodes
    PROVE  /\ x \in Ways[x]
           /\ \A y \in Ways[x] :
                /\ y \in Nodes /\ y <= x
                /\ Ways[y] \subseteq Ways[x]
                /\ Between(x, y)["shares"] >= 0
                /\ y # x => Between(x, y)["shares"] >= 1
<1> DEFINE P(u) ==
        /\ u \in Ways[u]
        /\ \A y \in Ways[u] :
             /\ y \in Nodes /\ y <= u
             /\ Ways[y] \subseteq Ways[u]
             /\ Between(u, y)["shares"] >= 0
             /\ y # u => Between(u, y)["shares"] >= 1
           T == {u \in Nodes : ~P(u)}
<1>1. T = {}
  <2> SUFFICES ASSUME T # {} PROVE FALSE
    OBVIOUS
  <2>1. PICK m \in T : m = None \/ (m \in Hash /\ prev[m] \in Nodes \ T)
    <3> HIDE DEF T
    <3>1. T \in SUBSET Nodes
      BY DEF T
    <3> QED
      BY <3>1, LowestLacking
  <2>2. m \in Nodes /\ m \in Nat /\ ~P(m)
    BY HashTypes
  <2>3. ASSUME NEW u \in Nodes, NEW y \in Nodes
        PROVE  /\ Sums[u]["shares"] \in Int /\ Sums[y]["shares"] \in Int
               /\ Between(u, y)["shares"] = Sums[u]["shares"] - Sums[y]["shares"]
    BY SumsFacts, ColumnFacts DEF Between
  <2>4. CASE m = None
    <3>1. Ways[m] = {m}
      BY <2>4, WaysFacts
    <3>2. Between(m, m)["shares"] = 0
      BY <2>2, <2>3
    <3> QED
      BY <2>2, <3>1, <3>2
  <2>5. CASE m # None
    <3>1. m \in Hash /\ prev[m] \in Nodes /\ P(prev[m])
      BY <2>1, <2>5
    <3>2. Ways[m] = {m} \cup Ways[prev[m]]
      BY <3>1, WaysFacts
    <3>3. prev[m] \in Nat /\ prev[m] < m
      BY <3>1, HashTypes DEF Linked
    <3>4. Sums[m]["shares"] = 1 + Sums[prev[m]]["shares"]
      <4>1. Sums[m] = combine_deltas(get_delta(m), Sums[prev[m]])
        BY <3>1, SumsFacts
      <4> QED
        BY <4>1, <3>1, DeltaFacts, ColumnFacts DEF combine_deltas
    <3>5. ASSUME NEW y \in Ways[prev[m]]
          PROVE  /\ y \in Nodes /\ y <= m /\ Ways[y] \subseteq Ways[m]
                 /\ Between(m, y)["shares"] >= 1
      <4>1. y \in Nodes /\ y <= prev[m] /\ Ways[y] \subseteq Ways[prev[m]]
            /\ Between(prev[m], y)["shares"] >= 0
        BY <3>1
      <4>2. y \in Nat
        BY <4>1, HashTypes
      <4>3. Between(m, y)["shares"] = 1 + Between(prev[m], y)["shares"]
        <5>1. Between(m, y)["shares"] = Sums[m]["shares"] - Sums[y]["shares"]
          BY <4>1, <2>2, <2>3
        <5>2. /\ Between(prev[m], y)["shares"] = Sums[prev[m]]["shares"] - Sums[y]["shares"]
              /\ Sums[prev[m]]["shares"] \in Int /\ Sums[y]["shares"] \in Int
          BY <4>1, <3>1, <2>3
        <5> QED
          BY <5>1, <5>2, <3>4
      <4>4. Between(prev[m], y)["shares"] \in Int
        BY <4>1, <3>1, <2>3
      <4> HIDE DEF P
      <4> QED
        BY <4>1, <4>2, <4>3, <4>4, <3>2, <3>3, <2>2
    <3>6. Between(m, m)["shares"] = 0
      BY <2>2, <2>3
    <3>7. P(m)
      <4>1. m \in Ways[m]
        BY <3>2
      <4>2. ASSUME NEW y \in Ways[m]
            PROVE  /\ y \in Nodes /\ y <= m /\ Ways[y] \subseteq Ways[m]
                   /\ Between(m, y)["shares"] >= 0
                   /\ y # m => Between(m, y)["shares"] >= 1
        <5>1. CASE y = m
          BY <5>1, <2>2, <3>6
        <5>2. CASE y # m
          <6>1. y \in Ways[prev[m]]
            BY <5>2, <3>2
          <6>2. /\ y \in Nodes /\ y <= m /\ Ways[y] \subseteq Ways[m]
                /\ Between(m, y)["shares"] >= 1
            BY <6>1, <3>5
          <6>3. Between(m, y)["shares"] \in Int
            BY <6>2, <2>2, <2>3
          <6> QED
            BY <6>2, <6>3
        <5> QED
          BY <5>1, <5>2
      <4> QED
        BY <4>1, <4>2
    <3> QED
      BY <2>2, <3>7
  <2> QED
    BY <2>4, <2>5
<1> QED
  BY <1>1

(* The shares of a chain that get_height counts are in the tracker.         *)
LEMMA HeightCovers ==
    ASSUME Linked, Shared, items \subseteq Hash, NEW x \in Nodes
    PROVE  \A y \in Ways[x] : Between(x, y)["shares"] < Height(x) => y \in items
<1> DEFINE P(u) == \A y \in Ways[u] :
                      Between(u, y)["shares"] < HeightMap(prev, items)[u] => y \in items
           T == {u \in Nodes : ~P(u)}
<1>1. T = {}
  <2> SUFFICES ASSUME T # {} PROVE FALSE
    OBVIOUS
  <2>1. PICK m \in T : m = None \/ (m \in Hash /\ prev[m] \in Nodes \ T)
    <3> HIDE DEF T
    <3>1. T \in SUBSET Nodes
      BY DEF T
    <3> QED
      BY <3>1, LowestLacking
  <2>2. m \in Nodes /\ ~P(m)
    OBVIOUS
  <2>3. PICK y \in Ways[m] :
           Between(m, y)["shares"] < HeightMap(prev, items)[m] /\ y \notin items
    BY <2>2
  <2>4. y \in Nodes /\ Between(m, y)["shares"] >= 0
    BY <2>2, WaysDown
  <2>5. HeightMap(prev, items)[m] \in Nat /\ Between(m, y)["shares"] \in Int
    BY <2>2, <2>4, HeightFacts, SumsFacts, ColumnFacts DEF Between
  <2>6. HeightMap(prev, items)[m] > 0
    BY <2>3, <2>4, <2>5
  <2>7. m \in Hash /\ m \in items /\ prev[m] \in Nodes /\ P(prev[m])
        /\ HeightMap(prev, items)[m] = 1 + HeightMap(prev, items)[prev[m]]
    <3>1. m # None
      BY <2>6, HeightFacts
    <3>2. m \in Hash /\ prev[m] \in Nodes /\ P(prev[m])
      BY <3>1, <2>1
    <3>3. HeightMap(prev, items)[m] =
            IF m \in items THEN 1 + HeightMap(prev, items)[prev[m]] ELSE 0
      BY <3>2, HeightFacts
    <3> QED
      BY <3>2, <3>3, <2>6
  <2>8. y \in Ways[prev[m]]
    <3>1. y # m
      BY <2>3, <2>7
    <3> QED
      BY <3>1, <2>3, <2>7, WaysFacts
  <2>9. Between(m, y)["shares"] = 1 + Between(prev[m], y)["shares"]
    <3>1. Sums[m] = combine_deltas(get_delta(m), Sums[prev[m]])
      BY <2>7, SumsFacts
    <3>2. Sums[m]["shares"] = 1 + Sums[prev[m]]["shares"]
      BY <3>1, <2>7, DeltaFacts, ColumnFacts DEF combine_deltas
    <3>3. Sums[prev[m]]["shares"] \in Int /\ Sums[y]["shares"] \in Int
      BY <2>7, <2>4, SumsFacts, ColumnFacts
    <3> QED
      BY <3>2, <3>3, ColumnFacts DEF Between
  <2>10. Between(prev[m], y)["shares"] < HeightMap(prev, items)[prev[m]]
    <3>1. Between(prev[m], y)["shares"] \in Int /\ HeightMap(prev, items)[prev[m]] \in Nat
      BY <2>7, <2>4, HeightFacts, SumsFacts, ColumnFacts DEF Between
    <3> QED
      BY <3>1, <2>3, <2>7, <2>9
  <2> QED
    BY <2>3, <2>7, <2>8, <2>10
<1> QED
  BY <1>1 DEF Height

(* Sums add up along a way.                                                 *)
LEMMA BetweenFacts ==
    ASSUME Linked, Shared, NEW x \in Nodes, NEW y \in Nodes, NEW z \in Nodes
    PROVE  /\ Between(x, y) \in [Column -> Int]
           /\ Between(x, x) = Zero
           /\ combine_deltas(Between(x, y), Between(y, z)) = Between(x, z)
           /\ combine_deltas(Zero, Between(x, y)) = Between(x, y)
<1>1. Sums[x] \in [Column -> Int] /\ Sums[y] \in [Column -> Int] /\ Sums[z] \in [Column -> Int]
  BY SumsFacts
<1>2. \A c \in Column : Sums[x][c] \in Int /\ Sums[y][c] \in Int /\ Sums[z][c] \in Int
  BY <1>1
<1>3. Between(x, y) \in [Column -> Int]
  BY <1>2 DEF Between
<1>4. \A c \in Column : Sums[x][c] - Sums[x][c] = 0
  BY <1>2
<1>5. Between(x, x) = Zero
  BY <1>4 DEF Between, Zero
<1>6. \A c \in Column : (Sums[x][c] - Sums[y][c]) + (Sums[y][c] - Sums[z][c]) = Sums[x][c] - Sums[z][c]
  BY <1>2
<1>7. combine_deltas(Between(x, y), Between(y, z)) = Between(x, z)
  BY <1>6 DEF Between, combine_deltas
<1>8. \A c \in Column : 0 + (Sums[x][c] - Sums[y][c]) = Sums[x][c] - Sums[y][c]
  BY <1>2
<1>9. combine_deltas(Zero, Between(x, y)) = Between(x, y)
  BY <1>8 DEF Between, combine_deltas, Zero
<1> QED
  BY <1>3, <1>5, <1>7, <1>9

LEMMA BetweenParent ==
    ASSUME Linked, Shared, NEW h \in Hash
    PROVE  /\ Between(h, prev[h]) = get_delta(h)
           /\ prev[h] \in Nodes /\ prev[h] \in Ways[prev[h]]
<1>1. prev[h] \in Nodes /\ h \in Nodes
  BY HashTypes DEF Linked
<1>2. Sums[h] = combine_deltas(get_delta(h), Sums[prev[h]])
  BY SumsFacts
<1>3. \A c \in Column : get_delta(h)[c] \in Int /\ Sums[prev[h]][c] \in Int
  BY <1>1, DeltaFacts, SumsFacts
<1>4. \A c \in Column : Sums[h][c] - Sums[prev[h]][c] = get_delta(h)[c]
  BY <1>2, <1>3 DEF combine_deltas
<1>5. get_delta(h) = [c \in Column |-> get_delta(h)[c]]
  BY DeltaFacts
<1> QED
  BY <1>1, <1>4, <1>5, WaysDown DEF Between

-----------------------------------------------------------------------------
(* Weights are whole multiples of Unit, so what is missing to the desired   *)
(* weight is one too, and the part of the last share fills it exactly.      *)

LEMMA ProductDivided ==
    ASSUME NEW x \in Int, NEW d \in Nat \ {0}
    PROVE  (x * d) \div d = x
<1>1. x * d \in Int
  OBVIOUS
<1> DEFINE q == (x * d) \div d
           m == (x * d) % d
<1>2. q \in Int /\ m \in 0..(d - 1) /\ x * d = d * q + m
  BY <1>1
<1>3. d * (x - q) = m
  BY <1>2
<1> HIDE DEF q, m
<1>4. x - q \in Int
  BY <1>2
<1>5. ~ (x - q >= 1)
  <2> SUFFICES ASSUME x - q >= 1 PROVE FALSE
    OBVIOUS
  <2>1. d * (x - q) >= d
    BY <1>4
  <2> QED
    BY <2>1, <1>2, <1>3
<1>6. ~ (x - q <= -1)
  <2> SUFFICES ASSUME x - q <= -1 PROVE FALSE
    OBVIOUS
  <2>1. d * (x - q) <= -d
    BY <1>4
  <2> QED
    BY <2>1, <1>2, <1>3
<1>7. x = q
  BY <1>2, <1>4, <1>5, <1>6
<1> QED
  BY <1>7 DEF q

LEMMA TotalsWhole ==
    ASSUME Linked, Shared, NEW x \in Nodes
    PROVE  \E k \in Int : Sums[x]["total"] = k * Unit
<1> DEFINE P(u) == \E k \in Int : Sums[u]["total"] = k * Unit
           T == {u \in Nodes : ~P(u)}
<1>1. T = {}
  <2> SUFFICES ASSUME T # {} PROVE FALSE
    OBVIOUS
  <2>1. PICK m \in T : m = None \/ (m \in Hash /\ prev[m] \in Nodes \ T)
    <3> HIDE DEF T
    <3>1. T \in SUBSET Nodes
      BY DEF T
    <3> QED
      BY <3>1, LowestLacking
  <2>2. CASE m = None
    <3>1. Sums[m]["total"] = 0 * Unit
      BY <2>2, SumsFacts, ColumnFacts DEF Zero
    <3> QED
      BY <3>1
  <2>3. CASE m \in Hash /\ prev[m] \in Nodes \ T
    <3>1. PICK k \in Int : Sums[prev[m]]["total"] = k * Unit
      BY <2>3
    <3>2. Sums[m]["total"] = share[m].attempts * Unit + k * Unit
      <4>1. Sums[m] = combine_deltas(get_delta(m), Sums[prev[m]])
        BY <2>3, SumsFacts
      <4> QED
        BY <4>1, <3>1, <2>3, DeltaFacts, ColumnFacts DEF combine_deltas
    <3>3. share[m].attempts \in Nat
      BY <2>3 DEF Shared
    <3>4. Sums[m]["total"] = (share[m].attempts + k) * Unit /\ share[m].attempts + k \in Int
      BY <3>2, <3>3, ColumnFacts
    <3> QED
      BY <3>4
  <2> QED
    BY <2>1, <2>2, <2>3
<1> QED
  BY <1>1

LEMMA MissingWhole ==
    ASSUME Linked, Shared, NEW x \in Nodes, NEW y \in Nodes, NEW w \in Nat, w % Unit = 0
    PROVE  \E k \in Int : w - Between(x, y)["total"] = k * Unit
<1> DEFINE n == w - Between(x, y)["total"]
           v == w \div Unit
<1>1. PICK i \in Int : Sums[x]["total"] = i * Unit
  BY TotalsWhole
<1>2. PICK j \in Int : Sums[y]["total"] = j * Unit
  BY TotalsWhole
<1>3. w = (w \div Unit) * Unit /\ w \div Unit \in Int
  BY ColumnFacts
<1>4. Between(x, y)["total"] = i * Unit - j * Unit
  BY <1>1, <1>2, ColumnFacts DEF Between
<1>5. v \in Int /\ n = v * Unit - (i * Unit - j * Unit)
  BY <1>3, <1>4
<1> HIDE DEF v, n
<1>6. n = (v - i + j) * Unit /\ v - i + j \in Int
  BY <1>5, ColumnFacts
<1>7. \E k \in Int : n = k * Unit
  BY <1>6
<1> QED
  BY <1>7 DEF n

LEMMA MissingFilled ==
    ASSUME Linked, Shared, NEW x \in Nodes, NEW y \in Nodes, NEW h \in Hash,
           NEW w \in Nat, w % Unit = 0
    PROVE  /\ Part(w - Between(x, y)["total"], get_delta(h))["shares"] = 1
           /\ Part(w - Between(x, y)["total"], get_delta(h))["total"]
                = w - Between(x, y)["total"]
<1> DEFINE n == w - Between(x, y)["total"]
           b == share[h].attempts
<1>1. PICK k \in Int : n = k * Unit
  BY MissingWhole
<1>2. b \in Nat \ {0} /\ get_delta(h)["total"] = b * Unit
  BY DeltaFacts DEF Shared
<1>3. n \div Unit = k
  BY <1>1, ProductDivided, ColumnFacts
<1>4. (b * Unit) \div Unit = b
  BY <1>2, ProductDivided, ColumnFacts
<1>5. k * (b * Unit) = (k * Unit) * b
  BY <1>2, ColumnFacts
<1>6. ((k * Unit) * b) \div b = k * Unit
  <2>1. k * Unit \in Int
    BY ColumnFacts
  <2> HIDE DEF b
  <2> QED
    BY <2>1, <1>2, ProductDivided
<1>7. Part(n, get_delta(h))["total"] = ((n \div Unit) * (b * Unit)) \div ((b * Unit) \div Unit)
  BY <1>2, ColumnFacts DEF Part
<1>8. Part(n, get_delta(h))["total"] = n
  BY <1>1, <1>3, <1>4, <1>5, <1>6, <1>7
<1>9. Part(n, get_delta(h))["shares"] = 1
  BY ColumnFacts DEF Part
<1> QED
  BY <1>8, <1>9

-----------------------------------------------------------------------------
(* The strengthened invariant: every jump leads down its chain and carries  *)
(* the sum of what it leads over, those that are still being measured as    *)
(* much as the walk itself, and the walk never gets below what is there.    *)

JumpExact(h, j) == j.to \in Ways[prev[h]] /\ j.delta = Between(h, j.to)

EntryExact(h, e) ==
    /\ e.length \in 1..MaxLevel
    /\ DOMAIN e.jumps \subseteq 0..(e.length - 1)
    /\ 0 \in DOMAIN e.jumps /\ e.jumps[0].to = prev[h]
    /\ \A i \in DOMAIN e.jumps : 0..i \subseteq DOMAIN e.jumps /\ JumpExact(h, e.jumps[i])

SkipsExact ==
    /\ DOMAIN skips \subseteq items
    /\ \A h \in DOMAIN skips : EntryExact(h, skips[h])

Asked(q) ==
    /\ q.start \in Nodes /\ q.max \in Nat
    /\ q.desired \in Nat \ {0} /\ q.desired % Unit = 0

Covered(q) ==
    \A y \in Ways[q.start] : Between(q.start, y)["shares"] < q.max => y \in items

PendingExact(i) ==
    LET h == updates[i].from
    IN /\ h \in DOMAIN skips
       /\ i \in 0..(skips[h].length - 1) /\ i \notin DOMAIN skips[h].jumps
       /\ pos \in Ways[prev[h]] /\ updates[i].delta = Between(h, pos)
       /\ \A j \in 0..(i - 1) :
             j \in DOMAIN skips[h].jumps \/ (j \in DOMAIN updates /\ updates[j].from = h)

WalkExact ==
    /\ Asked(question) /\ Covered(question)
    /\ pos \in Ways[question.start] /\ sum = Between(question.start, pos)
    /\ sum["shares"] < question.max /\ sum["total"] < question.desired
    /\ \A i \in DOMAIN updates : PendingExact(i)

IInv ==
    /\ Linked /\ Shared /\ items \subseteq Hash
    /\ SkipsExact
    /\ status = "walking" => WalkExact
    /\ AnswersExact

-----------------------------------------------------------------------------
(* A round of the loop.                                                     *)

LEMMA PosPresent ==
    ASSUME IInv, status = "walking"
    PROVE  pos \in items /\ pos \in Hash /\ question.start \in Nodes
  BY DEF IInv, WalkExact, Covered, Asked

LEMMA EntryIsExact ==
    ASSUME IInv, status = "walking", NEW length \in 1..MaxLevel
    PROVE  EntryExact(pos, Entry(pos, length))
<1>1. CASE pos \in DOMAIN skips
  BY <1>1 DEF Entry, IInv, SkipsExact
<1>2. CASE pos \notin DOMAIN skips
  <2> DEFINE j == [to |-> prev[pos], delta |-> get_delta(pos)]
             e == [length |-> length, jumps |-> [i \in {0} |-> j]]
  <2>1. Entry(pos, length) = e
    BY <1>2 DEF Entry
  <2>2. pos \in Hash
    BY PosPresent
  <2>3. JumpExact(pos, j)
    BY <2>2, BetweenParent DEF JumpExact, IInv
  <2>4. e.length = length /\ DOMAIN e.jumps = {0} /\ e.jumps[0] = j
    OBVIOUS
  <2>5. j.to = prev[pos] /\ 0 \in 0..(length - 1) /\ 0..0 = {0}
    OBVIOUS
  <2> HIDE DEF j, e
  <2>6. EntryExact(pos, e)
    BY <2>3, <2>4, <2>5 DEF EntryExact
  <2> QED
    BY <2>1, <2>6
<1> QED
  BY <1>1, <1>2

(* A jump that ends here belongs to a share above.                          *)
LEMMA FromAbove ==
    ASSUME IInv, status = "walking", NEW i \in DOMAIN updates
    PROVE  /\ updates[i].from \in DOMAIN skips /\ updates[i].from \in Hash
           /\ updates[i].from # pos
<1> DEFINE h == updates[i].from
<1>1. h \in DOMAIN skips /\ pos \in Ways[prev[h]]
  BY DEF IInv, WalkExact, PendingExact
<1>2. h \in Hash
  BY <1>1 DEF IInv, SkipsExact
<1>3. prev[h] \in Nodes /\ prev[h] < h
  BY <1>2 DEF IInv, Linked
<1>4. pos <= prev[h]
  BY <1>1, <1>3, WaysDown DEF IInv
<1>5. pos \in Nat /\ h \in Nat /\ prev[h] \in Nat
  BY <1>2, <1>3, PosPresent, HashTypes
<1> QED
  BY <1>1, <1>2, <1>3, <1>4, <1>5

LEMMA ExtendedExact ==
    ASSUME IInv, status = "walking", NEW length \in 1..MaxLevel,
           NEW h \in DOMAIN skips \cup {pos}
    PROVE  /\ EntryExact(h, Extended(h, Entry(pos, length)))
           /\ h # pos => Extended(h, Entry(pos, length)).length = skips[h].length
           /\ h = pos => /\ Extended(h, Entry(pos, length)).length = Entry(pos, length).length
                         /\ DOMAIN Extended(h, Entry(pos, length)).jumps
                              = DOMAIN Entry(pos, length).jumps
           /\ h # pos => DOMAIN Extended(h, Entry(pos, length)).jumps
                = DOMAIN skips[h].jumps
                    \cup {i \in Filled(Entry(pos, length)) : updates[i].from = h}
<1> DEFINE e == Entry(pos, length)
           old == IF h = pos THEN e ELSE skips[h]
           ending == {i \in Filled(e) : updates[i].from = h}
           new == [i \in DOMAIN old.jumps \cup ending |->
                      IF i \in ending THEN [to |-> pos, delta |-> updates[i].delta]
                      ELSE old.jumps[i]]
           x == Extended(h, e)
<1>1. x = [length |-> old.length, jumps |-> new]
  BY DEF Extended
<1>2. EntryExact(h, old)
  BY EntryIsExact DEF IInv, SkipsExact
<1>3. ending \subseteq DOMAIN updates /\ \A i \in ending : i < e.length /\ updates[i].from = h
  BY DEF Filled
<1>4. h = pos => ending = {}
  BY <1>3, FromAbove
<1>5. ASSUME NEW i \in ending
      PROVE  /\ i \in 0..(old.length - 1) /\ i \notin DOMAIN old.jumps
             /\ pos \in Ways[prev[h]] /\ updates[i].delta = Between(h, pos)
             /\ 0..i \subseteq DOMAIN old.jumps \cup ending
  <2>1. h # pos /\ old = skips[h]
    BY <1>4
  <2>2. PendingExact(i) /\ updates[i].from = h
    BY <1>3 DEF IInv, WalkExact
  <2>3. /\ i \in 0..(old.length - 1) /\ i \notin DOMAIN old.jumps
        /\ pos \in Ways[prev[h]] /\ updates[i].delta = Between(h, pos)
    BY <2>1, <2>2 DEF PendingExact
  <2>4. ASSUME NEW j \in 0..(i - 1) PROVE j \in DOMAIN old.jumps \cup ending
    <3>1. j \in DOMAIN old.jumps \/ (j \in DOMAIN updates /\ updates[j].from = h)
      BY <2>1, <2>2 DEF PendingExact
    <3>2. e.length \in Nat /\ i \in Nat /\ i < e.length
      BY <1>3, <2>3, EntryIsExact DEF EntryExact
    <3>3. j < e.length
      BY <3>2
    <3> QED
      BY <3>1, <3>3 DEF Filled
  <2>5. i \in Nat
    BY <2>3
  <2>6. \A j \in 0..i : j = i \/ j \in 0..(i - 1)
    BY <2>5
  <2> HIDE DEF old, ending
  <2> QED
    BY <2>3, <2>4, <2>6
<1> HIDE DEF old, e, x
<1>6. x.length = old.length /\ x.jumps = new
  BY <1>1
<1>7. DOMAIN new = DOMAIN old.jumps \cup ending
  OBVIOUS
<1>8. DOMAIN new \subseteq 0..(old.length - 1)
  BY <1>2, <1>5, <1>7 DEF EntryExact
<1>9. 0 \in DOMAIN new /\ new[0].to = prev[h]
  <2>1. 0 \in DOMAIN old.jumps /\ 0 \notin ending /\ old.jumps[0].to = prev[h]
    BY <1>2, <1>5 DEF EntryExact
  <2> QED
    BY <2>1
<1>10. ASSUME NEW i \in DOMAIN new
       PROVE  0..i \subseteq DOMAIN new /\ JumpExact(h, new[i])
  <2>1. CASE i \in ending
    <3>1. new[i] = [to |-> pos, delta |-> updates[i].delta]
      BY <2>1
    <3>2. new[i].to = pos /\ new[i].delta = updates[i].delta
      BY <3>1
    <3> HIDE DEF new, ending
    <3> QED
      BY <2>1, <3>2, <1>5, <1>7 DEF JumpExact
  <2>2. CASE i \notin ending
    <3>1. i \in DOMAIN old.jumps /\ new[i] = old.jumps[i]
      BY <2>2
    <3> HIDE DEF new, ending
    <3> QED
      BY <3>1, <1>2, <1>7 DEF EntryExact
  <2> QED
    BY <2>1, <2>2
<1> HIDE DEF new
<1>11. EntryExact(h, x)
  BY <1>2, <1>6, <1>8, <1>9, <1>10 DEF EntryExact
<1>12. h = pos => x.length = e.length /\ DOMAIN x.jumps = DOMAIN e.jumps
  BY <1>4, <1>6, <1>7 DEF old
<1>13. h # pos => x.length = skips[h].length /\ DOMAIN x.jumps = DOMAIN skips[h].jumps \cup ending
  BY <1>6, <1>7 DEF old
<1> QED
  BY <1>11, <1>12, <1>13 DEF e, x

LEMMA AlwaysInOrder ==
    ASSUME IInv, status = "walking", NEW length \in 1..MaxLevel
    PROVE  InOrder(Entry(pos, length))
<1> DEFINE e == Entry(pos, length)
<1> SUFFICES ASSUME NEW i \in Filled(e)
             PROVE  /\ i \notin DOMAIN skips[updates[i].from].jumps
                    /\ 0..i \subseteq DOMAIN Extended(updates[i].from, e).jumps
  BY DEF InOrder
<1> DEFINE h == updates[i].from
<1>1. i \in DOMAIN updates /\ i < e.length
  BY DEF Filled
<1>2. h \in DOMAIN skips /\ h # pos
  BY <1>1, FromAbove
<1>3. i \notin DOMAIN skips[h].jumps
  BY <1>1 DEF IInv, WalkExact, PendingExact
<1>4. EntryExact(h, Extended(h, e))
  BY <1>2, ExtendedExact
<1>5. i \in DOMAIN Extended(h, e).jumps
  BY <1>2, ExtendedExact
<1> QED
  BY <1>3, <1>4, <1>5 DEF EntryExact

(* What a jump makes of the sum: the sum down to where it leads, or, if one *)
(* share is all it leads over and weighs too much, the part of that share   *)
(* that is missing.                                                         *)
LEMMA AfterFacts ==
    ASSUME IInv, status = "walking", NEW e, EntryExact(pos, e), NEW i \in DOMAIN e.jumps
    PROVE  /\ e.jumps[i].to \in Ways[question.start]
           /\ \/ After(e, i) = Between(question.start, e.jumps[i].to)
              \/ OwedPart(question, After(e, i)) /\ Enough(question, After(e, i))
<1> DEFINE q == question
           to == e.jumps[i].to
           d == e.jumps[i].delta
           missing == q.desired - sum["total"]
<1>1. pos \in Hash /\ q.start \in Nodes /\ pos \in Ways[q.start]
  BY PosPresent DEF IInv, WalkExact
<1>2. Linked /\ Shared /\ pos \in Nodes /\ prev[pos] \in Nodes
  BY <1>1, HashTypes DEF IInv, Linked
<1>3. to \in Ways[prev[pos]] /\ d = Between(pos, to)
  BY DEF EntryExact, JumpExact
<1>4. to \in Nodes /\ Ways[prev[pos]] \subseteq Ways[pos] /\ Ways[pos] \subseteq Ways[q.start]
  <2>1. Ways[pos] = {pos} \cup Ways[prev[pos]]
    BY <1>1, <1>2, WaysFacts
  <2>2. to \in Nodes
    BY <1>2, <1>3, WaysDown
  <2>3. Ways[pos] \subseteq Ways[q.start]
    BY <1>1, <1>2, WaysDown
  <2> QED
    BY <2>1, <2>2, <2>3
<1>5. sum = Between(q.start, pos)
  BY DEF IInv, WalkExact
<1>6. combine_deltas(sum, d) = Between(q.start, to)
  BY <1>1, <1>2, <1>3, <1>4, <1>5, BetweenFacts
<1>7. CASE ~(sum["total"] + d["total"] > q.desired /\ d["shares"] = 1)
  <2>1. After(e, i) = combine_deltas(sum, d)
    BY <1>7 DEF After, apply_delta
  <2> QED
    BY <1>3, <1>4, <1>6, <2>1
<1>8. CASE sum["total"] + d["total"] > q.desired /\ d["shares"] = 1
  <2>1. d = get_delta(pos)
    <3>1. Between(pos, to)["shares"] = 1
      BY <1>3, <1>8
    <3>2. Between(pos, prev[pos])["shares"] = 1
      BY <1>1, <1>2, BetweenParent, DeltaFacts
    <3>3. \A x \in Nodes, y \in Nodes :
            /\ Sums[x]["shares"] \in Int
            /\ Between(x, y)["shares"] = Sums[x]["shares"] - Sums[y]["shares"]
      BY <1>2, SumsFacts, ColumnFacts DEF Between
    <3>4. Between(prev[pos], to)["shares"] = 0
      <4>1. /\ Between(pos, to)["shares"] = Sums[pos]["shares"] - Sums[to]["shares"]
            /\ Between(pos, prev[pos])["shares"] = Sums[pos]["shares"] - Sums[prev[pos]]["shares"]
            /\ Between(prev[pos], to)["shares"] = Sums[prev[pos]]["shares"] - Sums[to]["shares"]
        BY <1>2, <1>4, <3>3
      <4>2. Sums[pos]["shares"] \in Int /\ Sums[to]["shares"] \in Int /\ Sums[prev[pos]]["shares"] \in Int
        BY <1>2, <1>4, <3>3
      <4> QED
        BY <4>1, <4>2, <3>1, <3>2
    <3>5. to = prev[pos]
      <4>1. to # prev[pos] => Between(prev[pos], to)["shares"] >= 1
        BY <1>2, <1>3, WaysDown
      <4> QED
        BY <4>1, <3>4
    <3> QED
      BY <1>1, <1>2, <1>3, <3>5, BetweenParent
  <2>2. After(e, i) = combine_deltas(sum, Part(missing, get_delta(pos)))
    BY <1>8, <2>1 DEF After, apply_delta
  <2>3. /\ q.desired \in Nat /\ q.desired % Unit = 0 /\ q.max \in Nat
        /\ sum["shares"] < q.max /\ sum["total"] < q.desired
    BY DEF IInv, WalkExact, Asked
  <2>4. /\ Part(missing, get_delta(pos))["shares"] = 1
        /\ Part(missing, get_delta(pos))["total"] = missing
    BY <1>1, <1>2, <1>5, <2>3, MissingFilled
  <2>5. sum["shares"] \in Int /\ sum["total"] \in Int
    BY <1>1, <1>2, <1>5, BetweenFacts, ColumnFacts
  <2>6. After(e, i)["shares"] = sum["shares"] + 1 /\ After(e, i)["total"] = q.desired
    <3>1. /\ After(e, i)["shares"] = sum["shares"] + Part(missing, get_delta(pos))["shares"]
          /\ After(e, i)["total"] = sum["total"] + Part(missing, get_delta(pos))["total"]
      BY <2>2, ColumnFacts DEF combine_deltas
    <3> QED
      BY <3>1, <2>3, <2>4, <2>5
  <2>7. Enough(q, After(e, i))
    BY <2>3, <2>5, <2>6 DEF Enough, TooMuch
  <2>8. missing \in 1..(share[pos].attempts * Unit - 1)
    <3>1. d["total"] = share[pos].attempts * Unit /\ share[pos].attempts * Unit \in Int
      <4>1. share[pos].attempts \in Nat
        BY <1>1, <1>2 DEF Shared
      <4> QED
        BY <1>1, <1>2, <2>1, <4>1, DeltaFacts, ColumnFacts
    <3> QED
      BY <3>1, <1>8, <2>3, <2>5
  <2>9. pos # None
    BY <1>1, NAssumption DEF Hash, None
  <2>10. OwedPart(q, After(e, i))
    BY <1>1, <1>5, <2>2, <2>3, <2>8, <2>9 DEF OwedPart
  <2> QED
    BY <1>3, <1>4, <2>7, <2>10
<1> QED
  BY <1>7, <1>8

(* The jump to the parent never leads too far.                              *)
LEMMA ShortSomewhere ==
    ASSUME IInv, status = "walking", NEW e, EntryExact(pos, e)
    PROVE  Short(e) # {} /\ Max(Short(e)) \in Short(e)
<1>1. 0 \in Short(e)
  <2>1. 0 \in DOMAIN e.jumps /\ e.jumps[0].to = prev[pos]
    BY DEF EntryExact
  <2>2. pos \in Hash /\ question.start \in Nodes /\ Linked /\ Shared
    BY PosPresent DEF IInv
  <2>3. pos \in Nodes /\ prev[pos] \in Nodes
    BY <2>2, HashTypes DEF Linked
  <2>4. e.jumps[0].delta = get_delta(pos)
    BY <2>1, <2>2, BetweenParent DEF EntryExact, JumpExact
  <2>5. /\ question.desired \in Nat /\ question.max \in Nat
        /\ sum["shares"] < question.max /\ sum["total"] < question.desired
    BY DEF IInv, WalkExact, Asked
  <2>6. sum["shares"] \in Int /\ sum["total"] \in Int
    <3>1. sum = Between(question.start, pos)
      BY DEF IInv, WalkExact
    <3> QED
      BY <3>1, <2>2, <2>3, BetweenFacts, ColumnFacts
  <2>7. get_delta(pos)["shares"] = 1
    BY <2>2, DeltaFacts
  <2>8. CASE sum["total"] + get_delta(pos)["total"] > question.desired
    <3>1. \/ After(e, 0) = Between(question.start, e.jumps[0].to)
          \/ Enough(question, After(e, 0))
      BY <2>1, AfterFacts
    <3>2. sum = Between(question.start, pos)
      BY DEF IInv, WalkExact
    <3>3. /\ Part(question.desired - sum["total"], get_delta(pos))["shares"] = 1
          /\ Part(question.desired - sum["total"], get_delta(pos))["total"]
               = question.desired - sum["total"]
      <4>1. question.desired % Unit = 0
        BY DEF IInv, WalkExact, Asked
      <4> QED
        BY <4>1, <2>2, <2>3, <2>5, <3>2, MissingFilled
    <3>4. After(e, 0) = combine_deltas(sum, Part(question.desired - sum["total"], get_delta(pos)))
      BY <2>4, <2>7, <2>8 DEF After, apply_delta
    <3>5. After(e, 0)["shares"] = sum["shares"] + 1 /\ After(e, 0)["total"] = question.desired
      <4>1. /\ After(e, 0)["shares"]
                 = sum["shares"] + Part(question.desired - sum["total"], get_delta(pos))["shares"]
            /\ After(e, 0)["total"]
                 = sum["total"] + Part(question.desired - sum["total"], get_delta(pos))["total"]
        BY <3>4, ColumnFacts DEF combine_deltas
      <4> QED
        BY <4>1, <3>3, <2>5, <2>6
    <3> QED
      BY <2>1, <2>5, <2>6, <3>5 DEF Short, TooMuch
  <2>9. CASE ~(sum["total"] + get_delta(pos)["total"] > question.desired)
    <3>1. After(e, 0) = combine_deltas(sum, get_delta(pos))
      BY <2>4, <2>9 DEF After, apply_delta
    <3>2. /\ After(e, 0)["shares"] = sum["shares"] + 1
          /\ After(e, 0)["total"] = sum["total"] + get_delta(pos)["total"]
      BY <3>1, <2>7, ColumnFacts DEF combine_deltas
    <3> QED
      BY <2>1, <2>5, <2>6, <2>9, <3>2 DEF Short, TooMuch
  <2> QED
    BY <2>8, <2>9
<1>2. Short(e) \subseteq 0..(e.length - 1) /\ e.length \in Nat
  BY DEF Short, EntryExact
<1>3. \E m \in Short(e) : \A k \in Short(e) : k <= m
  <2> DEFINE top == e.length - 1
             U == {top - k : k \in Short(e)}
  <2>0. \A k \in Short(e) : k \in Int /\ k <= top /\ top \in Int
    BY <1>2
  <2>1. U \in SUBSET Nat /\ U # {}
    BY <1>1, <2>0
  <2>2. PICK u \in U : \A v \in U : u <= v
    <3> HIDE DEF U
    <3> QED
      BY <2>1, LeastElement
  <2>3. PICK m \in Short(e) : u = top - m
    BY <2>2
  <2>4. ASSUME NEW k \in Short(e) PROVE k <= m
    <3>1. u <= top - k
      BY <2>2
    <3> QED
      BY <3>1, <2>0, <2>3
  <2> QED
    BY <2>4
<1>4. \E m \in Short(e) : \A k \in Short(e) : m >= k
  <2>1. \A m \in Short(e), k \in Short(e) : k <= m => m >= k
    BY <1>2
  <2> QED
    BY <1>3, <2>1
<1>5. Max(Short(e)) \in Short(e)
  BY <1>4 DEF Max
<1> QED
  BY <1>1, <1>5

-----------------------------------------------------------------------------
(* Every step preserves the invariant.                                      *)

(* What only the chain decides does not change.                             *)
LEMMA ChainUnchanged ==
    ASSUME UNCHANGED <<prev, share>>
    PROVE  /\ Linked => Linked'
           /\ Shared => Shared'
           /\ Sums' = Sums /\ Ways' = Ways
           /\ \A x, y : Between(x, y)' = Between(x, y)
           /\ \A h, e : EntryExact(h, e)' = EntryExact(h, e)
           /\ \A q, s : OwedWhole(q, s)' = OwedWhole(q, s) /\ OwedPart(q, s)' = OwedPart(q, s)
<1>1. (Linked => Linked') /\ (Shared => Shared')
  BY DEF Linked, Shared
<1>2. \A h : get_delta(h)' = get_delta(h)
  BY DEF get_delta
<1>3. Sums' = Sums
  BY <1>2 DEF Sums
<1>4. Ways' = Ways
  BY DEF Ways
<1>5. \A x, y : Between(x, y)' = Between(x, y)
  BY <1>3 DEF Between
<1>6. \A h, e : EntryExact(h, e)' = EntryExact(h, e)
  BY <1>4, <1>5 DEF EntryExact, JumpExact
<1>7. \A q, s : OwedWhole(q, s)' = OwedWhole(q, s)
  BY <1>4, <1>5 DEF OwedWhole
<1>8. \A q, s : OwedPart(q, s)' = OwedPart(q, s)
  BY <1>2, <1>4, <1>5 DEF OwedPart
<1> QED
  BY <1>1, <1>3, <1>4, <1>5, <1>6, <1>7, <1>8

LEMMA ReturnExact ==
    ASSUME UNCHANGED <<prev, share>>, NEW q, NEW s, Return(q, s),
           OwedWhole(q, s) \/ OwedPart(q, s)
    PROVE  AnswersExact' /\ status' # "walking"
<1>1. status' = "returned" /\ question' = q /\ sum' = s
  BY DEF Return
<1>2. OwedWhole(question, sum)' \/ OwedPart(question, sum)'
  <2>1. Ways' = Ways /\ \A x, y : Between(x, y)' = Between(x, y)
    BY ChainUnchanged
  <2>2. \A h : get_delta(h)' = get_delta(h)
    BY DEF get_delta
  <2>3. OwedWhole(question, sum)' = OwedWhole(q, s)
    BY <1>1, <2>1 DEF OwedWhole
  <2>4. OwedPart(question, sum)' = OwedPart(q, s)
    BY <1>1, <2>1, <2>2 DEF OwedPart
  <2> QED
    BY <2>3, <2>4
<1> QED
  BY <1>1, <1>2 DEF AnswersExact

LEMMA InitIInv == Init => IInv
<1> SUFFICES ASSUME Init PROVE IInv
  OBVIOUS
<1>1. Linked
  BY LinksAssumption DEF Init, Linked
<1>2. Shared
  BY PayoutsAssumption DEF Init, Shared
<1>3. items \subseteq Hash /\ SkipsExact
  BY DEF Init, SkipsExact, NoJumps
<1>4. AnswersExact
  BY DEF Init, AnswersExact
<1> QED
  BY <1>1, <1>2, <1>3, <1>4 DEF IInv, Init

LEMMA AddIInv ==
    ASSUME IInv, NEW h \in Hash, add(h)
    PROVE  IInv'
<1>1. UNCHANGED <<prev, share, skips>> /\ items' = items \cup {h} /\ status' = "idle"
  BY DEF add
<1>2. SkipsExact'
  BY <1>1, ChainUnchanged DEF IInv, SkipsExact
<1>3. AnswersExact'
  BY <1>1 DEF AnswersExact
<1> QED
  BY <1>1, <1>2, <1>3, ChainUnchanged DEF IInv

LEMMA RemoveIInv ==
    ASSUME IInv, NEW h \in Hash, remove(h)
    PROVE  IInv'
<1>1. /\ UNCHANGED <<prev, share>> /\ items' = items \ {h} /\ status' = "idle"
      /\ skips' = [x \in DOMAIN skips \ {h} |-> skips[x]]
  BY DEF remove, forget_item
<1>2. SkipsExact'
  BY <1>1, ChainUnchanged DEF IInv, SkipsExact
<1>3. AnswersExact'
  BY <1>1 DEF AnswersExact
<1> QED
  BY <1>1, <1>2, <1>3, ChainUnchanged DEF IInv

(* A call that asks for no more shares than there are.                      *)
LEMMA CallIInv ==
    ASSUME IInv, NEW q, Asked(q), Covered(q), Call(q)
    PROVE  IInv'
<1>1. UNCHANGED <<prev, share, items, skips>>
  BY DEF Call, tracker
<1>2. Linked' /\ Shared' /\ (items \subseteq Hash)' /\ SkipsExact'
  BY <1>1, ChainUnchanged DEF IInv, SkipsExact
<1>3. q.start \in Nodes /\ q.start \in Ways[q.start] /\ Between(q.start, q.start) = Zero
  BY WaysDown, BetweenFacts DEF Asked, IInv
<1>4. CASE Enough(q, Zero)
  <2>1. Return(q, Zero)
    BY <1>4 DEF Call
  <2>2. OwedWhole(q, Zero)
    BY <1>3, <1>4 DEF OwedWhole
  <2>3. AnswersExact' /\ status' # "walking"
    BY <1>1, <2>1, <2>2, ReturnExact
  <2> QED
    BY <1>2, <2>3 DEF IInv
<1>5. CASE ~Enough(q, Zero)
  <2>1. /\ status' = "walking" /\ question' = q /\ pos' = q.start
        /\ sum' = Zero /\ updates' = NoJumps
    BY <1>5 DEF Call
  <2>2. AnswersExact'
    BY <2>1 DEF AnswersExact
  <2>3. Asked(question)' /\ Covered(question)'
    <3>1. Covered(q)'
      BY <1>1, ChainUnchanged DEF Covered
    <3>2. Covered(question)' = Covered(q)'
      BY <2>1 DEF Covered, Between, Sums, Ways, get_delta
    <3>3. Asked(question)'
      BY <2>1 DEF Asked
    <3> QED
      BY <3>1, <3>2, <3>3
  <2>4. (pos \in Ways[question.start])' /\ (sum = Between(question.start, pos))'
    BY <1>1, <1>3, <2>1, ChainUnchanged
  <2>5. (sum["shares"] < question.max /\ sum["total"] < question.desired)'
    <3>1. Zero["shares"] = 0 /\ Zero["total"] = 0
      BY ColumnFacts DEF Zero
    <3>2. q.max \in Nat /\ q.desired \in Nat \ {0}
      BY DEF Asked
    <3> QED
      BY <3>1, <3>2, <2>1, <1>5 DEF Enough, TooMuch
  <2>6. (\A i \in DOMAIN updates : PendingExact(i))'
    BY <2>1 DEF NoJumps
  <2> QED
    BY <1>2, <2>2, <2>3, <2>4, <2>5, <2>6 DEF IInv, WalkExact
<1> QED
  BY <1>4, <1>5

(* The questions of the two callers: for no more shares than there are.      *)
LEMMA CallersAsk ==
    ASSUME IInv, NEW p \in items \cup {None}, NEW desired \in Desired,
           generate_transaction(p, desired) \/ get_expected_payouts(p, desired)
    PROVE  \E q : Asked(q) /\ Covered(q) /\ Call(q)
<1>1. Linked /\ Shared /\ items \subseteq Hash /\ p \in Nodes
  BY HashTypes DEF IInv
<1>2. desired \in Nat \ {0} /\ desired % Unit = 0
  BY PayoutsAssumption
<1>3. /\ \A x \in Nodes : Height(x) \in Nat
      /\ Height(None) = 0
      /\ \A h \in items : Height(h) = 1 + Height(prev[h])
  BY <1>1, HeightFacts DEF Height
<1>4. REAL_CHAIN_LENGTH \in Nat \ {0}
  BY PayoutsAssumption
<1>5. ASSUME NEW q, q.start \in Nodes, q.max \in Nat, q.max <= Height(q.start)
      PROVE  Covered(q)
  <2> SUFFICES ASSUME NEW y \in Ways[q.start], Between(q.start, y)["shares"] < q.max
               PROVE  y \in items
    BY DEF Covered
  <2>1. y \in Nodes
    BY <1>1, <1>5, WaysDown
  <2>2. Between(q.start, y)["shares"] \in Int
    BY <1>1, <1>5, <2>1, BetweenFacts, ColumnFacts
  <2>3. Between(q.start, y)["shares"] < Height(q.start)
    BY <2>2, <1>3, <1>5
  <2> QED
    BY <1>1, <1>5, <2>3, HeightCovers
<1>6. CASE generate_transaction(p, desired)
  <2> DEFINE q == [use |-> "share", start |-> IF p = None THEN None ELSE prev[p],
                   max |-> IF p = None THEN 0 ELSE LeastOf(Height(p), REAL_CHAIN_LENGTH) - 1,
                   desired |-> desired]
  <2>1. Call(q)
    BY <1>6 DEF generate_transaction
  <2>2. /\ q.start = IF p = None THEN None ELSE prev[p]
        /\ q.max = IF p = None THEN 0 ELSE LeastOf(Height(p), REAL_CHAIN_LENGTH) - 1
        /\ q.desired = desired
    OBVIOUS
  <2> HIDE DEF q
  <2>3. q.start \in Nodes
    BY <1>1, <2>2, HashTypes DEF Linked
  <2>4. q.max \in Nat /\ q.max <= Height(q.start)
    <3>1. CASE p = None
      BY <3>1, <2>2, <1>3
    <3>2. CASE p # None
      <4>1. p \in items /\ prev[p] \in Nodes
        BY <3>2, <1>1 DEF Linked
      <4>2. Height(p) = 1 + Height(prev[p]) /\ Height(prev[p]) \in Nat
        BY <4>1, <1>3
      <4> QED
        BY <3>2, <4>2, <2>2, <1>4 DEF LeastOf
    <3> QED
      BY <3>1, <3>2
  <2>5. Asked(q)
    BY <1>2, <2>2, <2>3, <2>4 DEF Asked
  <2>6. Covered(q)
    BY <2>3, <2>4, <1>5
  <2> QED
    BY <2>1, <2>5, <2>6
<1>7. CASE get_expected_payouts(p, desired)
  <2> DEFINE q == [use |-> "estimate", start |-> p,
                   max |-> LeastOf(Height(p), REAL_CHAIN_LENGTH), desired |-> desired]
  <2>1. Call(q)
    BY <1>7 DEF get_expected_payouts
  <2>2. q.start = p /\ q.max = LeastOf(Height(p), REAL_CHAIN_LENGTH) /\ q.desired = desired
    OBVIOUS
  <2> HIDE DEF q
  <2>3. q.start \in Nodes
    BY <1>1, <2>2
  <2>4. q.max \in Nat /\ q.max <= Height(q.start)
    BY <1>1, <1>3, <1>4, <2>2 DEF LeastOf
  <2>5. Asked(q)
    BY <1>2, <2>2, <2>3, <2>4 DEF Asked
  <2>6. Covered(q)
    BY <2>3, <2>4, <1>5
  <2> QED
    BY <2>1, <2>5, <2>6
<1> QED
  BY <1>6, <1>7

LEMMA CallersIInv ==
    ASSUME IInv, NEW p \in items \cup {None}, NEW desired \in Desired,
           generate_transaction(p, desired) \/ get_expected_payouts(p, desired)
    PROVE  IInv'
<1>1. PICK q : Asked(q) /\ Covered(q) /\ Call(q)
  BY CallersAsk
<1> QED
  BY <1>1, CallIInv

(* A round that goes on.                                                    *)
LEMMA MovedExact ==
    ASSUME IInv, status = "walking", NEW length \in 1..MaxLevel,
           NEW e, e = Entry(pos, length), EntryExact(pos, e),
           NEW i \in DOMAIN e.jumps,
           After(e, i) = Between(question.start, e.jumps[i].to),
           ~TooMuch(question, After(e, i)), ~Enough(question, After(e, i)),
           UNCHANGED <<prev, share, items, question, status>>,
           skips' = [h \in DOMAIN skips \cup {pos} |-> Extended(h, e)],
           pos' = e.jumps[i].to, sum' = After(e, i),
           updates' = Combined(Pending(e), e.jumps[i].delta)
    PROVE  WalkExact'
<1> DEFINE q == question
           to == e.jumps[i].to
           d == e.jumps[i].delta
<1>1. Linked /\ Shared /\ pos \in Hash /\ pos \in Nodes /\ q.start \in Nodes /\ prev[pos] \in Nodes
  BY PosPresent, HashTypes DEF IInv, Linked
<1>2. to \in Ways[q.start] /\ to \in Ways[prev[pos]] /\ d = Between(pos, to)
  BY AfterFacts DEF EntryExact, JumpExact
<1>3. to \in Nodes
  BY <1>1, <1>2, WaysDown
<1>4. Asked(q)' /\ Covered(q)'
  <2>1. Asked(q) /\ Covered(q)
    BY DEF IInv, WalkExact
  <2>2. Asked(question)' /\ Covered(question)'
    <3>1. \A x, y : Between(x, y)' = Between(x, y)
      BY ChainUnchanged
    <3>2. Ways' = Ways
      BY ChainUnchanged
    <3> QED
      BY <2>1, <3>1, <3>2 DEF Asked, Covered
  <2> QED
    BY <2>2
<1>5. (pos \in Ways[question.start])' /\ (sum = Between(question.start, pos))'
  BY <1>2, ChainUnchanged
<1>6. (sum["shares"] < question.max /\ sum["total"] < question.desired)'
  <2>1. After(e, i)["shares"] \in Int /\ After(e, i)["total"] \in Int
    BY <1>1, <1>3, BetweenFacts, ColumnFacts
  <2>2. q.max \in Nat /\ q.desired \in Nat
    BY DEF IInv, WalkExact, Asked
  <2> QED
    BY <2>1, <2>2 DEF TooMuch, Enough
<1>7. ASSUME NEW j \in DOMAIN updates' PROVE PendingExact(j)'
  <2>1. /\ j \in DOMAIN Pending(e)
        /\ updates'[j].from = Pending(e)[j].from
        /\ updates'[j].delta = combine_deltas(Pending(e)[j].delta, d)
    BY DEF Combined
  <2>2. DOMAIN updates' = (DOMAIN updates \ Filled(e)) \cup Begun(e)
    BY DEF Combined, Pending
  <2>3. CASE j \in Begun(e)
    <3>1. Pending(e)[j] = [from |-> pos, delta |-> Zero]
      BY <2>3 DEF Pending
    <3>2. updates'[j].from = pos /\ updates'[j].delta = combine_deltas(Zero, d)
      BY <2>1, <3>1
    <3>3. updates'[j].delta = Between(pos, to)
      BY <3>2, <1>1, <1>2, <1>3, BetweenFacts
    <3>4. pos \in DOMAIN skips' /\ skips'[pos] = Extended(pos, e)
      OBVIOUS
    <3>5. Extended(pos, e).length = e.length /\ DOMAIN Extended(pos, e).jumps = DOMAIN e.jumps
      BY ExtendedExact
    <3>6. j \in 0..(e.length - 1) /\ j \notin DOMAIN e.jumps
      BY <2>3 DEF Begun
    <3>7. \A k \in 0..(j - 1) : k \in DOMAIN e.jumps \/ (k \in DOMAIN updates' /\ updates'[k].from = pos)
      <4> SUFFICES ASSUME NEW k \in 0..(j - 1), k \notin DOMAIN e.jumps
                   PROVE  k \in DOMAIN updates' /\ updates'[k].from = pos
        OBVIOUS
      <4>1. k \in Begun(e)
        <5>1. e.length \in Nat
          BY DEF EntryExact
        <5> QED
          BY <5>1, <3>6 DEF Begun
      <4>2. Pending(e)[k] = [from |-> pos, delta |-> Zero] /\ k \in DOMAIN Pending(e)
        BY <4>1 DEF Pending
      <4> QED
        BY <4>1, <4>2, <2>2 DEF Combined
    <3>8. (pos \in Ways[prev[updates[j].from]])'
      BY <1>2, <3>2, ChainUnchanged
    <3>9. (updates[j].delta = Between(updates[j].from, pos))'
      BY <3>2, <3>3, ChainUnchanged
    <3> QED
      BY <3>2, <3>4, <3>5, <3>6, <3>7, <3>8, <3>9 DEF PendingExact
  <2>4. CASE j \notin Begun(e)
    <3> DEFINE h == updates[j].from
    <3>1. j \in DOMAIN updates /\ j \notin Filled(e)
      BY <2>2, <2>4
    <3>2. Pending(e)[j] = updates[j]
      BY <2>1, <2>4 DEF Pending
    <3>3. updates'[j].from = h /\ updates'[j].delta = combine_deltas(updates[j].delta, d)
      BY <2>1, <3>2
    <3>4. h \in DOMAIN skips /\ h \in Hash /\ h # pos
      BY <3>1, FromAbove
    <3>5. PendingExact(j)
      BY <3>1 DEF IInv, WalkExact
    <3>6. h \in Nodes /\ prev[h] \in Nodes
      BY <3>4, HashTypes DEF IInv, Linked
    <3>7. pos \in Ways[prev[h]] /\ updates[j].delta = Between(h, pos)
      BY <3>5 DEF PendingExact
    <3>8. updates'[j].delta = Between(h, to)
      BY <3>3, <3>6, <3>7, <1>1, <1>2, <1>3, BetweenFacts
    <3>9. to \in Ways[prev[h]]
      <4>1. Ways[pos] \subseteq Ways[prev[h]]
        BY <3>6, <3>7, <1>1, WaysDown
      <4>2. Ways[pos] = {pos} \cup Ways[prev[pos]]
        BY <1>1, WaysFacts
      <4> QED
        BY <4>1, <4>2, <1>2
    <3>10. /\ h \in DOMAIN skips' /\ skips'[h] = Extended(h, e)
           /\ Extended(h, e).length = skips[h].length
           /\ DOMAIN Extended(h, e).jumps
                = DOMAIN skips[h].jumps \cup {k \in Filled(e) : updates[k].from = h}
      BY <3>4, ExtendedExact
    <3>11. j \in 0..(skips[h].length - 1) /\ j \notin DOMAIN skips[h].jumps
      BY <3>5 DEF PendingExact
    <3>12. j \notin DOMAIN Extended(h, e).jumps
      BY <3>1, <3>10, <3>11
    <3>13. \A k \in 0..(j - 1) :
              k \in DOMAIN Extended(h, e).jumps \/ (k \in DOMAIN updates' /\ updates'[k].from = h)
      <4> SUFFICES ASSUME NEW k \in 0..(j - 1), k \notin DOMAIN Extended(h, e).jumps
                   PROVE  k \in DOMAIN updates' /\ updates'[k].from = h
        OBVIOUS
      <4>1. k \in DOMAIN updates /\ updates[k].from = h
        BY <3>5, <3>10 DEF PendingExact
      <4>2. k \notin Filled(e)
        BY <4>1, <3>10
      <4>3. k \notin Begun(e)
        <5>1. e.length \in Nat /\ ~(k < e.length)
          BY <4>1, <4>2 DEF EntryExact, Filled
        <5> QED
          BY <5>1 DEF Begun
      <4>4. k \in DOMAIN Pending(e) /\ Pending(e)[k] = updates[k]
        BY <4>1, <4>2, <4>3 DEF Pending
      <4> QED
        BY <4>1, <4>4 DEF Combined
    <3>14. (pos \in Ways[prev[updates[j].from]])'
      BY <3>3, <3>9, ChainUnchanged
    <3>15. (updates[j].delta = Between(updates[j].from, pos))'
      BY <3>3, <3>8, ChainUnchanged
    <3> QED
      BY <3>3, <3>10, <3>11, <3>12, <3>13, <3>14, <3>15 DEF PendingExact
  <2> QED
    BY <2>3, <2>4
<1> QED
  BY <1>4, <1>5, <1>6, <1>7 DEF WalkExact

LEMMA RoundIInv ==
    ASSUME IInv, Round
    PROVE  IInv'
<1>1. status = "walking" /\ UNCHANGED <<prev, share, items>>
  BY DEF Round
<1>2. pos \in items
  BY <1>1, PosPresent
<1>3. PICK length \in 1..MaxLevel :
         LET entry == Entry(pos, length)
         IN /\ skips' = [h \in DOMAIN skips \cup {pos} |-> Extended(h, entry)]
            /\ IF InOrder(entry) THEN Jump(entry) ELSE Raise("AssertionError")
  BY <1>2 DEF Round
<1> DEFINE e == Entry(pos, length)
           i == Max(Short(e))
<1>4. EntryExact(pos, e) /\ InOrder(e)
  BY <1>1, EntryIsExact, AlwaysInOrder
<1>5. skips' = [h \in DOMAIN skips \cup {pos} |-> Extended(h, e)] /\ Jump(e)
  BY <1>3, <1>4
<1>6. SkipsExact'
  <2>1. \A h \in DOMAIN skips' : EntryExact(h, skips'[h])
    BY <1>1, <1>5, ExtendedExact
  <2>2. DOMAIN skips' \subseteq items'
    BY <1>1, <1>2, <1>5 DEF IInv, SkipsExact
  <2>3. \A h, x : EntryExact(h, x)' = EntryExact(h, x)
    BY <1>1, ChainUnchanged
  <2> QED
    BY <2>1, <2>2, <2>3 DEF SkipsExact
<1> HIDE DEF e, i
<1>7. Take(e, i) /\ i \in Short(e)
  BY <1>1, <1>4, <1>5, ShortSomewhere DEF Jump, i
<1>8. i \in DOMAIN e.jumps /\ ~TooMuch(question, After(e, i))
  BY <1>7 DEF Short
<1>9. Linked' /\ Shared' /\ (items \subseteq Hash)'
  BY <1>1, ChainUnchanged DEF IInv
<1>10. CASE Enough(question, After(e, i))
  <2>1. Return(question, After(e, i))
    BY <1>7, <1>10 DEF Take
  <2>2. OwedWhole(question, After(e, i)) \/ OwedPart(question, After(e, i))
    BY <1>1, <1>4, <1>8, <1>10, AfterFacts DEF OwedWhole
  <2>3. AnswersExact' /\ status' # "walking"
    BY <1>1, <2>1, <2>2, ReturnExact
  <2> QED
    BY <1>6, <1>9, <2>3 DEF IInv
<1>11. CASE ~Enough(question, After(e, i))
  <2>1. /\ pos' = e.jumps[i].to /\ sum' = After(e, i)
        /\ updates' = Combined(Pending(e), e.jumps[i].delta)
        /\ UNCHANGED <<status, question>>
    BY <1>7, <1>11 DEF Take
  <2>2. After(e, i) = Between(question.start, e.jumps[i].to)
    BY <1>1, <1>4, <1>8, <1>11, AfterFacts
  <2>3. e = Entry(pos, length)
    BY DEF e
  <2>4. WalkExact'
    BY <1>1, <1>4, <1>5, <1>8, <1>11, <2>1, <2>2, <2>3, MovedExact
  <2>5. AnswersExact'
    BY <1>1, <2>1 DEF AnswersExact
  <2> QED
    BY <1>6, <1>9, <2>4, <2>5 DEF IInv
<1> QED
  BY <1>10, <1>11

LEMMA NextIInv == IInv /\ [Next]_vars => IInv'
<1> SUFFICES ASSUME IInv, [Next]_vars PROVE IInv'
  OBVIOUS
<1>1. ASSUME NEW h \in Hash, add(h) PROVE IInv'
  BY <1>1, AddIInv
<1>2. ASSUME NEW h \in Hash, remove(h) PROVE IInv'
  BY <1>2, RemoveIInv
<1>3. ASSUME NEW p \in items \cup {None}, NEW desired \in Desired,
             generate_transaction(p, desired) \/ get_expected_payouts(p, desired)
      PROVE  IInv'
  BY <1>3, CallersIInv
<1>4. CASE Round
  BY <1>4, RoundIInv
<1>5. CASE UNCHANGED vars
  <2>1. UNCHANGED <<prev, share, items, skips, status, question, pos, sum, updates, amounts>>
    BY <1>5 DEF vars
  <2>2. \A h, e : EntryExact(h, e)' = EntryExact(h, e)
    BY <2>1, ChainUnchanged
  <2>3. SkipsExact'
    BY <2>1, <2>2 DEF IInv, SkipsExact
  <2>4. status = "walking" => WalkExact'
    <3> SUFFICES ASSUME WalkExact PROVE WalkExact'
      BY DEF IInv
    <3>1. Ways' = Ways /\ \A x, y : Between(x, y)' = Between(x, y)
      BY <2>1, ChainUnchanged
    <3>2. Asked(question)' /\ Covered(question)'
      BY <2>1, <3>1 DEF WalkExact, Asked, Covered
    <3>3. \A i \in DOMAIN updates : PendingExact(i)'
      BY <2>1, <3>1 DEF WalkExact, PendingExact
    <3> QED
      BY <2>1, <3>1, <3>2, <3>3 DEF WalkExact
  <2>5. AnswersExact'
    <3>1. /\ OwedWhole(question, sum)' = OwedWhole(question, sum)
          /\ OwedPart(question, sum)' = OwedPart(question, sum)
      BY <2>1 DEF OwedWhole, OwedPart, Between, get_delta, Sums, Ways
    <3> QED
      BY <2>1, <3>1 DEF IInv, AnswersExact
  <2> QED
    BY <2>1, <2>3, <2>4, <2>5, ChainUnchanged DEF IInv
<1> QED
  BY <1>1, <1>2, <1>3, <1>4, <1>5 DEF Next

-----------------------------------------------------------------------------
(* The strengthened invariant: every jump of the skip list carries the sum  *)
(* of the shares it leads over, whenever it was made and whatever was       *)
(* removed since.                                                           *)
THEOREM JumpsExact == Spec => []IInv
<1>1. Init => IInv
  BY InitIInv
<1>2. IInv /\ [Next]_vars => IInv'
  BY NextIInv
<1> QED
  BY <1>1, <1>2, PTL DEF Spec

(* get_cumulative_weights adds up the shares of the chain, the last one in  *)
(* part, and raises nothing, for every chain, length of its jumps, and      *)
(* order of calls, adds and removals.                                       *)
THEOREM PayoutsDecided == Spec => []AnswersExact
<1>1. IInv => AnswersExact
  BY DEF IInv
<1> QED
  BY <1>1, JumpsExact, PTL

-----------------------------------------------------------------------------
(* Sums over the addresses: of the sets of addresses, g is the sum of f.    *)
First(T) == CHOOSE a \in T : TRUE
IsSum(g, f) ==
    \A T \in SUBSET Address :
       g[T] = IF T = {} THEN 0 ELSE f[First(T)] + g[T \ {First(T)}]

(* Of the sets of addresses that lack a property one is empty or has it     *)
(* without its first address.                                               *)
LEMMA SmallestLacking ==
    ASSUME NEW B \in SUBSET SUBSET Address, B # {}
    PROVE  \E T \in B : T = {} \/ (/\ First(T) \in T
                                   /\ T \ {First(T)} \in (SUBSET Address) \ B)
<1> DEFINE sizes == {Cardinality(T) : T \in B}
<1>1. \A T \in SUBSET Address : IsFiniteSet(T) /\ Cardinality(T) \in Nat
  BY PayoutsAssumption, FS_Subset, FS_CardinalityType
<1>2. sizes \in SUBSET Nat /\ sizes # {}
  BY <1>1
<1>3. PICK n \in sizes : \A k \in sizes : n <= k
  <2> HIDE DEF sizes
  <2> QED
    BY <1>2, LeastElement
<1>4. PICK T \in B : n = Cardinality(T)
  OBVIOUS
<1>5. CASE T = {}
  BY <1>5
<1>6. CASE T # {}
  <2> DEFINE a == First(T)
             U == T \ {a}
  <2>1. a \in T
    BY <1>6 DEF First
  <2> HIDE DEF a
  <2>2. Cardinality(U) = Cardinality(T) - 1
    BY <1>1, <2>1, FS_RemoveElement
  <2>3. U \notin B
    <3> SUFFICES ASSUME U \in B PROVE FALSE
      OBVIOUS
    <3>1. Cardinality(U) \in sizes
      OBVIOUS
    <3> HIDE DEF sizes
    <3>2. n <= Cardinality(U)
      BY <1>3, <3>1
    <3> QED
      BY <1>1, <1>4, <2>2, <3>2
  <2> QED
    BY <2>1, <2>3 DEF a
<1> QED
  BY <1>5, <1>6

LEMMA SumExists ==
    ASSUME NEW f
    PROVE  \E g : IsSum(g, f) /\ OverAddresses(f) = g[Address]
<1> DEFINE R(g) == [T \in SUBSET Address |->
                      IF T = {} THEN 0 ELSE f[First(T)] + g[T \ {First(T)}]]
           R0(g) == [T \in SUBSET Address |->
                      IF T = {} THEN 0
                      ELSE LET x == CHOOSE a \in T : TRUE IN f[x] + g[T \ {x}]]
           g0 == CHOOSE g : g = R0(g)
           Upto(n) == {T \in SUBSET Address : Cardinality(T) <= n}
           Good(n, g) == g = [T \in Upto(n) |->
                      IF T = {} THEN 0 ELSE f[First(T)] + g[T \ {First(T)}]]
           Bad == {n \in Nat : ~ \E g : Good(n, g)}
<1>1. OverAddresses(f) = g0[Address]
  BY DEF OverAddresses, MapThenSumSet, MapThenFoldSet
<1>2. \A g : R0(g) = R(g)
  BY DEF First
<1>3. \A T \in SUBSET Address : IsFiniteSet(T) /\ Cardinality(T) \in Nat
  BY PayoutsAssumption, FS_Subset, FS_CardinalityType
<1>4. \A T \in SUBSET Address : T # {} => First(T) \in T
  BY DEF First
<1>5. \A T \in SUBSET Address : T # {} =>
         /\ T \ {First(T)} \in SUBSET Address
         /\ Cardinality(T \ {First(T)}) = Cardinality(T) - 1
  BY <1>3, <1>4, FS_RemoveElement
<1>6. Bad = {}
  <2> SUFFICES ASSUME Bad # {} PROVE FALSE
    OBVIOUS
  <2> HIDE DEF Good
  <2>1. PICK n \in Bad : \A k \in Bad : n <= k
    <3>1. Bad \in SUBSET Nat
      OBVIOUS
    <3> HIDE DEF Bad
    <3> QED
      BY <3>1, LeastElement
  <2>2. n \in Nat /\ ~ (\E g : Good(n, g))
    OBVIOUS
  <2>3. n # 0
    <3> DEFINE g == [T \in Upto(0) |-> 0]
    <3>1. \A T \in Upto(0) : T = {}
      BY <1>3, FS_EmptySet
    <3>2. Good(0, g)
      BY <3>1 DEF Good
    <3> QED
      BY <2>2, <3>2
  <2>4. PICK g : Good(n - 1, g)
    <3>1. n - 1 \in Nat /\ n - 1 \notin Bad
      <4> HIDE DEF Bad
      <4>1. n - 1 \in Bad => n <= n - 1
        BY <2>1
      <4> QED
        BY <4>1, <2>2, <2>3
    <3> QED
      BY <3>1
  <2> DEFINE h == [T \in Upto(n) |->
                     IF T = {} THEN 0 ELSE f[First(T)] + g[T \ {First(T)}]]
  <2>5. \A T \in Upto(n) : T # {} => T \ {First(T)} \in Upto(n - 1)
    BY <1>3, <1>5, <2>2
  <2>6. \A T \in Upto(n - 1) : T \in Upto(n) /\ h[T] = g[T]
    <3> SUFFICES ASSUME NEW T \in Upto(n - 1) PROVE T \in Upto(n) /\ h[T] = g[T]
      OBVIOUS
    <3>1. T \in Upto(n)
      BY <1>3, <2>2
    <3>2. g[T] = IF T = {} THEN 0 ELSE f[First(T)] + g[T \ {First(T)}]
      BY <2>4 DEF Good
    <3> HIDE DEF Upto
    <3> QED
      BY <3>1, <3>2
  <2>7. Good(n, h)
    <3> HIDE DEF Upto
    <3> QED
      BY <2>5, <2>6 DEF Good
  <2> QED
    BY <2>2, <2>7
<1>7. PICK g : g = R(g)
  <2> DEFINE n == Cardinality(Address)
  <2>1. n \in Nat /\ Upto(n) = SUBSET Address
    BY <1>3, PayoutsAssumption, FS_Subset, FS_CardinalityType
  <2>2. PICK g : Good(n, g)
    <3> HIDE DEF Good, n
    <3> QED
      BY <1>6, <2>1
  <2>3. g = R(g)
    <3> HIDE DEF Upto, n
    <3> QED
      BY <2>1, <2>2
  <2> QED
    BY <2>3
<1>8. g0 = R(g0)
  <2>1. g0 = CHOOSE g1 : g1 = R(g1)
    BY <1>2
  <2> HIDE DEF R, g0
  <2> QED
    BY <1>7, <2>1
<1> HIDE DEF g0
<1>9. IsSum(g0, f)
  BY <1>8 DEF IsSum
<1> QED
  BY <1>1, <1>9

LEMMA SumLinear ==
    ASSUME NEW f, NEW g, NEW h,
           \A a \in Address : f[a] \in Int /\ g[a] \in Int /\ h[a] = f[a] + g[a]
    PROVE  /\ OverAddresses(f) \in Int /\ OverAddresses(g) \in Int
           /\ OverAddresses(h) = OverAddresses(f) + OverAddresses(g)
<1>1. PICK F : IsSum(F, f) /\ OverAddresses(f) = F[Address]
  BY SumExists
<1>2. PICK G : IsSum(G, g) /\ OverAddresses(g) = G[Address]
  BY SumExists
<1>3. PICK H : IsSum(H, h) /\ OverAddresses(h) = H[Address]
  BY SumExists
<1> DEFINE B == {T \in SUBSET Address : ~ (F[T] \in Int /\ G[T] \in Int /\ H[T] = F[T] + G[T])}
<1>4. B = {}
  <2> SUFFICES ASSUME B # {} PROVE FALSE
    OBVIOUS
  <2>1. PICK T \in B : T = {} \/ (First(T) \in T /\ T \ {First(T)} \in (SUBSET Address) \ B)
    <3>1. B \in SUBSET SUBSET Address
      OBVIOUS
    <3> HIDE DEF B
    <3> QED
      BY <3>1, SmallestLacking
  <2>2. CASE T = {}
    <3>1. F[T] = 0 /\ G[T] = 0 /\ H[T] = 0
      BY <1>1, <1>2, <1>3, <2>2 DEF IsSum
    <3>2. F[T] \in Int /\ G[T] \in Int /\ H[T] = F[T] + G[T]
      BY <3>1
    <3> QED
      BY <3>2
  <2>3. CASE T # {} /\ First(T) \in T /\ T \ {First(T)} \in (SUBSET Address) \ B
    <3> DEFINE a == First(T)
               U == T \ {a}
    <3>1. F[U] \in Int /\ G[U] \in Int /\ H[U] = F[U] + G[U] /\ a \in Address
      BY <2>3
    <3>2. F[T] = f[a] + F[U] /\ G[T] = g[a] + G[U] /\ H[T] = h[a] + H[U]
      BY <1>1, <1>2, <1>3, <2>3 DEF IsSum
    <3>3. f[a] \in Int /\ g[a] \in Int /\ h[a] = f[a] + g[a]
      BY <3>1
    <3> HIDE DEF a, U
    <3>4. F[T] \in Int /\ G[T] \in Int /\ H[T] = F[T] + G[T]
      BY <3>1, <3>2, <3>3
    <3> QED
      BY <3>4
  <2> QED
    BY <2>1, <2>2, <2>3
<1>5. F[Address] \in Int /\ G[Address] \in Int /\ H[Address] = F[Address] + G[Address]
  BY <1>4
<1> QED
  BY <1>1, <1>2, <1>3, <1>5

LEMMA SumScaled ==
    ASSUME NEW f, NEW g, NEW m \in Int, NEW n \in Int,
           \A a \in Address : f[a] \in Int /\ g[a] \in Int /\ m * f[a] <= n * g[a]
    PROVE  m * OverAddresses(f) <= n * OverAddresses(g)
<1>1. PICK F : IsSum(F, f) /\ OverAddresses(f) = F[Address]
  BY SumExists
<1>2. PICK G : IsSum(G, g) /\ OverAddresses(g) = G[Address]
  BY SumExists
<1> DEFINE B == {T \in SUBSET Address : ~ (F[T] \in Int /\ G[T] \in Int /\ m * F[T] <= n * G[T])}
<1>4. B = {}
  <2> SUFFICES ASSUME B # {} PROVE FALSE
    OBVIOUS
  <2>1. PICK T \in B : T = {} \/ (First(T) \in T /\ T \ {First(T)} \in (SUBSET Address) \ B)
    <3>1. B \in SUBSET SUBSET Address
      OBVIOUS
    <3> HIDE DEF B
    <3> QED
      BY <3>1, SmallestLacking
  <2>2. CASE T = {}
    <3>1. F[T] = 0 /\ G[T] = 0
      BY <1>1, <1>2, <2>2 DEF IsSum
    <3>2. m * 0 = 0 /\ n * 0 = 0
      OBVIOUS
    <3>3. F[T] \in Int /\ G[T] \in Int /\ m * F[T] <= n * G[T]
      BY <3>1, <3>2
    <3> QED
      BY <3>3
  <2>3. CASE T # {} /\ First(T) \in T /\ T \ {First(T)} \in (SUBSET Address) \ B
    <3> DEFINE a == First(T)
               U == T \ {a}
    <3>1. F[U] \in Int /\ G[U] \in Int /\ m * F[U] <= n * G[U] /\ a \in Address
      BY <2>3
    <3>2. F[T] = f[a] + F[U] /\ G[T] = g[a] + G[U]
      BY <1>1, <1>2, <2>3 DEF IsSum
    <3>3. f[a] \in Int /\ g[a] \in Int /\ m * f[a] <= n * g[a]
      BY <3>1
    <3> HIDE DEF a, U
    <3>4. m * (f[a] + F[U]) = m * f[a] + m * F[U] /\ n * (g[a] + G[U]) = n * g[a] + n * G[U]
      BY <3>1, <3>3
    <3>5. m * f[a] + m * F[U] <= n * g[a] + n * G[U]
      BY <3>1, <3>3
    <3>6. F[T] \in Int /\ G[T] \in Int /\ m * F[T] <= n * G[T]
      BY <3>1, <3>2, <3>3, <3>4, <3>5
    <3> QED
      BY <3>6
  <2> QED
    BY <2>1, <2>2, <2>3
<1>5. m * F[Address] <= n * G[Address]
  BY <1>4
<1> QED
  BY <1>1, <1>2, <1>5

LEMMA SumOfOne ==
    ASSUME NEW d \in Address, NEW r \in Int,
           NEW f, \A a \in Address : f[a] = IF a = d THEN r ELSE 0
    PROVE  OverAddresses(f) = r
<1>1. PICK F : IsSum(F, f) /\ OverAddresses(f) = F[Address]
  BY SumExists
<1> DEFINE B == {T \in SUBSET Address : F[T] # IF d \in T THEN r ELSE 0}
<1>4. B = {}
  <2> SUFFICES ASSUME B # {} PROVE FALSE
    OBVIOUS
  <2>1. PICK T \in B : T = {} \/ (First(T) \in T /\ T \ {First(T)} \in (SUBSET Address) \ B)
    <3>1. B \in SUBSET SUBSET Address
      OBVIOUS
    <3> HIDE DEF B
    <3> QED
      BY <3>1, SmallestLacking
  <2>2. CASE T = {}
    BY <1>1, <2>2 DEF IsSum
  <2>3. CASE T # {} /\ First(T) \in T /\ T \ {First(T)} \in (SUBSET Address) \ B
    <3> DEFINE a == First(T)
               U == T \ {a}
    <3>1. F[U] = (IF d \in U THEN r ELSE 0) /\ a \in Address
      BY <2>3
    <3>2. F[T] = f[a] + F[U]
      BY <1>1, <2>3 DEF IsSum
    <3>3. f[a] = IF a = d THEN r ELSE 0
      BY <3>1
    <3>4. a \in T
      BY <2>3
    <3> HIDE DEF a
    <3>5. F[T] = IF d \in T THEN r ELSE 0
      BY <3>1, <3>2, <3>3, <3>4
    <3> QED
      BY <3>5
  <2> QED
    BY <2>1, <2>2, <2>3
<1>5. F[Address] = r
  BY <1>4
<1> QED
  BY <1>1, <1>5

-----------------------------------------------------------------------------
(* What the addresses and the donation of a delta weigh is its weight.      *)
Balanced(d) == d["total"] = d["donation"] + OverAddresses(d)
Weight(d) ==
    /\ d \in [Column -> Int]
    /\ \A c \in Column : d[c] >= 0
    /\ Balanced(d)

LEMMA ZeroWeight == Weight(Zero)
<1>1. Zero \in [Column -> Int] /\ \A c \in Column : Zero[c] >= 0
  BY DEF Zero
<1>2. Donation \in Address
  BY PayoutsAssumption
<1>3. OverAddresses(Zero) = 0
  <2>1. \A a \in Address : Zero[a] = IF a = Donation THEN 0 ELSE 0
    BY ColumnFacts DEF Zero
  <2> QED
    BY <1>2, <2>1, SumOfOne
<1> QED
  BY <1>1, <1>3, ColumnFacts DEF Weight, Balanced, Zero

LEMMA CombinedBalanced ==
    ASSUME NEW d \in [Column -> Int], NEW e \in [Column -> Int], Balanced(d), Balanced(e)
    PROVE  combine_deltas(d, e) \in [Column -> Int] /\ Balanced(combine_deltas(d, e))
<1> DEFINE s == combine_deltas(d, e)
<1>1. \A c \in Column : d[c] \in Int /\ e[c] \in Int /\ s[c] = d[c] + e[c]
  BY DEF combine_deltas
<1>2. s \in [Column -> Int]
  BY <1>1 DEF combine_deltas
<1> HIDE DEF s
<1>3. /\ OverAddresses(d) \in Int /\ OverAddresses(e) \in Int
      /\ OverAddresses(s) = OverAddresses(d) + OverAddresses(e)
  <2>1. \A a \in Address : d[a] \in Int /\ e[a] \in Int /\ s[a] = d[a] + e[a]
    BY <1>1, ColumnFacts
  <2> QED
    BY <2>1, SumLinear
<1>4. /\ s["total"] = d["total"] + e["total"] /\ s["donation"] = d["donation"] + e["donation"]
      /\ d["donation"] \in Int /\ e["donation"] \in Int
  BY <1>1, ColumnFacts
<1>5. Balanced(s)
  BY <1>3, <1>4 DEF Balanced
<1> QED
  BY <1>2, <1>5 DEF s

(* A share weighs as much as it donates and its address gets.               *)
LEMMA DeltaColumns ==
    ASSUME Shared, NEW h \in Hash
    PROVE  \E b \in Nat \ {0}, u \in 0..Unit, w \in Address :
              /\ get_delta(h)["total"] = b * Unit
              /\ get_delta(h)["donation"] = b * u
              /\ \A a \in Address : get_delta(h)[a] = b * (IF a = w THEN Unit - u ELSE 0)
<1>1. /\ share[h].attempts \in Nat \ {0} /\ share[h].donation \in 0..Unit
      /\ share[h].address \in Address
  BY DEF Shared
<1>2. share[h].attempts * 0 = 0
  BY <1>1
<1>3. get_delta(h)["total"] = share[h].attempts * Unit
  BY ColumnFacts, <1>1 DEF get_delta
<1>4. get_delta(h)["donation"] = share[h].attempts * share[h].donation
  BY ColumnFacts, <1>1 DEF get_delta
<1>5. \A a \in Address : get_delta(h)[a] =
         IF a = share[h].address THEN share[h].attempts * (Unit - share[h].donation) ELSE 0
  BY ColumnFacts, <1>1 DEF get_delta
<1>6. \A a \in Address : get_delta(h)[a] =
         share[h].attempts * (IF a = share[h].address THEN Unit - share[h].donation ELSE 0)
  BY <1>2, <1>5
<1> QED
  BY <1>1, <1>3, <1>4, <1>6

(* k times what a unit of its attempts weighs.                              *)
LEMMA SplitWeight ==
    ASSUME NEW k \in Nat, NEW u \in 0..Unit, NEW w \in Address,
           NEW d \in [Column -> Int], d["shares"] = 1,
           d["total"] = k * Unit, d["donation"] = k * u,
           \A a \in Address : d[a] = k * (IF a = w THEN Unit - u ELSE 0)
    PROVE  Weight(d)
<1>1. Unit \in Nat /\ u \in Nat /\ Unit - u \in Nat
  BY ColumnFacts
<1>2. k * Unit \in Nat /\ k * u \in Nat /\ k * (Unit - u) \in Nat /\ k * 0 = 0
  BY <1>1
<1>3. \A a \in Address : d[a] = IF a = w THEN k * (Unit - u) ELSE 0
  BY <1>2
<1>4. OverAddresses(d) = k * (Unit - u)
  BY <1>2, <1>3, SumOfOne
<1>5. k * Unit = k * u + k * (Unit - u)
  BY <1>1
<1>6. \A c \in Column : d[c] >= 0
  BY <1>2, <1>3 DEF Column
<1> QED
  BY <1>4, <1>5, <1>6 DEF Weight, Balanced

LEMMA DeltaWeight ==
    ASSUME Shared, NEW h \in Hash
    PROVE  Weight(get_delta(h))
<1>1. PICK b \in Nat \ {0}, u \in 0..Unit, w \in Address :
              /\ get_delta(h)["total"] = b * Unit
              /\ get_delta(h)["donation"] = b * u
              /\ \A a \in Address : get_delta(h)[a] = b * (IF a = w THEN Unit - u ELSE 0)
  BY DeltaColumns
<1>2. get_delta(h) \in [Column -> Int] /\ get_delta(h)["shares"] = 1
  BY DeltaFacts
<1> QED
  BY <1>1, <1>2, SplitWeight

(* The part that is paid of the last share of a window.                     *)
LEMMA PartWeight ==
    ASSUME Shared, NEW h \in Hash, NEW k \in Nat
    PROVE  Weight(Part(k * Unit, get_delta(h)))
<1> DEFINE g == get_delta(h)
           p == Part(k * Unit, g)
<1>1. PICK b \in Nat \ {0}, u \in 0..Unit, w \in Address :
              /\ g["total"] = b * Unit
              /\ g["donation"] = b * u
              /\ \A a \in Address : g[a] = b * (IF a = w THEN Unit - u ELSE 0)
  BY DeltaColumns
<1>2. (k * Unit) \div Unit = k /\ (b * Unit) \div Unit = b
  BY ProductDivided, ColumnFacts
<1>3. ASSUME NEW z \in Int PROVE (k * (b * z)) \div b = k * z
  <2>1. k * (b * z) = (k * z) * b /\ k * z \in Int
    OBVIOUS
  <2> QED
    BY <2>1, ProductDivided
<1> HIDE DEF g
<1>4. /\ p["shares"] = 1
      /\ \A c \in Column : c # "shares" => p[c] = (k * g[c]) \div b
  BY <1>1, <1>2, ColumnFacts DEF Part
<1>5. p["total"] = k * Unit
  BY <1>1, <1>3, <1>4, ColumnFacts
<1>6. p["donation"] = k * u
  BY <1>1, <1>3, <1>4, ColumnFacts
<1>7. \A a \in Address : p[a] = k * (IF a = w THEN Unit - u ELSE 0)
  <2> SUFFICES ASSUME NEW a \in Address PROVE p[a] = k * (IF a = w THEN Unit - u ELSE 0)
    OBVIOUS
  <2> DEFINE z == IF a = w THEN Unit - u ELSE 0
  <2>1. z \in Int
    BY ColumnFacts
  <2>2. g[a] = b * z /\ p[a] = (k * g[a]) \div b
    BY <1>1, <1>4, ColumnFacts
  <2> HIDE DEF z
  <2>3. p[a] = k * z
    BY <2>1, <2>2, <1>3
  <2> QED
    BY <2>3 DEF z
<1>8. p \in [Column -> Int]
  <2>1. \A c \in Column : p[c] \in Int
    <3>1. k * Unit \in Int /\ k * u \in Int
      BY ColumnFacts
    <3>2. \A a \in Address : k * (IF a = w THEN Unit - u ELSE 0) \in Int
      BY ColumnFacts
    <3> QED
      BY <1>4, <1>5, <1>6, <1>7, <3>1, <3>2 DEF Column
  <2>2. p = [c \in Column |-> p[c]]
    BY DEF Part
  <2> QED
    BY <2>1, <2>2
<1>9. p["shares"] = 1
  BY <1>4
<1> HIDE DEF p
<1>10. Weight(p)
  BY <1>5, <1>6, <1>7, <1>8, <1>9, SplitWeight
<1> QED
  BY <1>10 DEF p, g

LEMMA SumsBalanced ==
    ASSUME Linked, Shared, NEW x \in Nodes
    PROVE  Sums[x] \in [Column -> Int] /\ Balanced(Sums[x])
<1> DEFINE T == {u \in Nodes : ~Balanced(Sums[u])}
<1>1. T = {}
  <2> SUFFICES ASSUME T # {} PROVE FALSE
    OBVIOUS
  <2>1. PICK m \in T : m = None \/ (m \in Hash /\ prev[m] \in Nodes \ T)
    <3> HIDE DEF T
    <3>1. T \in SUBSET Nodes
      BY DEF T
    <3> QED
      BY <3>1, LowestLacking
  <2>2. CASE m = None
    BY <2>2, ZeroWeight, SumsFacts DEF Weight
  <2>3. CASE m \in Hash /\ prev[m] \in Nodes \ T
    <3>1. Sums[m] = combine_deltas(get_delta(m), Sums[prev[m]])
      BY <2>3, SumsFacts
    <3>2. Balanced(Sums[prev[m]]) /\ Sums[prev[m]] \in [Column -> Int]
      BY <2>3, SumsFacts
    <3>3. Balanced(get_delta(m)) /\ get_delta(m) \in [Column -> Int]
      BY <2>3, DeltaWeight DEF Weight
    <3> QED
      BY <3>1, <3>2, <3>3, CombinedBalanced
  <2> QED
    BY <2>1, <2>2, <2>3
<1> QED
  BY <1>1, SumsFacts

LEMMA BetweenBalanced ==
    ASSUME Linked, Shared, NEW x \in Nodes, NEW y \in Nodes
    PROVE  Between(x, y) \in [Column -> Int] /\ Balanced(Between(x, y))
<1> DEFINE b == Between(x, y)
           s == Sums[x]
           t == Sums[y]
<1>1. b \in [Column -> Int]
  BY BetweenFacts
<1>2. \A c \in Column : s[c] \in Int /\ t[c] \in Int /\ b[c] = s[c] - t[c]
  BY SumsFacts DEF Between
<1>3. Balanced(s) /\ Balanced(t)
  BY SumsBalanced
<1> HIDE DEF b, s, t
<1>4. \A a \in Address : b[a] \in Int /\ t[a] \in Int /\ s[a] = b[a] + t[a]
  BY <1>1, <1>2, ColumnFacts
<1>5. /\ OverAddresses(b) \in Int /\ OverAddresses(t) \in Int
      /\ OverAddresses(s) = OverAddresses(b) + OverAddresses(t)
  BY <1>4, SumLinear
<1>6. /\ s["total"] \in Int /\ t["total"] \in Int /\ b["total"] = s["total"] - t["total"]
      /\ s["donation"] \in Int /\ t["donation"] \in Int
      /\ b["donation"] = s["donation"] - t["donation"]
  BY <1>2, ColumnFacts
<1>7. Balanced(b)
  BY <1>3, <1>5, <1>6 DEF Balanced
<1> QED
  BY <1>1, <1>7 DEF b

(* What lies on a way has no negative weight.                               *)
LEMMA BetweenCounts ==
    ASSUME Linked, Shared, NEW x \in Nodes
    PROVE  \A y \in Ways[x], c \in Column : Between(x, y)[c] >= 0
<1> DEFINE P(u) == \A y \in Ways[u], c \in Column : Between(u, y)[c] >= 0
           T == {u \in Nodes : ~P(u)}
<1>1. T = {}
  <2> SUFFICES ASSUME T # {} PROVE FALSE
    OBVIOUS
  <2>1. PICK m \in T : m = None \/ (m \in Hash /\ prev[m] \in Nodes \ T)
    <3> HIDE DEF T
    <3>1. T \in SUBSET Nodes
      BY DEF T
    <3> QED
      BY <3>1, LowestLacking
  <2>2. m \in Nodes
    OBVIOUS
  <2>3. PICK y \in Ways[m], c \in Column : ~(Between(m, y)[c] >= 0)
    OBVIOUS
  <2>4. y \in Nodes
    BY <2>2, <2>3, WaysDown
  <2>5. y # m
    <3>1. Between(m, m)[c] = 0
      BY <2>2, BetweenFacts DEF Zero
    <3> QED
      BY <3>1, <2>3
  <2>6. m # None
    BY <2>3, <2>5, WaysFacts
  <2>7. m \in Hash /\ prev[m] \in Nodes /\ P(prev[m])
    BY <2>1, <2>6
  <2>8. y \in Ways[prev[m]]
    BY <2>3, <2>5, <2>7, WaysFacts
  <2>9. Between(prev[m], y)[c] >= 0 /\ Between(prev[m], y)[c] \in Int
    <3>1. Between(prev[m], y)[c] >= 0
      BY <2>7, <2>8
    <3>2. Between(prev[m], y) \in [Column -> Int]
      BY <2>4, <2>7, BetweenFacts
    <3> QED
      BY <3>1, <3>2
  <2>10. get_delta(m)[c] >= 0 /\ get_delta(m)[c] \in Int
    BY <2>7, DeltaWeight DEF Weight
  <2>11. Between(m, y)[c] = get_delta(m)[c] + Between(prev[m], y)[c]
    <3>1. Between(m, prev[m]) = get_delta(m)
      BY <2>7, BetweenParent
    <3>2. combine_deltas(Between(m, prev[m]), Between(prev[m], y)) = Between(m, y)
      BY <2>2, <2>4, <2>7, BetweenFacts
    <3> QED
      BY <3>1, <3>2 DEF combine_deltas
  <2> QED
    BY <2>3, <2>9, <2>10, <2>11
<1> QED
  BY <1>1

-----------------------------------------------------------------------------
(* Every answer is a weight, and the coinbase of a weight adds up.          *)

LEMMA OwedWeight ==
    ASSUME Linked, Shared, NEW q, Asked(q), NEW s, OwedWhole(q, s) \/ OwedPart(q, s)
    PROVE  Weight(s)
<1>0. q.start \in Nodes /\ q.desired \in Nat /\ q.desired % Unit = 0
  BY DEF Asked
<1>1. \A y \in Ways[q.start] : y \in Nodes /\ Weight(Between(q.start, y))
  <2> SUFFICES ASSUME NEW y \in Ways[q.start] PROVE y \in Nodes /\ Weight(Between(q.start, y))
    OBVIOUS
  <2>1. y \in Nodes
    BY <1>0, WaysDown
  <2> QED
    BY <1>0, <2>1, BetweenBalanced, BetweenCounts DEF Weight
<1>2. CASE OwedWhole(q, s)
  BY <1>1, <1>2 DEF OwedWhole
<1>3. CASE OwedPart(q, s)
  <2>1. PICK y \in Ways[q.start] \ {None} :
           LET above == Between(q.start, y)
               missing == q.desired - above["total"]
           IN /\ above["shares"] < q.max
              /\ missing \in 1..(share[y].attempts * Unit - 1)
              /\ s = combine_deltas(above, Part(missing, get_delta(y)))
    BY <1>3 DEF OwedPart
  <2> DEFINE above == Between(q.start, y)
             missing == q.desired - above["total"]
             p == Part(missing, get_delta(y))
  <2>2. missing \in Int /\ missing >= 1 /\ s = combine_deltas(above, p)
    <3>1. share[y].attempts * Unit \in Int
      <4>1. y \in Hash
        BY <1>1, HashTypes
      <4> QED
        BY <4>1, ColumnFacts DEF Shared
    <3> HIDE DEF p, above
    <3> QED
      BY <2>1, <3>1 DEF p, above
  <2>3. y \in Nodes /\ y \in Hash /\ Weight(above)
    BY <1>1, HashTypes
  <2>4. PICK k \in Int : missing = k * Unit
    BY <1>0, <2>3, MissingWhole
  <2>5. k \in Nat
    <3> SUFFICES ASSUME k < 0 PROVE FALSE
      BY <2>4
    <3> HIDE DEF missing
    <3>1. k * Unit <= 0
      BY <2>4, ColumnFacts
    <3> QED
      BY <3>1, <2>2, <2>4
  <2>6. Weight(p)
    BY <2>3, <2>4, <2>5, PartWeight
  <2> HIDE DEF p, above, missing
  <2>7. s \in [Column -> Int] /\ Balanced(s)
    BY <2>2, <2>3, <2>6, CombinedBalanced DEF Weight
  <2>8. \A c \in Column : above[c] \in Int /\ p[c] \in Int /\ s[c] = above[c] + p[c]
    BY <2>2, <2>3, <2>6 DEF Weight, combine_deltas
  <2>9. \A c \in Column : s[c] >= 0
    BY <2>3, <2>6, <2>8 DEF Weight
  <2> QED
    BY <2>7, <2>9 DEF Weight
<1> QED
  BY <1>2, <1>3

LEMMA Cancelled ==
    ASSUME NEW t \in Nat \ {0}, NEW x \in Int, NEW y \in Int, t * x <= t * y
    PROVE  x <= y
<1> SUFFICES ASSUME x - y >= 1 PROVE FALSE
  OBVIOUS
<1>1. x - y \in Int /\ t * (x - y) = t * x - t * y
  OBVIOUS
<1>2. t * (x - y) >= t
  BY <1>1
<1>3. t * x \in Int /\ t * y \in Int
  OBVIOUS
<1> QED
  BY <1>1, <1>2, <1>3

LEMMA Quotient ==
    ASSUME NEW m \in Nat, NEW t \in Nat \ {0}
    PROVE  m \div t \in Nat /\ t * (m \div t) <= m
<1> DEFINE q == m \div t
           r == m % t
<1>1. q \in Int /\ r \in 0..(t - 1) /\ m = t * q + r
  OBVIOUS
<1> HIDE DEF q, r
<1>2. q \in Nat
  <2> SUFFICES ASSUME q <= -1 PROVE FALSE
    BY <1>1
  <2>1. t * q <= -t
    BY <1>1
  <2> QED
    BY <2>1, <1>1
<1>3. t * q <= m
  <2>1. t * q \in Int
    BY <1>1
  <2> QED
    BY <2>1, <1>1
<1> QED
  BY <1>2, <1>3 DEF q

(* What is put on one address is put on the sum.                            *)
LEMMA PutOn ==
    ASSUME NEW f \in [Address -> Int], NEW d \in Address, NEW r \in Int
    PROVE  /\ OverAddresses(f) \in Int
           /\ [f EXCEPT ![d] = @ + r] \in [Address -> Int]
           /\ OverAddresses([f EXCEPT ![d] = @ + r]) = OverAddresses(f) + r
<1> DEFINE g == [a \in Address |-> IF a = d THEN r ELSE 0]
           h == [f EXCEPT ![d] = @ + r]
<1>1. \A a \in Address : f[a] \in Int /\ g[a] \in Int /\ h[a] = f[a] + g[a]
  OBVIOUS
<1>2. OverAddresses(g) = r
  BY SumOfOne
<1>3. h \in [Address -> Int]
  OBVIOUS
<1> HIDE DEF g, h
<1>4. /\ OverAddresses(f) \in Int
      /\ OverAddresses(h) = OverAddresses(f) + OverAddresses(g)
  BY <1>1, SumLinear
<1> QED
  BY <1>2, <1>3, <1>4 DEF h

(* Amounts that each are at most their weight's share of m \div n are so    *)
(* together.                                                                *)
LEMMA SharesTogether ==
    ASSUME NEW s, Weight(s), s["total"] # 0, NEW f \in [Address -> Int],
           NEW m \in Nat, NEW n \in Nat,
           \A a \in Address : (n * s["total"]) * f[a] <= m * s[a]
    PROVE  n * OverAddresses(f) <= m
<1> DEFINE t == s["total"]
           o == OverAddresses(s)
           p == OverAddresses(f)
<1>1. t \in Nat \ {0} /\ s["donation"] \in Nat /\ t = s["donation"] + o
  <2>1. s["total"] \in Int /\ s["total"] >= 0 /\ s["donation"] \in Int /\ s["donation"] >= 0
    BY ColumnFacts DEF Weight
  <2> QED
    BY <2>1 DEF Weight, Balanced
<1>2. \A a \in Address : s[a] \in Int
  BY ColumnFacts DEF Weight
<1>3. o \in Int
  <2>1. \A a \in Address : s[a] \in Int /\ Zero[a] \in Int /\ s[a] = s[a] + Zero[a]
    BY <1>2, ColumnFacts DEF Zero
  <2> QED
    BY <2>1, SumLinear
<1>4. p \in Int
  BY PutOn, PayoutsAssumption
<1> HIDE DEF t, o, p
<1>5. n * t \in Int
  BY <1>1
<1>6. (n * t) * p <= m * o
  BY <1>2, <1>5, SumScaled DEF t, o, p
<1>7. m * o <= m * t
  <2>1. m * t = m * s["donation"] + m * o /\ m * s["donation"] \in Nat /\ m * o \in Int
    BY <1>1, <1>3
  <2> QED
    BY <2>1
<1>8. (n * t) * p = t * (n * p) /\ m * t = t * m /\ n * p \in Int
  BY <1>1, <1>4
<1>9. t * (n * p) <= t * m
  <2>1. (n * t) * p \in Int /\ m * o \in Int /\ m * t \in Int
    BY <1>1, <1>3, <1>4, <1>5
  <2> QED
    BY <2>1, <1>6, <1>7, <1>8
<1>10. n * p <= m
  BY <1>1, <1>8, <1>9, Cancelled
<1> QED
  BY <1>10 DEF p

(* What PayingOut gives each address for its weight.                        *)
ByWeight(q, s, subsidy) ==
    [a \in Address |->
        IF s["total"] = 0 THEN 0
        ELSE IF q.use = "share" THEN (subsidy * (199 * s[a])) \div (200 * s["total"])
        ELSE (subsidy * s[a]) \div s["total"]]

(* The half percent of the finder is what is left of 199 parts of 200.      *)
LEMMA ByWeightFits ==
    ASSUME NEW q, NEW s, Weight(s), NEW subsidy \in Nat
    PROVE  /\ ByWeight(q, s, subsidy) \in [Address -> Nat]
           /\ OverAddresses(ByWeight(q, s, subsidy)) \in Int
           /\ q.use = "share" => 200 * OverAddresses(ByWeight(q, s, subsidy)) <= 199 * subsidy
           /\ OverAddresses(ByWeight(q, s, subsidy)) <= subsidy
<1> DEFINE t == s["total"]
           f == ByWeight(q, s, subsidy)
           o == OverAddresses(f)
<1>1. t \in Nat /\ \A a \in Address : s[a] \in Nat
  <2>1. \A c \in Column : s[c] \in Int /\ s[c] >= 0
    BY DEF Weight
  <2> QED
    BY <2>1, ColumnFacts
<1>2. CASE t = 0
  <2>1. \A a \in Address : f[a] = 0
    BY <1>2 DEF ByWeight
  <2>2. o = 0
    <3>1. \A a \in Address : f[a] = IF a = Donation THEN 0 ELSE 0
      BY <2>1
    <3> HIDE DEF f
    <3>2. Donation \in Address
      BY PayoutsAssumption
    <3> QED
      BY <3>1, <3>2, SumOfOne
  <2>3. f \in [Address -> Nat]
    BY <2>1 DEF ByWeight
  <2> HIDE DEF o, f
  <2>4. o \in Int /\ 200 * o <= 199 * subsidy /\ o <= subsidy
    BY <2>2
  <2> QED
    BY <2>3, <2>4 DEF o, f
<1>3. CASE t # 0 /\ q.use = "share"
  <2>1. \A a \in Address : f[a] = (subsidy * (199 * s[a])) \div (200 * t)
    BY <1>3 DEF ByWeight
  <2>2. 200 * t \in Nat \ {0} /\ \A a \in Address : subsidy * (199 * s[a]) \in Nat
    BY <1>1, <1>3
  <2>3. \A a \in Address : f[a] \in Nat /\ (200 * t) * f[a] <= subsidy * (199 * s[a])
    <3> HIDE DEF t, f
    <3> QED
      BY <2>1, <2>2, Quotient
  <2>4. f \in [Address -> Nat]
    BY <2>3 DEF ByWeight
  <2> HIDE DEF f
  <2>5. \A a \in Address : subsidy * (199 * s[a]) = (199 * subsidy) * s[a]
    BY <1>1
  <2>6. 200 * o <= 199 * subsidy
    <3>1. 199 * subsidy \in Nat /\ f \in [Address -> Int]
      BY <2>4
    <3>2. \A a \in Address : (200 * s["total"]) * f[a] <= (199 * subsidy) * s[a]
      BY <2>3, <2>5
    <3> QED
      BY <1>3, <3>1, <3>2, SharesTogether
  <2>7. o \in Int
    BY <2>4, PutOn, PayoutsAssumption
  <2> HIDE DEF o
  <2>8. o <= subsidy
    BY <2>6, <2>7
  <2> QED
    BY <2>4, <2>6, <2>7, <2>8 DEF o, f
<1>4. CASE t # 0 /\ q.use # "share"
  <2>1. \A a \in Address : f[a] = (subsidy * s[a]) \div t
    BY <1>4 DEF ByWeight
  <2>2. t \in Nat \ {0} /\ \A a \in Address : subsidy * s[a] \in Nat
    BY <1>1, <1>4
  <2>3. \A a \in Address : f[a] \in Nat /\ t * f[a] <= subsidy * s[a]
    <3> HIDE DEF t, f
    <3> QED
      BY <2>1, <2>2, Quotient
  <2>4. f \in [Address -> Nat]
    BY <2>3 DEF ByWeight
  <2> HIDE DEF f
  <2>5. 1 * o <= subsidy
    <3>1. f \in [Address -> Int] /\ 1 * s["total"] = t
      BY <2>2, <2>4
    <3>2. \A a \in Address : (1 * s["total"]) * f[a] <= subsidy * s[a]
      BY <2>3, <3>1
    <3> QED
      BY <1>4, <3>1, <3>2, SharesTogether
  <2>6. o \in Int
    BY <2>4, PutOn, PayoutsAssumption
  <2> HIDE DEF o
  <2>7. o <= subsidy
    BY <2>5, <2>6
  <2> QED
    BY <1>4, <2>4, <2>6, <2>7 DEF o, f
<1> QED
  BY <1>2, <1>3, <1>4

LEMMA AmountsAddUp ==
    ASSUME NEW q, NEW s, Weight(s), NEW subsidy \in Nat, NEW finder \in Address
    PROVE  /\ Amounts(q, s, subsidy, finder) \in [Address -> Nat]
           /\ OverAddresses(Amounts(q, s, subsidy, finder)) = subsidy
<1> DEFINE f == ByWeight(q, s, subsidy)
           e == subsidy \div 200
           g == IF q.use = "share" THEN [f EXCEPT ![finder] = @ + e] ELSE f
           r == subsidy - OverAddresses(g)
           h == [g EXCEPT ![Donation] = @ + r]
<1>1. Amounts(q, s, subsidy, finder) = h
  BY DEF Amounts, PayingOut, ByWeight
<1>2. /\ f \in [Address -> Nat] /\ OverAddresses(f) \in Int
      /\ q.use = "share" => 200 * OverAddresses(f) <= 199 * subsidy
      /\ OverAddresses(f) <= subsidy
  BY ByWeightFits
<1>3. e \in Nat /\ 200 * e <= subsidy
  BY Quotient
<1> HIDE DEF f, e
<1>4. g \in [Address -> Nat] /\ OverAddresses(g) \in Int /\ OverAddresses(g) <= subsidy
  <2>1. CASE q.use = "share"
    <3>1. g = [f EXCEPT ![finder] = @ + e]
      BY <2>1
    <3>2. OverAddresses(g) = OverAddresses(f) + e
      <4>1. f \in [Address -> Int] /\ e \in Int
        BY <1>2, <1>3
      <4> HIDE DEF g
      <4> QED
        BY <3>1, <4>1, PutOn
    <3>3. g \in [Address -> Nat]
      BY <1>2, <1>3, <3>1
    <3> HIDE DEF g
    <3>4. OverAddresses(g) \in Int /\ OverAddresses(g) <= subsidy
      BY <2>1, <1>2, <1>3, <3>2
    <3> QED
      BY <3>3, <3>4
  <2>2. CASE q.use # "share"
    BY <2>2, <1>2
  <2> QED
    BY <2>1, <2>2
<1> HIDE DEF g
<1>5. r \in Nat
  BY <1>4
<1>6. Donation \in Address
  BY PayoutsAssumption
<1>7. OverAddresses(h) = subsidy
  <2>1. g \in [Address -> Int] /\ r \in Int
    BY <1>4, <1>5
  <2> DEFINE p == OverAddresses(h)
  <2>2. p = OverAddresses(g) + r
    <3> HIDE DEF r
    <3> QED
      BY <1>6, <2>1, PutOn
  <2> HIDE DEF p
  <2>3. p = subsidy
    BY <2>2, <1>4
  <2> QED
    BY <2>3 DEF p
<1>8. h \in [Address -> Nat]
  <2> HIDE DEF r
  <2> QED
    BY <1>4, <1>5, <1>6
<1> QED
  BY <1>1, <1>7, <1>8

(* What is paid of the amounts due: all of them, or a coinbase is full.      *)
LEMMA CutPays ==
    ASSUME NEW q, NEW due \in [Address -> Nat], NEW paid \in Paying(q, due)
    PROVE  /\ paid \in [Address -> Nat]
           /\ \/ paid = due
              \/ /\ q.use = "share"
                 /\ Cardinality({a \in Address : paid[a] > 0} \cup {Donation}) = MaxDests
                 /\ OverAddresses(paid) < OverAddresses(due)
<1>1. CASE q.use # "share"
  BY <1>1 DEF Paying
<1>2. CASE q.use = "share"
  <2>1. PICK dests \in Dests(due) : paid = [a \in Address |-> IF a \in dests THEN due[a] ELSE 0]
    BY <1>2 DEF Paying
  <2>2. /\ dests \in SUBSET Address /\ Donation \in dests
        /\ Cardinality(dests) = LeastOf(MaxDests, Cardinality(Address))
        /\ \A a \in dests \ {Donation}, b \in Address \ dests : due[a] >= due[b]
    BY DEF Dests
  <2>3. paid \in [Address -> Nat]
    BY <2>1
  <2>4. CASE \A b \in Address \ dests : due[b] = 0
    <3>1. \A a \in Address : paid[a] = due[a]
      BY <2>1, <2>4
    <3>2. paid = due
      BY <2>3, <3>1
    <3> QED
      BY <2>3, <3>2
  <2>5. CASE \E b \in Address \ dests : due[b] # 0
    <3>1. PICK b \in Address \ dests : due[b] # 0
      BY <2>5
    <3>2. due[b] \in Nat /\ due[b] > 0 /\ paid[b] = 0
      BY <2>1, <3>1
    <3>3. \A a \in dests \ {Donation} : paid[a] > 0
      <4>1. \A a \in dests \ {Donation} : paid[a] = due[a] /\ due[a] >= due[b] /\ due[a] \in Nat
        BY <2>1, <2>2, <3>1
      <4> QED
        BY <3>2, <4>1
    <3>4. \A a \in Address \ dests : paid[a] = 0
      BY <2>1
    <3>5. {a \in Address : paid[a] > 0} \cup {Donation} = dests
      BY <2>2, <3>3, <3>4
    <3>6. Cardinality(dests) = MaxDests
      <4>1. /\ IsFiniteSet(Address) /\ Cardinality(dests) \in Nat /\ Cardinality(Address) \in Nat
            /\ Cardinality(dests) < Cardinality(Address)
        BY <2>2, <3>1, PayoutsAssumption, FS_Subset, FS_CardinalityType
      <4> QED
        BY <2>2, <4>1, PayoutsAssumption DEF LeastOf
    <3>7. OverAddresses(paid) < OverAddresses(due)
      <4> DEFINE more == [paid EXCEPT ![b] = @ + due[b]]
                 x == OverAddresses(paid)
                 y == OverAddresses(more)
                 z == OverAddresses(due)
      <4>1. x \in Int /\ y = x + due[b]
        <5>1. paid \in [Address -> Int] /\ b \in Address /\ due[b] \in Int
          BY <2>3, <3>1
        <5> QED
          BY <5>1, PutOn
      <4>2. \A a \in Address : more[a] \in Int /\ due[a] \in Int /\ more[a] <= due[a]
        BY <2>1, <2>3, <3>1
      <4>3. \A a \in Address : more[a] \in Int /\ due[a] \in Int /\ 1 * more[a] <= 1 * due[a]
        <5> HIDE DEF more
        <5> QED
          BY <4>2
      <4>4. 1 * y <= 1 * z
        <5> HIDE DEF more
        <5> QED
          BY <4>3, SumScaled
      <4>5. z \in Int
        <5>1. due \in [Address -> Int] /\ 0 \in Int /\ b \in Address
          BY <3>1
        <5> QED
          BY <5>1, PutOn
      <4> HIDE DEF more, x, y, z
      <4>6. x < z
        BY <4>1, <4>4, <4>5, <3>2
      <4> QED
        BY <4>6 DEF x, z
    <3> QED
      BY <1>2, <2>3, <3>5, <3>6, <3>7
  <2> QED
    BY <2>4, <2>5
<1> QED
  BY <1>1, <1>2

-----------------------------------------------------------------------------
(* What an answer pays was computed of this answer.                         *)
Paid ==
    status = "returned" =>
      /\ Asked(question)
      /\ \E subsidy \in Subsidies, finder \in Address :
            amounts \in Paying(question, Amounts(question, sum, subsidy, finder))

LEMMA ReturnPaid ==
    ASSUME NEW q, Asked(q), NEW s, Return(q, s)
    PROVE  Paid'
<1>1. question' = q /\ sum' = s
  BY DEF Return
<1>2. PICK subsidy \in Subsidies, finder \in Address :
           amounts' \in Paying(q, Amounts(q, s, subsidy, finder))
  BY DEF Return
<1>3. Asked(question)'
  BY <1>1 DEF Asked
<1>4. amounts' \in Paying(question', Amounts(question', sum', subsidy, finder))
  BY <1>1, <1>2
<1> QED
  BY <1>3, <1>4 DEF Paid

LEMMA NextPaid ==
    ASSUME IInv, Paid, [Next]_vars
    PROVE  Paid'
<1>1. ASSUME NEW h \in Hash, add(h) \/ remove(h) PROVE Paid'
  BY <1>1 DEF add, remove, Paid
<1>2. ASSUME NEW p \in items \cup {None}, NEW desired \in Desired,
             generate_transaction(p, desired) \/ get_expected_payouts(p, desired)
      PROVE  Paid'
  <2>1. PICK q : Asked(q) /\ Call(q)
    BY <1>2, CallersAsk
  <2>2. CASE Enough(q, Zero)
    BY <2>1, <2>2, ReturnPaid DEF Call
  <2>3. CASE ~Enough(q, Zero)
    BY <2>1, <2>3 DEF Call, Paid
  <2> QED
    BY <2>2, <2>3
<1>3. CASE Round
  <2>1. status = "walking" /\ Asked(question)
    BY <1>3 DEF Round, IInv, WalkExact
  <2>2. \A x : Raise(x) /\ x # "returned" => Paid'
    BY DEF Raise, Paid
  <2>3. ASSUME NEW entry, NEW i, Take(entry, i) PROVE Paid'
    <3>1. CASE Enough(question, After(entry, i))
      BY <2>1, <2>3, <3>1, ReturnPaid DEF Take
    <3>2. CASE ~Enough(question, After(entry, i))
      BY <2>1, <2>3, <3>2 DEF Take, Paid
    <3> QED
      BY <3>1, <3>2
  <2>4. ASSUME NEW entry, Jump(entry) PROVE Paid'
    BY <2>2, <2>3, <2>4 DEF Jump
  <2> QED
    BY <1>3, <2>2, <2>4 DEF Round
<1>4. CASE UNCHANGED vars
  <2>1. UNCHANGED <<status, question, sum, amounts>>
    BY <1>4 DEF vars
  <2>2. \A subsidy, finder :
           Paying(question', Amounts(question', sum', subsidy, finder))
             = Paying(question, Amounts(question, sum, subsidy, finder))
    BY <2>1
  <2> QED
    BY <2>1, <2>2 DEF Paid, Asked
<1> QED
  BY <1>1, <1>2, <1>3, <1>4 DEF Next

(* For every subsidy, finder, chain and contents of its shares, the         *)
(* coinbase made of an answer pays the subsidy and nothing negative, less   *)
(* only where it has all the destinations it may have, and the weights of   *)
(* the answer add up.                                                       *)
THEOREM CoinbaseAddsUp == Spec => []PayoutsAddUp
<1>1. Init => Paid
  BY DEF Init, Paid
<1>2. IInv /\ Paid /\ [Next]_vars => Paid'
  BY NextPaid
<1>3. IInv /\ Paid => PayoutsAddUp
  <2> SUFFICES ASSUME IInv, Paid, status = "returned" PROVE PayoutsAddUp
    BY DEF PayoutsAddUp
  <2>1. PICK subsidy \in Subsidies, finder \in Address :
           amounts \in Paying(question, Amounts(question, sum, subsidy, finder))
    BY DEF Paid
  <2>2. Weight(sum)
    BY OwedWeight DEF IInv, AnswersExact, Paid
  <2>3. subsidy \in Nat
    BY PayoutsAssumption
  <2> DEFINE due == Amounts(question, sum, subsidy, finder)
  <2>4. due \in [Address -> Nat] /\ OverAddresses(due) = subsidy
    BY <2>2, <2>3, AmountsAddUp
  <2>5. amounts \in [Address -> Nat] /\ (OverAddresses(amounts) \in Subsidies \/ LeavesOut)
    <3> HIDE DEF due
    <3>1. amounts \in Paying(question, due)
      BY <2>1 DEF due
    <3> QED
      BY <2>4, <3>1, CutPays DEF LeavesOut
  <2>6. \A a \in Address : amounts[a] >= 0
    BY <2>5
  <2> QED
    BY <2>2, <2>5, <2>6 DEF PayoutsAddUp, Weight, Balanced
<1> QED
  BY <1>1, <1>2, <1>3, JumpsExact, PTL DEF Spec

=============================================================================
