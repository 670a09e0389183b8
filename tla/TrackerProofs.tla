--------------------------- MODULE TrackerProofs ---------------------------
(***************************************************************************)
(* What OkayTracker.think and the handlers around it promise, for any       *)
(* forest, any kinds of its shares, any order of arrival, any constants:    *)
(* the assertions hold, only bad shares are blamed, the best share is there *)
(* and not naughty, heads are verified and so are the windows below them,   *)
(* and forgetting old shares does not take from a window.                   *)
(*                                                                         *)
(* think is a sequence of folds over records.  The proof goes with it: one  *)
(* check of a share, a walk below a head, a loop over the heads, the three  *)
(* loops, the choice of the best, the handlers.                             *)
(***************************************************************************)
EXTENDS ForestProofs, OkayTracker

-----------------------------------------------------------------------------
(* Walks through a set of items and through a larger one.                   *)
LEMMA TailIsLast == \A S, x : TailOf(S, x) = LastIn(S, x)
BY DEF TailOf, LastIn

LEMMA HeightType ==
    ASSUME IsLink(prev), NEW S \in SUBSET Hash
    PROVE  \A x \in Nodes :
              /\ Height(S, x) \in Nat
              /\ x \in S => Height(S, x) = 1 + Height(S, prev[x])
              /\ x \notin S => Height(S, x) = 0
BY HeightFacts DEF Height

LEMMA TailFacts ==
    ASSUME IsLink(prev), NEW S \in SUBSET Hash
    PROVE  /\ \A x \in S : /\ prev[x] \in Nodes /\ prev[x] < x
                           /\ TailOf(S, x) = TailOf(S, prev[x])
           /\ \A x \in Nodes \ S : TailOf(S, x) = x
           /\ \A x \in Nodes : TailOf(S, x) \in Nodes \ S
BY LastInFacts, TailIsLast

(* A walk through few items is the beginning of one through more.           *)
LEMMA WalkOn ==
    ASSUME IsLink(prev), NEW S \in SUBSET Hash, NEW V \in SUBSET S, NEW x \in Nodes
    PROVE  /\ TailOf(S, TailOf(V, x)) = TailOf(S, x)
           /\ Height(S, x) = Height(V, x) + Height(S, TailOf(V, x))
           /\ Height(V, x) <= Height(S, x)
<1>1. V \in SUBSET Hash /\ S \in SUBSET Hash
  OBVIOUS
<1> DEFINE T == {y \in Nodes : TailOf(S, TailOf(V, y)) # TailOf(S, y)}
<1>2. T = {}
  <2> SUFFICES ASSUME T # {} PROVE FALSE
    OBVIOUS
  <2>1. PICK m \in T : m \notin V \/ prev[m] \in Nodes \ T
    <3>1. T \in SUBSET Nodes /\ Descends(prev, V)
      BY <1>1, LinkDescends
    <3> HIDE DEF T
    <3> QED
      BY <1>1, <3>1, LowestLacking
  <2>2. m \in Nodes /\ TailOf(S, TailOf(V, m)) # TailOf(S, m)
    OBVIOUS
  <2>3. CASE m \notin V
    <3>1. TailOf(V, m) = m
      BY <1>1, <2>2, <2>3, TailFacts
    <3> QED
      BY <2>2, <3>1
  <2>4. CASE m \in V
    <3>1. TailOf(V, m) = TailOf(V, prev[m])
      BY <1>1, <2>4, TailFacts
    <3>2. TailOf(S, m) = TailOf(S, prev[m])
      BY <1>1, <2>4, TailFacts
    <3>3. TailOf(S, TailOf(V, prev[m])) = TailOf(S, prev[m])
      BY <2>1, <2>4
    <3> QED
      BY <2>2, <3>1, <3>2, <3>3
  <2> QED
    BY <2>3, <2>4
<1> DEFINE t == TailOf(V, x)
<1>3. TailOf(S, t) = TailOf(S, x) /\ t \in Nodes
  BY <1>1, <1>2, TailFacts
<1>4. /\ Depth[x] \in Nat /\ Depth[TailOf(V, x)] \in Nat
      /\ Height(V, x) = Depth[x] - Depth[TailOf(V, x)]
  BY <1>1, HeightIsDepth, TailIsLast DEF Height
<1>5. /\ Depth[TailOf(S, x)] \in Nat
      /\ Height(S, x) = Depth[x] - Depth[TailOf(S, x)]
  BY <1>1, HeightIsDepth, TailIsLast DEF Height
<1>6. Height(S, t) = Depth[t] - Depth[TailOf(S, t)]
  <2> HIDE DEF t
  <2> QED
    BY <1>1, <1>3, HeightIsDepth, TailIsLast DEF Height
<1>7. Height(S, x) = Height(V, x) + Height(S, t)
  BY <1>3, <1>4, <1>5, <1>6
<1>8. Height(S, t) \in Nat /\ Height(V, x) \in Nat
  <2> HIDE DEF t
  <2> QED
    BY <1>1, <1>3, HeightType
<1> QED
  BY <1>3, <1>7, <1>8

(* The way down from x to the node n parents below it.                      *)
IsWay(u, x, n) == /\ u \in [0..n -> Nodes] /\ u[0] = x
                  /\ \A k \in 1..n : u[k] = prev[u[k - 1]]

(* Down follows the way.                                                    *)
LEMMA DownIsWay ==
    ASSUME NEW x, NEW n \in Nat, NEW u, IsWay(u, x, n), NEW m \in 0..n
    PROVE  Down(x, m) = u[m]
<1> DEFINE R(g) == [k \in 0..m |-> IF k = 0 THEN x ELSE prev[g[k - 1]]]
           v == [k \in 0..m |-> u[k]]
           U == CHOOSE g : g = R(g)
<1>0. m \in Nat /\ \A k \in 0..m : k \in 0..n /\ (k # 0 => k \in 1..n /\ k - 1 \in 0..m)
  OBVIOUS
<1>1. v = R(v)
  <2>1. \A k \in 0..m : v[k] = IF k = 0 THEN x ELSE prev[v[k - 1]]
    BY <1>0 DEF IsWay
  <2> QED
    BY <2>1
<1>2. U = R(U)
  <2> HIDE DEF R, v
  <2> QED
    BY <1>1
<1>3. Down(x, m) = U[m]
  BY DEF Down
<1> HIDE DEF U
<1>4. \A k \in 0..m : U[k] = IF k = 0 THEN x ELSE prev[U[k - 1]]
  BY <1>2
<1> DEFINE Off == {k \in 0..m : U[k] # u[k]}
<1>5. Off = {}
  <2> SUFFICES ASSUME Off # {} PROVE FALSE
    OBVIOUS
  <2>1. PICK k \in Off : \A j \in Off : k <= j
    <3>1. Off \in SUBSET Nat
      OBVIOUS
    <3> HIDE DEF Off
    <3> QED
      BY <3>1, LeastElement
  <2>2. k \in 0..m /\ U[k] # u[k] /\ k \in Nat
    OBVIOUS
  <2>3. k # 0
    BY <1>4, <2>2 DEF IsWay
  <2>4. k - 1 \in 0..m /\ k - 1 \notin Off
    <3> HIDE DEF Off
    <3>1. k - 1 \in Off => k <= k - 1
      BY <2>1
    <3> QED
      BY <3>1, <1>0, <2>2, <2>3
  <2>5. U[k - 1] = u[k - 1]
    BY <2>4
  <2>6. U[k] = prev[U[k - 1]] /\ u[k] = prev[u[k - 1]]
    BY <1>0, <1>4, <2>2, <2>3 DEF IsWay
  <2> QED
    BY <2>2, <2>5, <2>6
<1> QED
  BY <1>0, <1>3, <1>5

LEMMA WayExists ==
    ASSUME IsLink(prev), NEW S \in SUBSET Hash, NEW x \in Nodes,
           NEW n \in Nat, n <= Height(S, x)
    PROVE  \E u : /\ IsWay(u, x, n)
                  /\ \A k \in 0..n : /\ Height(S, u[k]) = Height(S, x) - k
                                     /\ TailOf(S, u[k]) = TailOf(S, x)
<1> DEFINE H == HeightMap(prev, S)
           Up(m, u) == /\ u \in [0..m -> Nodes] /\ u[0] = x
                       /\ \A k \in 1..m : u[k] = prev[u[k - 1]]
                       /\ \A k \in 0..m : /\ H[u[k]] = H[x] - k
                                          /\ LastIn(S, u[k]) = LastIn(S, x)
           Bad == {m \in 0..n : ~ \E u : Up(m, u)}
<1>1. \A y \in Nodes : /\ H[y] \in Nat
                       /\ y \in S => H[y] = 1 + H[prev[y]]
                       /\ y \notin S => H[y] = 0
  BY HeightFacts
<1>2. \A y \in S : prev[y] \in Nodes /\ LastIn(S, y) = LastIn(S, prev[y])
  BY LastInFacts
<1>3. n <= H[x]
  BY DEF Height
<1> HIDE DEF H
<1>4. Bad = {}
  <2> SUFFICES ASSUME Bad # {} PROVE FALSE
    OBVIOUS
  <2>1. PICK m \in Bad : \A k \in Bad : m <= k
    <3>1. Bad \in SUBSET Nat
      OBVIOUS
    <3> HIDE DEF Bad
    <3> QED
      BY <3>1, LeastElement
  <2>2. m \in 0..n /\ ~ (\E u : Up(m, u)) /\ m \in Nat
    OBVIOUS
  <2>3. m # 0
    <3> DEFINE u0 == [k \in 0..0 |-> x]
    <3>1. u0 \in [0..0 -> Nodes] /\ u0[0] = x /\ \A k \in 0..0 : k = 0
      OBVIOUS
    <3>2. H[u0[0]] = H[x] - 0
      BY <1>1, <3>1
    <3>3. \A k \in 0..0 : H[u0[k]] = H[x] - k /\ LastIn(S, u0[k]) = LastIn(S, x)
      BY <3>1, <3>2
    <3> HIDE DEF u0
    <3>4. Up(0, u0)
      BY <3>1, <3>3
    <3> QED
      BY <2>2, <3>4
  <2>4. m - 1 \in 0..n /\ m - 1 \in Nat
    BY <2>2, <2>3
  <2>5. PICK u : Up(m - 1, u)
    <3> HIDE DEF Up
    <3>1. m - 1 \notin Bad
      <4> HIDE DEF Bad
      <4>1. m - 1 \in Bad => m <= m - 1
        BY <2>1
      <4> QED
        BY <4>1, <2>2
    <3> QED
      BY <2>4, <3>1
  <2> DEFINE y == u[m - 1]
             w == [k \in 0..m |-> IF k = m THEN prev[y] ELSE u[k]]
  <2>6. y \in Nodes /\ H[y] = H[x] - (m - 1) /\ LastIn(S, y) = LastIn(S, x)
    BY <2>4, <2>5
  <2>7. y \in S
    BY <1>1, <1>3, <2>2, <2>6
  <2>8. prev[y] \in Nodes /\ H[prev[y]] = H[x] - m /\ LastIn(S, prev[y]) = LastIn(S, x)
    <3> HIDE DEF y
    <3>1. prev[y] \in Nodes /\ LastIn(S, prev[y]) = LastIn(S, x)
      BY <1>2, <2>6, <2>7
    <3>2. H[y] = 1 + H[prev[y]] /\ H[prev[y]] \in Nat /\ H[x] \in Nat
      BY <1>1, <2>6, <2>7, <3>1
    <3> QED
      BY <2>2, <2>6, <3>1, <3>2
  <2>9. /\ \A k \in 0..m : k # m => k \in 0..(m - 1)
        /\ \A k \in 1..m : k # m => k \in 1..(m - 1)
        /\ \A k \in 1..m : k - 1 \in 0..m /\ k - 1 # m
    BY <2>2
  <2>10. w \in [0..m -> Nodes] /\ w[0] = x
    <3>1. 0 \in 0..m /\ 0 # m
      BY <2>2, <2>3
    <3>2. \A k \in 0..m : w[k] \in Nodes
      <4> HIDE DEF y
      <4> QED
        BY <2>5, <2>8, <2>9
    <3>3. w[0] = u[0]
      BY <3>1
    <3> QED
      BY <2>5, <3>2, <3>3
  <2>11. \A k \in 1..m : w[k] = prev[w[k - 1]]
    <3> SUFFICES ASSUME NEW k \in 1..m PROVE w[k] = prev[w[k - 1]]
      OBVIOUS
    <3>1. w[k - 1] = u[k - 1]
      BY <2>9
    <3>2. CASE k = m
      BY <3>1, <3>2
    <3>3. CASE k # m
      BY <2>5, <2>9, <3>1, <3>3
    <3> QED
      BY <3>2, <3>3
  <2>12. \A k \in 0..m : H[w[k]] = H[x] - k /\ LastIn(S, w[k]) = LastIn(S, x)
    <3> HIDE DEF y
    <3> QED
      BY <2>5, <2>8, <2>9
  <2> HIDE DEF w
  <2>13. Up(m, w)
    BY <2>10, <2>11, <2>12
  <2> HIDE DEF Up
  <2> QED
    BY <2>2, <2>13
<1>5. PICK u : Up(n, u)
  <2>1. n \in 0..n
    OBVIOUS
  <2> HIDE DEF Up
  <2> QED
    BY <1>4, <2>1
<1> QED
  BY <1>5, TailIsLast DEF IsWay, Height, H

(* Down, as far as the walk through S goes.                                 *)
LEMMA DownFacts ==
    ASSUME IsLink(prev), NEW S \in SUBSET Hash, NEW x \in Nodes
    PROVE  /\ Down(x, 0) = x
           /\ Down(x, Height(S, x)) = TailOf(S, x)
           /\ \A n \in 0..Height(S, x) :
                 /\ Down(x, n) \in Nodes
                 /\ Height(S, Down(x, n)) = Height(S, x) - n
                 /\ TailOf(S, Down(x, n)) = TailOf(S, x)
                 /\ n # Height(S, x) =>
                       Down(x, n) \in S /\ Down(x, n + 1) = prev[Down(x, n)]
<1> DEFINE h == Height(S, x)
<1>1. h \in Nat
  BY HeightType
<1>2. PICK u : /\ IsWay(u, x, h)
               /\ \A k \in 0..h : /\ Height(S, u[k]) = h - k
                                  /\ TailOf(S, u[k]) = TailOf(S, x)
  <2>1. h = Height(S, x) /\ h <= Height(S, x)
    BY <1>1
  <2> HIDE DEF h
  <2>2. \E u : /\ IsWay(u, x, h)
                /\ \A k \in 0..h : /\ Height(S, u[k]) = Height(S, x) - k
                                   /\ TailOf(S, u[k]) = TailOf(S, x)
    BY <1>1, <2>1, WayExists
  <2> QED
    BY <2>1, <2>2
<1> HIDE DEF h
<1>3. \A k \in 0..h : Down(x, k) = u[k]
  BY <1>1, <1>2, DownIsWay
<1>4. 0 \in 0..h /\ h \in 0..h /\ u[0] = x /\ \A k \in 0..h : u[k] \in Nodes
  BY <1>1, <1>2 DEF IsWay
<1>5. \A k \in 0..h : Height(S, u[k]) = h - k /\ TailOf(S, u[k]) = TailOf(S, x)
  BY <1>2
<1>6. ASSUME NEW k \in 0..h, k # h PROVE u[k] \in S /\ Down(x, k + 1) = prev[u[k]]
  <2>1. k \in Nat /\ h - k > 0 /\ k + 1 \in 0..h /\ k + 1 \in 1..h /\ k + 1 - 1 = k
    BY <1>1, <1>6
  <2>2. Height(S, u[k]) > 0 /\ u[k] \in Nodes
    BY <1>4, <1>5, <2>1
  <2>3. u[k] \in S
    BY <2>2, HeightType
  <2>4. u[k + 1] = prev[u[k]]
    BY <1>2, <2>1 DEF IsWay
  <2> QED
    BY <1>3, <2>1, <2>3, <2>4
<1>7. u[h] = TailOf(S, x)
  <2>1. u[h] \in Nodes /\ Height(S, u[h]) = 0 /\ TailOf(S, u[h]) = TailOf(S, x)
    BY <1>1, <1>4, <1>5
  <2>2. u[h] \notin S
    <3>1. u[h] \in S => /\ Height(S, u[h]) = 1 + Height(S, prev[u[h]])
                        /\ prev[u[h]] \in Nodes
      BY <2>1, HeightType, TailFacts
    <3>2. prev[u[h]] \in Nodes => Height(S, prev[u[h]]) \in Nat
      BY HeightType
    <3> QED
      BY <2>1, <3>1, <3>2
  <2>3. TailOf(S, u[h]) = u[h]
    BY <2>1, <2>2, TailFacts
  <2> QED
    BY <2>1, <2>3
<1> QED
  BY <1>3, <1>4, <1>5, <1>6, <1>7 DEF h

(* As long as the way down stays in I, the walk through I goes on.          *)
LEMMA StaysIn ==
    ASSUME IsLink(prev), NEW S \in SUBSET Hash, NEW x \in Nodes, NEW n \in Nat,
           \A j \in 0..(n - 1) : Down(x, j) \in S
    PROVE  n <= Height(S, x)
<1> SUFFICES ASSUME Height(S, x) < n PROVE FALSE
  BY HeightType
<1> DEFINE h == Height(S, x)
<1>1. h \in Nat /\ h \in 0..(n - 1)
  BY HeightType
<1>2. Down(x, h) = TailOf(S, x)
  BY DownFacts
<1>3. TailOf(S, x) \notin S
  BY TailFacts
<1> HIDE DEF h
<1> QED
  BY <1>1, <1>2, <1>3

-----------------------------------------------------------------------------
(* Steps one after the other.                                               *)
LEMMA StepByStep ==
    ASSUME NEW n \in Nat, NEW Q, 0 \in Q, \A k \in 1..n : k - 1 \in Q => k \in Q
    PROVE  0..n \subseteq Q
<1> DEFINE T == {k \in 0..n : k \notin Q}
<1> SUFFICES ASSUME T # {} PROVE FALSE
  OBVIOUS
<1>1. PICK k \in T : \A j \in T : k <= j
  <2>1. T \in SUBSET Nat
    OBVIOUS
  <2> HIDE DEF T
  <2> QED
    BY <2>1, LeastElement
<1>2. k \in 0..n /\ k \notin Q /\ k \in Nat /\ k # 0
  OBVIOUS
<1>3. k \in 1..n /\ k - 1 \in 0..n
  BY <1>2
<1>4. k - 1 \in T
  BY <1>2, <1>3
<1> HIDE DEF T
<1>5. k <= k - 1
  BY <1>1, <1>4
<1> QED
  BY <1>2, <1>5

(* A function that goes on from one value to the next exists.               *)
Stepping(G, n, V) == G \in [1..n -> [V -> V]]

Iterates(s, b, G, n, V) == /\ s \in [0..n -> V] /\ s[0] = b
                           /\ \A k \in 1..n : s[k] = G[k][s[k - 1]]

LEMMA IterationExists ==
    ASSUME NEW n \in Nat, NEW V, NEW b \in V, NEW G, Stepping(G, n, V)
    PROVE  \E s : Iterates(s, b, G, n, V)
<1> USE DEF Stepping, Iterates
<1> DEFINE Good(m, s) == /\ s \in [0..m -> V] /\ s[0] = b
                         /\ \A k \in 1..m : s[k] = G[k][s[k - 1]]
           Q == {m \in 0..n : \E s : Good(m, s)}
<1>1. 0 \in Q
  <2> DEFINE s0 == [k \in 0..0 |-> b]
  <2>1. s0 \in [0..0 -> V] /\ s0[0] = b /\ 1..0 = {}
    OBVIOUS
  <2> HIDE DEF s0
  <2>2. Good(0, s0)
    BY <2>1
  <2> QED
    BY <2>2
<1>2. ASSUME NEW m \in 1..n, m - 1 \in Q PROVE m \in Q
  <2>1. PICK s : Good(m - 1, s)
    BY <1>2
  <2>2. /\ m \in Nat /\ m - 1 \in 0..(m - 1) /\ 0 \in 0..(m - 1) /\ m \in 0..n /\ 0 \in 0..m
        /\ 0 # m
        /\ \A k \in 0..m : k # m => k \in 0..(m - 1)
        /\ \A k \in 1..m : k - 1 \in 0..m /\ k - 1 # m /\ k \in 0..m
                           /\ (k # m => k \in 1..(m - 1))
    OBVIOUS
  <2> DEFINE y == G[m][s[m - 1]]
             t == [k \in 0..m |-> IF k = m THEN y ELSE s[k]]
  <2>3. y \in V
    <3>1. s[m - 1] \in V /\ G[m] \in [V -> V]
      BY <1>2, <2>1, <2>2
    <3> QED
      BY <3>1
  <2>4. t \in [0..m -> V] /\ t[0] = b
    <3> HIDE DEF y
    <3> QED
      BY <2>1, <2>2, <2>3
  <2>5. \A k \in 1..m : t[k] = G[k][t[k - 1]]
    <3> TAKE k \in 1..m
    <3>1. t[k - 1] = s[k - 1]
      BY <2>2
    <3>2. CASE k = m
      BY <3>1, <3>2, <2>2
    <3>3. CASE k # m
      <4>1. t[k] = s[k] /\ s[k] = G[k][s[k - 1]]
        <5> HIDE DEF y
        <5> QED
          BY <2>1, <2>2, <3>3
      <4> QED
        BY <3>1, <4>1
    <3> QED
      BY <3>2, <3>3
  <2> HIDE DEF t
  <2>6. Good(m, t)
    BY <2>4, <2>5
  <2> HIDE DEF Good
  <2> QED
    BY <2>2, <2>6
<1> HIDE DEF Q
<1>3. 0..n \subseteq Q
  BY <1>1, <1>2, StepByStep
<1>4. n \in Q
  BY <1>3
<1> QED
  BY <1>4 DEF Q

(* A function that folds a sequence from the left, as the folds of the      *)
(* community modules do, by sets of positions.                              *)
Folding(it, b, G, n, V) ==
    /\ it \in [SUBSET (1..n) -> V]
    /\ \A t \in SUBSET (1..n) :
          it[t] = IF t = {} THEN b ELSE G[Max(t)][it[t \ {Max(t)}]]

LEMMA FoldExists ==
    ASSUME NEW n \in Nat, NEW V, NEW b \in V, NEW G, Stepping(G, n, V)
    PROVE  \E it : Folding(it, b, G, n, V)
<1> USE DEF Stepping, Folding
<1> DEFINE Good(k, it) ==
              /\ it \in [SUBSET (1..k) -> V]
              /\ \A t \in SUBSET (1..k) :
                    it[t] = IF t = {} THEN b ELSE G[Max(t)][it[t \ {Max(t)}]]
           Q == {k \in 0..n : \E it : Good(k, it)}
<1>1. 0 \in Q
  <2> DEFINE it0 == [t \in SUBSET (1..0) |-> b]
  <2>1. SUBSET (1..0) = {{}} /\ it0 \in [SUBSET (1..0) -> V]
    OBVIOUS
  <2>2. Good(0, it0)
    BY <2>1
  <2> HIDE DEF Good
  <2> QED
    BY <2>2
<1>2. ASSUME NEW k \in 1..n, k - 1 \in Q PROVE k \in Q
  <2>1. PICK it : Good(k - 1, it)
    BY <1>2
  <2> DEFINE D == SUBSET (1..k)
             up == [t \in D |-> IF k \in t THEN G[k][it[t \ {k}]] ELSE it[t]]
  <2>2. k \in Nat /\ k \in 0..n
    OBVIOUS
  <2>3. \A t \in D : (k \notin t => t \in SUBSET (1..(k - 1)))
                     /\ t \ {k} \in SUBSET (1..(k - 1)) /\ t \ {k} \in D
    BY <2>2
  <2>4. \A t \in SUBSET (1..(k - 1)) : t \in D /\ k \notin t
    BY <2>2
  <2>5. G[k] \in [V -> V]
    OBVIOUS
  <2>6. up \in [D -> V]
    <3>1. \A t \in SUBSET (1..(k - 1)) : it[t] \in V
      BY <2>1
    <3>2. \A t \in D : k \in t => G[k][it[t \ {k}]] \in V
      BY <2>3, <2>5, <3>1
    <3>3. \A t \in D : k \notin t => it[t] \in V
      BY <2>3, <3>1
    <3> HIDE DEF D
    <3> QED
      BY <3>2, <3>3
  <2>7. \A t \in D : up[t] = IF t = {} THEN b ELSE G[Max(t)][up[t \ {Max(t)}]]
    <3> TAKE t \in D
    <3>1. CASE k \in t
      <4>1. Max(t) = k
        BY <2>2, <3>1, MaxIsLast
      <4>2. up[t \ {k}] = it[t \ {k}]
        <5> HIDE DEF D
        <5> QED
          BY <2>3
      <4>3. up[t] = G[k][it[t \ {k}]]
        BY <3>1
      <4> HIDE DEF up
      <4> QED
        BY <3>1, <4>1, <4>2, <4>3
    <3>2. CASE k \notin t
      <4>0. t \in SUBSET (1..(k - 1))
        BY <2>3, <3>2
      <4>1. up[t] = it[t]
        BY <3>2
      <4>2. it[t] = IF t = {} THEN b ELSE G[Max(t)][it[t \ {Max(t)}]]
        BY <2>1, <4>0
      <4>3. t \ {Max(t)} \in SUBSET (1..(k - 1))
        BY <4>0
      <4>4. up[t \ {Max(t)}] = it[t \ {Max(t)}]
        BY <2>4, <4>3
      <4> HIDE DEF up
      <4> QED
        BY <4>1, <4>2, <4>4
    <3> QED
      BY <3>1, <3>2
  <2> HIDE DEF up
  <2>8. Good(k, up)
    BY <2>6, <2>7
  <2> HIDE DEF Good
  <2> QED
    BY <2>2, <2>8
<1> HIDE DEF Q
<1>3. 0..n \subseteq Q
  BY <1>1, <1>2, StepByStep
<1>4. n \in Q
  BY <1>3
<1> QED
  BY <1>4 DEF Q

-----------------------------------------------------------------------------
(* What a run of think is made of.                                          *)
Outcome == {"no", "AssertionError", "KeyError"}

Run ==
    [items : SUBSET Hash, verified : SUBSET Hash, naughty : [Hash -> Nat],
     bads : Seq(Hash), desired : SUBSET Nodes, blamed : SUBSET Hash,
     found : BOOLEAN, best : Nodes, heads : SUBSET Hash, failed : Outcome]

Shares == IsLink(prev) /\ kind \in [Hash -> Kind]

Valid(x) == kind[x] # "invalid"

(* What is verified is there and was accepted; what is bad was not.         *)
Trusted(st) ==
    /\ st.verified \subseteq st.items
    /\ \A x \in st.verified : Valid(x)
    /\ \A x \in st.blamed : ~Valid(x)
    /\ \A i \in DOMAIN st.bads : ~Valid(st.bads[i])

(* The runs over the items S that no exception has ended.                   *)
Going(S) == {st \in Run : /\ Trusted(st) /\ st.failed = "no"
                          /\ st.items = S /\ st.best = None}

(* A share attempt_verify may be asked about.                               *)
Checkable(S, x) == Height(S, x) > CHAIN_LENGTH \/ TailOf(S, x) = None

LEMMA ConstantTypes ==
    /\ CHAIN_LENGTH \in Nat /\ CHAIN_LENGTH > 0 /\ VerifyBatch \in Nat /\ VerifyBatch > 0
    /\ ForkDepth \in Nat /\ DropSlack \in Nat /\ MaxNaughty \in Nat
BY TrackerAssumption

LEMMA NaughtyType ==
    ASSUME Shares, NEW st \in Run, NEW h \in Hash
    PROVE  NaughtyAfter(st, h) \in Nat
<1>1. st.naughty \in [Hash -> Nat] /\ st.items \in SUBSET Hash
  BY DEF Run
<1>2. \A n \in Nat : Inherited(n) \in Nat
  BY DEF Inherited
<1> DEFINE p == prev[h]
<1>3. p \in st.items => st.naughty[p] \in Nat
  BY <1>1
<1>4. st.naughty[h] \in Nat
  BY <1>1
<1> QED
  BY <1>2, <1>3, <1>4 DEF NaughtyAfter

(* The parent of a share that may be checked is there, unless it is the     *)
(* first of its chain.                                                      *)
LEMMA CheckableParent ==
    ASSUME Shares, NEW S \in SUBSET Hash, NEW h \in S, Checkable(S, h)
    PROVE  (prev[h] = None \/ prev[h] \in S) /\ ~(Height(S, h) < CHAIN_LENGTH + 1 /\ TailOf(S, h) # None)
<1>1. IsLink(prev) /\ h \in Nodes
  BY HashTypes DEF Shares
<1>2. /\ Height(S, h) \in Nat /\ Height(S, h) = 1 + Height(S, prev[h])
      /\ prev[h] \in Nodes /\ TailOf(S, h) = TailOf(S, prev[h])
  BY <1>1, HeightType, TailFacts
<1>3. prev[h] \notin S => Height(S, prev[h]) = 0 /\ TailOf(S, prev[h]) = prev[h]
  BY <1>1, <1>2, HeightType, TailFacts
<1> QED
  BY <1>2, <1>3, ConstantTypes DEF Checkable

(* attempt_verify accepts a share exactly if it is valid.                   *)
LEMMA AttemptFacts ==
    ASSUME Shares, NEW S \in SUBSET Hash, NEW st \in Going(S), NEW h \in S, Checkable(S, h)
    PROVE  LET r == attempt_verify(st, h) IN
           /\ r \in Going(S)
           /\ r.found = Valid(h)
           /\ r.verified = IF Valid(h) THEN st.verified \cup {h} ELSE st.verified
           /\ r.bads = st.bads /\ r.desired = st.desired
<1> DEFINE r == attempt_verify(st, h)
<1>1. /\ st \in Run /\ st.failed = "no" /\ st.items = S /\ st.best = None /\ Trusted(st)
      /\ h \in Hash
  BY DEF Going
<1>2. ~TooShort(st, h)
  BY <1>1, CheckableParent DEF TooShort
<1>3. CheckPasses(st, h) <=> Valid(h)
  BY <1>1, CheckableParent DEF CheckPasses, Valid
<1>4. NaughtyAfter(st, h) \in Nat
  BY <1>1, NaughtyType
<1>5. CASE h \in st.verified
  <2>1. r = [st EXCEPT !.found = TRUE]
    BY <1>1, <1>5 DEF attempt_verify
  <2>2. /\ r \in Run /\ r.failed = "no" /\ r.items = S /\ r.best = None /\ r.found = TRUE
        /\ r.verified = st.verified /\ r.bads = st.bads /\ r.desired = st.desired
        /\ r.blamed = st.blamed
    BY <1>1, <2>1 DEF Run
  <2>3. Valid(h)
    BY <1>1, <1>5 DEF Trusted
  <2>4. Trusted(r)
    BY <1>1, <2>2 DEF Trusted
  <2> HIDE DEF r
  <2> QED
    BY <1>5, <2>2, <2>3, <2>4 DEF Going, r
<1>6. CASE h \notin st.verified
  <2> DEFINE v == IF CheckPasses(st, h) THEN st.verified \cup {h} ELSE st.verified
             g == NaughtyAfter(st, h)
             c == CheckPasses(st, h)
  <2>1. r = [st EXCEPT !.naughty[h] = g, !.verified = v, !.found = c]
    BY <1>1, <1>2, <1>6 DEF attempt_verify
  <2>2. v \in SUBSET Hash /\ g \in Nat /\ c \in BOOLEAN
    BY <1>1, <1>4 DEF Run, CheckPasses
  <2>3. v = IF Valid(h) THEN st.verified \cup {h} ELSE st.verified
    BY <1>3
  <2>4. c = Valid(h)
    BY <1>3 DEF CheckPasses, Valid
  <2> HIDE DEF v, g, c, r
  <2>5. /\ r \in Run /\ r.failed = "no" /\ r.items = S /\ r.best = None /\ r.found = c
        /\ r.verified = v /\ r.bads = st.bads /\ r.desired = st.desired
        /\ r.blamed = st.blamed
    BY <1>1, <2>1, <2>2 DEF Run
  <2>6. Trusted(r)
    <3>1. r.verified \subseteq S /\ \A x \in r.verified : Valid(x)
      BY <1>1, <2>3, <2>5 DEF Trusted
    <3> QED
      BY <1>1, <2>5, <3>1 DEF Trusted
  <2> QED
    BY <2>3, <2>4, <2>5, <2>6 DEF Going, r
<1> QED
  BY <1>5, <1>6

-----------------------------------------------------------------------------
(* think, first loop.                                                       *)
LEMMA BatchFacts ==
    ASSUME Shares, NEW S \in SUBSET Hash, NEW st, st.items = S, NEW h \in S
    PROVE  LET n == BatchOf(st, h) IN
           /\ n \in Nat /\ n <= Height(S, h)
           /\ \A k \in 0..(n - 1) : Down(h, k) \in S /\ Checkable(S, Down(h, k))
           /\ Checkable(S, h) => n > 0
           /\ \/ n = VerifyBatch
              \/ ~Checkable(S, Down(h, n)) \/ Down(h, n) \notin S
<1> DEFINE n == BatchOf(st, h)
           H == Height(S, h)
           t == TailOf(S, h)
<1>1. IsLink(prev) /\ h \in Nodes /\ H \in Nat /\ H > 0
  <2>1. IsLink(prev) /\ h \in Nodes
    BY HashTypes DEF Shares
  <2>2. H \in Nat /\ Height(S, prev[h]) \in Nat /\ H = 1 + Height(S, prev[h])
    BY <2>1, HeightType, TailFacts
  <2> QED
    BY <2>1, <2>2
<1>2. n = IF t = None THEN H ELSE LeastOf(VerifyBatch, MostOf(0, H - CHAIN_LENGTH))
  BY DEF BatchOf
<1>3. /\ \A k \in 0..H : /\ Height(S, Down(h, k)) = H - k
                         /\ TailOf(S, Down(h, k)) = t
                         /\ k # H => Down(h, k) \in S
      /\ Down(h, H) = t
  BY <1>1, DownFacts
<1>4. t \notin S
  BY <1>1, TailFacts
<1> HIDE DEF n, H, t
<1>5. /\ n \in Nat /\ n <= H /\ (t # None => n <= VerifyBatch)
      /\ (t # None /\ H > CHAIN_LENGTH => n > 0 /\ H - n >= CHAIN_LENGTH)
      /\ (t = None => n = H)
      /\ (t # None /\ n # VerifyBatch => H - n <= CHAIN_LENGTH)
      /\ (t # None /\ H <= CHAIN_LENGTH => n = 0)
  BY <1>1, <1>2, ConstantTypes DEF LeastOf, MostOf
<1>6. ASSUME NEW k \in 0..(n - 1) PROVE Down(h, k) \in S /\ Checkable(S, Down(h, k))
  <2>1. k \in Nat /\ k \in 0..H /\ k # H /\ k < n /\ n > 0
    BY <1>1, <1>5
  <2>2. t # None => H - k > CHAIN_LENGTH
    BY <1>1, <1>5, <2>1, ConstantTypes
  <2> QED
    BY <1>3, <2>1, <2>2 DEF Checkable
<1>7. Checkable(S, h) => n > 0
  BY <1>1, <1>5 DEF Checkable, H, t
<1>8. n = VerifyBatch \/ ~Checkable(S, Down(h, n)) \/ Down(h, n) \notin S
  <2>1. n \in 0..H
    BY <1>1, <1>5
  <2>2. CASE t = None
    BY <1>3, <1>4, <1>5, <2>2
  <2>3. CASE t # None /\ n # VerifyBatch
    <3>1. H - n <= CHAIN_LENGTH /\ H - n \in Int
      BY <1>1, <1>5, <2>3
    <3>2. ~(H - n > CHAIN_LENGTH)
      BY <3>1, ConstantTypes
    <3> QED
      BY <1>3, <2>1, <2>3, <3>2 DEF Checkable
  <2> QED
    BY <2>2, <2>3
<1> QED
  BY <1>5, <1>6, <1>7, <1>8 DEF n, H

(* One step down from a head: a share is tried unless one was found.        *)
Try(s, y) == IF s.found THEN s ELSE BadIfFailed(attempt_verify(s, y), y)

LEMMA TryFacts ==
    ASSUME Shares, NEW S \in SUBSET Hash, NEW s \in Going(S), NEW y \in S, Checkable(S, y)
    PROVE  LET r == Try(s, y) IN
           /\ r \in Going(S)
           /\ r.found = (s.found \/ Valid(y))
           /\ r.verified = IF ~s.found /\ Valid(y) THEN s.verified \cup {y} ELSE s.verified
           /\ r.bads = IF ~s.found /\ ~Valid(y) THEN Append(s.bads, y) ELSE s.bads
<1> DEFINE a == attempt_verify(s, y)
           r == Try(s, y)
<1>0. s \in Run /\ s.found \in BOOLEAN /\ y \in Hash
  BY DEF Going, Run
<1>1. CASE s.found
  BY <1>0, <1>1, Zenon DEF Try
<1>2. CASE ~s.found
  <2>1. /\ a \in Going(S) /\ a.found = Valid(y)
        /\ a.verified = IF Valid(y) THEN s.verified \cup {y} ELSE s.verified
        /\ a.bads = s.bads
    BY AttemptFacts
  <2>2. r = BadIfFailed(a, y)
    BY <1>2 DEF Try
  <2> HIDE DEF a
  <2>3. a.failed = "no" /\ a \in Run /\ Trusted(a) /\ a.items = S /\ a.best = None
    BY <2>1 DEF Going
  <2>4. CASE Valid(y)
    <3>1. r = a
      BY <2>1, <2>2, <2>4, Zenon DEF BadIfFailed
    <3>2. /\ r \in Going(S) /\ r.found = Valid(y)
          /\ r.verified = s.verified \cup {y} /\ r.bads = s.bads
      BY <2>1, <2>4, <3>1
    <3> HIDE DEF r
    <3>3. r.found = (s.found \/ Valid(y))
      BY <1>0, <1>2, <2>4, <3>2
    <3>4. r.verified = IF ~s.found /\ Valid(y) THEN s.verified \cup {y} ELSE s.verified
      BY <1>2, <2>4, <3>2
    <3>5. r.bads = IF ~s.found /\ ~Valid(y) THEN Append(s.bads, y) ELSE s.bads
      BY <1>2, <2>4, <3>2
    <3> QED
      BY <3>2, <3>3, <3>4, <3>5 DEF r
  <2>5. CASE ~Valid(y)
    <3>1. r = [a EXCEPT !.bads = Append(a.bads, y)]
      BY <2>1, <2>2, <2>3, <2>5 DEF BadIfFailed
    <3> DEFINE bs == Append(a.bads, y)
    <3>2. bs \in Seq(Hash) /\ \A i \in DOMAIN bs : ~Valid(bs[i])
      <4>1. a.bads \in Seq(Hash) /\ \A i \in DOMAIN a.bads : ~Valid(a.bads[i])
        BY <2>3 DEF Run, Trusted
      <4>2. \A i \in DOMAIN bs : (i \in DOMAIN a.bads /\ bs[i] = a.bads[i]) \/ bs[i] = y
        BY <1>0, <4>1
      <4>3. bs \in Seq(Hash)
        BY <1>0, <4>1
      <4> HIDE DEF bs
      <4> QED
        BY <2>5, <4>1, <4>2, <4>3
    <3> HIDE DEF bs, r
    <3>3. /\ r \in Run /\ r.failed = "no" /\ r.items = S /\ r.best = None
          /\ r.found = a.found /\ r.verified = a.verified /\ r.bads = bs
          /\ r.blamed = a.blamed
      BY <2>3, <3>1, <3>2 DEF Run, bs
    <3>4. Trusted(r)
      BY <2>3, <3>2, <3>3 DEF Trusted
    <3>5. r \in Going(S)
      BY <3>3, <3>4 DEF Going
    <3>6. bs = Append(s.bads, y)
      BY <2>1 DEF bs
    <3>7. r.found = (s.found \/ Valid(y))
      BY <1>0, <1>2, <2>1, <2>5, <3>3 DEF Valid
    <3>8. r.verified = IF ~s.found /\ Valid(y) THEN s.verified \cup {y} ELSE s.verified
      BY <1>2, <2>1, <2>5, <3>3
    <3>9. r.bads = IF ~s.found /\ ~Valid(y) THEN Append(s.bads, y) ELSE s.bads
      BY <1>2, <2>5, <3>3, <3>6
    <3> QED
      BY <3>5, <3>7, <3>8, <3>9 DEF r
  <2> QED
    BY <2>4, <2>5
<1> QED
  BY <1>1, <1>2

(* The shares tried one after the other on the way down from h.             *)
Tries(u, S, h, n) ==
    /\ u \in [0..n -> Going(S)]
    /\ \A k \in 1..n : u[k] = Try(u[k - 1], Down(h, k - 1))

LEMMA VerifySteps ==
    ASSUME Shares, NEW S \in SUBSET Hash, NEW st \in Going(S), NEW h \in S
    PROVE  \E u : /\ Tries(u, S, h, BatchOf(st, h))
                  /\ u[0] = [st EXCEPT !.found = FALSE]
                  /\ VerifyFromHead(st, h) \in Going(S)
                  /\ VerifyFromHead(st, h).verified = u[BatchOf(st, h)].verified
                  /\ VerifyFromHead(st, h).bads = u[BatchOf(st, h)].bads
<1> DEFINE n == BatchOf(st, h)
           b == [st EXCEPT !.found = FALSE]
           V == Going(S)
           G == [k \in 1..n |-> [s \in V |-> Try(s, Down(h, k - 1))]]
           R(g) == [k \in 0..n |->
                      IF k = 0 THEN b
                      ELSE IF g[k - 1].found THEN g[k - 1]
                      ELSE BadIfFailed(attempt_verify(g[k - 1], Down(h, k - 1)), Down(h, k - 1))]
           at0 == CHOOSE g : g = R(g)
           r == VerifyFromHead(st, h)
<1>1. st.items = S /\ h \in Nodes /\ TailOf(S, h) \in Nodes /\ IsLink(prev)
  BY HashTypes, TailFacts DEF Going, Shares
<1>2. n \in Nat /\ \A k \in 1..n : Down(h, k - 1) \in S /\ Checkable(S, Down(h, k - 1))
  <2>1. n \in Nat /\ \A k \in 0..(n - 1) : Down(h, k) \in S /\ Checkable(S, Down(h, k))
    BY <1>1, BatchFacts
  <2> HIDE DEF n
  <2>2. \A k \in 1..n : k - 1 \in 0..(n - 1)
    BY <2>1
  <2> QED
    BY <2>1, <2>2
<1>3. r = IF at0[n].found \/ TailOf(S, h) = None THEN at0[n]
          ELSE [at0[n] EXCEPT !.desired = @ \cup {TailOf(S, h)}]
  BY <1>1 DEF VerifyFromHead
<1> HIDE DEF n, r
<1>4. b \in V
  <2>1. st \in Run /\ Trusted(st) /\ st.failed = "no" /\ st.items = S /\ st.best = None
    BY DEF Going
  <2>2. /\ b \in Run /\ b.failed = "no" /\ b.items = S /\ b.best = None
        /\ b.verified = st.verified /\ b.bads = st.bads /\ b.blamed = st.blamed
    BY <2>1 DEF Run
  <2> HIDE DEF b
  <2>3. Trusted(b)
    BY <2>1, <2>2 DEF Trusted
  <2> QED
    BY <2>2, <2>3 DEF Going
<1> HIDE DEF b
<1>5. \A k \in 1..n : \A s \in V : Try(s, Down(h, k - 1)) \in V
  BY <1>2, TryFacts
<1> HIDE DEF V
<1>6. Stepping(G, n, V)
  BY <1>5 DEF Stepping
<1>7. \A k \in 1..n : \A s \in V : G[k][s] = Try(s, Down(h, k - 1))
  OBVIOUS
<1> HIDE DEF G
<1>8. PICK u \in [0..n -> V] : u[0] = b /\ \A k \in 1..n : u[k] = G[k][u[k - 1]]
  <2>1. \E s : Iterates(s, b, G, n, V)
    BY <1>2, <1>4, <1>6, IterationExists
  <2> QED
    BY <2>1 DEF Iterates
<1>9. \A k \in 1..n : k - 1 \in 0..n /\ k \in 0..n /\ u[k] = Try(u[k - 1], Down(h, k - 1))
  BY <1>2, <1>7, <1>8
<1>10. u = R(u)
  <2>1. \A k \in 0..n : k # 0 => k \in 1..n
    BY <1>2
  <2>2. \A k \in 0..n : u[k] = R(u)[k]
    BY <1>8, <1>9, <2>1 DEF Try
  <2> QED
    BY <1>8, <2>2
<1>11. at0 = R(at0)
  <2> HIDE DEF R
  <2> QED
    BY <1>10
<1> HIDE DEF at0
<1>12. at0[n] = u[n]
  <2> DEFINE Q == {k \in 0..n : at0[k] = u[k]}
  <2>1. 0 \in Q
    BY <1>2, <1>8, <1>11
  <2>2. ASSUME NEW k \in 1..n, k - 1 \in Q PROVE k \in Q
    <3>1. /\ k \in 0..n /\ k # 0
          /\ at0[k] = Try(at0[k - 1], Down(h, k - 1))
      BY <1>9, <1>11 DEF Try
    <3>2. at0[k - 1] = u[k - 1]
      BY <2>2
    <3> QED
      BY <1>9, <3>1, <3>2
  <2>3. 0..n \subseteq Q
    <3> HIDE DEF Q
    <3> QED
      BY <1>2, <2>1, <2>2, StepByStep
  <2> QED
    BY <1>2, <2>3
<1>13. r = u[n] \/ r = [u[n] EXCEPT !.desired = @ \cup {TailOf(S, h)}]
  BY <1>3, <1>12
<1>14. r \in Going(S) /\ r.verified = u[n].verified /\ r.bads = u[n].bads
  <2> DEFINE w == u[n]
             d == w.desired \cup {TailOf(S, h)}
  <2>1. w \in Going(S)
    BY <1>2, <1>8 DEF V
  <2>2. CASE r = w
    BY <2>1, <2>2
  <2>3. CASE r = [w EXCEPT !.desired = d]
    <3> HIDE DEF w
    <3>1. w \in Run /\ Trusted(w) /\ w.failed = "no" /\ w.items = S /\ w.best = None
      BY <2>1 DEF Going
    <3>2. d \in SUBSET Nodes
      BY <1>1, <3>1 DEF Run
    <3> HIDE DEF d
    <3>3. /\ r \in Run /\ r.failed = "no" /\ r.items = S /\ r.best = None
          /\ r.verified = w.verified /\ r.bads = w.bads /\ r.blamed = w.blamed
      BY <2>3, <3>1, <3>2 DEF Run
    <3>4. Trusted(r)
      BY <3>1, <3>3 DEF Trusted
    <3> QED
      BY <3>3, <3>4 DEF Going, w
  <2> QED
    BY <1>13, <2>2, <2>3
<1>15. Tries(u, S, h, n)
  BY <1>8, <1>9 DEF Tries, V
<1> QED
  BY <1>8, <1>14, <1>15 DEF n, r, b

(* A share think need not look at again, and a bad share whose parent, the  *)
(* next head, is one.                                                       *)
Settled(S, V, c) ==
    \/ ~Valid(c)
    \/ c \in V
    \/ ~Checkable(S, c)
Followed(S, V, c) == prev[c] \notin S \/ Settled(S, V, prev[c])

AllFollowed(S, st) == \A i \in DOMAIN st.bads : Followed(S, st.verified, st.bads[i])

(* There are never as many invalid shares in a row as think looks at.       *)
InvalidShares == {y \in Hash : ~Valid(y)}
ShortRun == \A x \in Hash : Height(InvalidShares, x) < VerifyBatch

LEMMA StaysSettled ==
    ASSUME NEW S, NEW V, NEW W, V \subseteq W, NEW c
    PROVE  /\ Settled(S, V, c) => Settled(S, W, c)
           /\ Followed(S, V, c) => Followed(S, W, c)
BY DEF Settled, Followed

(* The state of the search below h after k shares.                          *)
Searched(S, st, h, k, s) ==
    /\ st.verified \subseteq s.verified
    /\ k > 0 => Settled(S, s.verified, h)
    /\ ~s.found => \A j \in 0..(k - 1) : ~Valid(Down(h, j))
    /\ AllFollowed(S, st) =>
         \A i \in DOMAIN s.bads :
            \/ Followed(S, s.verified, s.bads[i])
            \/ ~s.found /\ k > 0 /\ s.bads[i] = Down(h, k - 1)

LEMMA SearchStep ==
    ASSUME Shares, NEW S \in SUBSET Hash, NEW st \in Going(S), NEW h \in S,
           NEW k \in Nat, k > 0, k <= Height(S, h), NEW s \in Going(S),
           Checkable(S, Down(h, k - 1)), Searched(S, st, h, k - 1, s),
           k = 1 => ~s.found
    PROVE  Searched(S, st, h, k, Try(s, Down(h, k - 1)))
<1> DEFINE y == Down(h, k - 1)
           r == Try(s, y)
<1>1. IsLink(prev) /\ h \in Nodes /\ Height(S, h) \in Nat /\ s.bads \in Seq(Hash) /\ s.found \in BOOLEAN
  <2>1. IsLink(prev) /\ h \in Nodes
    BY HashTypes DEF Shares
  <2> QED
    BY <2>1, HeightType DEF Going, Run
<1>2. y \in S
  <2>1. k - 1 \in 0..Height(S, h) /\ k - 1 # Height(S, h)
    BY <1>1
  <2> QED
    BY <1>1, <2>1, DownFacts
<1>3. k > 1 => prev[Down(h, k - 2)] = y
  <2>1. k > 1 => /\ k - 2 \in 0..Height(S, h) /\ k - 2 # Height(S, h)
                 /\ k - 2 + 1 = k - 1
    BY <1>1
  <2> QED
    BY <1>1, <2>1, DownFacts
<1>4. k = 1 => y = h
  BY <1>1, DownFacts
<1>5. /\ r \in Going(S)
      /\ r.found = (s.found \/ Valid(y))
      /\ r.verified = IF ~s.found /\ Valid(y) THEN s.verified \cup {y} ELSE s.verified
      /\ r.bads = IF ~s.found /\ ~Valid(y) THEN Append(s.bads, y) ELSE s.bads
  BY <1>2, TryFacts
<1> HIDE DEF y, r
<1>6. s.verified \subseteq r.verified /\ st.verified \subseteq r.verified
  BY <1>5 DEF Searched
<1>7. Settled(S, r.verified, h)
  <2>1. CASE k = 1
    BY <1>4, <1>5, <2>1 DEF Settled
  <2>2. CASE k # 1
    <3>1. k - 1 > 0
      BY <2>2
    <3> QED
      BY <3>1, <1>6, StaysSettled DEF Searched
  <2> QED
    BY <2>1, <2>2
<1>8. ~r.found => /\ ~s.found /\ ~Valid(y) /\ \A j \in 0..(k - 1) : ~Valid(Down(h, j))
  <2> SUFFICES ASSUME ~r.found
               PROVE  /\ ~s.found /\ ~Valid(y)
                      /\ \A j \in 0..(k - 1) : ~Valid(Down(h, j))
    OBVIOUS
  <2>1. ~s.found /\ ~Valid(y)
    BY <1>5 DEF Valid
  <2>2. \A j \in 0..(k - 1 - 1) : ~Valid(Down(h, j))
    BY <2>1 DEF Searched
  <2>3. \A j \in 0..(k - 1) : j \in 0..(k - 1 - 1) \/ j = k - 1
    OBVIOUS
  <2> QED
    BY <2>1, <2>2, <2>3 DEF y
<1>9. ASSUME AllFollowed(S, st), NEW i \in DOMAIN r.bads
      PROVE  \/ Followed(S, r.verified, r.bads[i])
             \/ ~r.found /\ k > 0 /\ r.bads[i] = y
  <2>1. ASSUME NEW m \in DOMAIN s.bads
        PROVE  \/ Followed(S, r.verified, s.bads[m])
               \/ ~s.found /\ k > 1 /\ prev[s.bads[m]] = y
    <3>1. \/ Followed(S, s.verified, s.bads[m])
          \/ ~s.found /\ k - 1 > 0 /\ s.bads[m] = Down(h, k - 1 - 1)
      BY <1>9, <2>1 DEF Searched
    <3>2. k - 1 > 0 => k > 1 /\ k - 1 - 1 = k - 2
      OBVIOUS
    <3> QED
      BY <1>3, <1>6, <3>1, <3>2, StaysSettled
  <2>2. ~s.found => Settled(S, r.verified, y)
    BY <1>5 DEF Settled
  <2>3. ASSUME NEW m \in DOMAIN s.bads PROVE Followed(S, r.verified, s.bads[m])
    BY <2>1, <2>2 DEF Followed
  <2>4. CASE s.found \/ Valid(y)
    <3>1. r.bads = s.bads
      BY <1>5, <2>4
    <3> QED
      BY <2>3, <3>1
  <2>5. CASE ~(s.found \/ Valid(y))
    <3>1. r.bads = Append(s.bads, y)
      BY <1>5, <2>5
    <3>2. (i \in DOMAIN s.bads /\ r.bads[i] = s.bads[i]) \/ r.bads[i] = y
      BY <1>1, <3>1
    <3>3. ~r.found
      BY <1>5, <2>5
    <3> QED
      BY <2>3, <3>2, <3>3
  <2> QED
    BY <2>4, <2>5
<1> QED
  BY <1>6, <1>7, <1>8, <1>9 DEF Searched, r, y

(* What one round of the first loop achieves.                               *)
Improves(S, st, r) ==
    /\ r \in Going(S)
    /\ st.verified \subseteq r.verified
    /\ ShortRun /\ AllFollowed(S, st) => AllFollowed(S, r)

LEMMA HeadSearched ==
    ASSUME Shares, NEW S \in SUBSET Hash, NEW st \in Going(S), NEW h \in S
    PROVE  /\ Improves(S, st, VerifyFromHead(st, h))
           /\ Settled(S, VerifyFromHead(st, h).verified, h)
<1> DEFINE n == BatchOf(st, h)
           r == VerifyFromHead(st, h)
<1>1. PICK u : /\ Tries(u, S, h, n)
               /\ u[0] = [st EXCEPT !.found = FALSE]
               /\ r \in Going(S)
               /\ r.verified = u[n].verified
               /\ r.bads = u[n].bads
  BY VerifySteps
<1>2. /\ n \in Nat /\ n <= Height(S, h)
      /\ \A k \in 0..(n - 1) : Down(h, k) \in S /\ Checkable(S, Down(h, k))
      /\ Checkable(S, h) => n > 0
      /\ \/ n = VerifyBatch
         \/ ~Checkable(S, Down(h, n)) \/ Down(h, n) \notin S
  <2>1. st.items = S
    BY DEF Going
  <2> QED
    BY <2>1, BatchFacts
<1>3. IsLink(prev) /\ h \in Nodes /\ h \in Hash /\ Height(S, h) \in Nat
  <2>1. IsLink(prev) /\ h \in Nodes /\ h \in Hash
    BY HashTypes DEF Shares
  <2> QED
    BY <2>1, HeightType
<1> HIDE DEF n, r
<1>4. \A k \in 0..n : Searched(S, st, h, k, u[k])
  <2> DEFINE Q == {k \in 0..n : Searched(S, st, h, k, u[k])}
  <2>1. 0 \in Q
    <3> DEFINE s == u[0]
    <3>0. st \in Run
      BY DEF Going
    <3>1. s.verified = st.verified /\ s.bads = st.bads
      BY <1>1, <3>0 DEF Run
    <3> HIDE DEF s
    <3>2. \A j \in 0..(0 - 1) : FALSE
      OBVIOUS
    <3>3. Searched(S, st, h, 0, s)
      BY <3>1, <3>2 DEF Searched, AllFollowed
    <3> QED
      BY <1>2, <3>3 DEF s
  <2>2. ASSUME NEW k \in 1..n, k - 1 \in Q PROVE k \in Q
    <3> DEFINE s == u[k - 1]
    <3>1. k \in Nat /\ k > 0 /\ k <= Height(S, h) /\ k - 1 \in 0..(n - 1) /\ k - 1 \in 0..n /\ k \in 0..n
      BY <1>2, <1>3
    <3>2. s \in Going(S) /\ u[k] = Try(s, Down(h, k - 1))
      BY <1>1, <3>1 DEF Tries
    <3>3. Searched(S, st, h, k - 1, s)
      BY <2>2
    <3>4. k = 1 => ~s.found
      <4>1. st \in Run
        BY DEF Going
      <4>2. u[0].found = FALSE
        BY <1>1, <4>1 DEF Run
      <4>3. k = 1 => k - 1 = 0
        OBVIOUS
      <4> QED
        BY <4>2, <4>3
    <3>5. Checkable(S, Down(h, k - 1))
      BY <1>2, <3>1
    <3> HIDE DEF s
    <3>6. Searched(S, st, h, k, Try(s, Down(h, k - 1)))
      BY <3>1, <3>2, <3>3, <3>4, <3>5, SearchStep
    <3> QED
      BY <3>1, <3>2, <3>6
  <2>3. 0..n \subseteq Q
    <3> HIDE DEF Q
    <3> QED
      BY <1>2, <2>1, <2>2, StepByStep
  <2> QED
    BY <2>3
<1>5. Searched(S, st, h, n, u[n])
  BY <1>2, <1>4
<1>6. Settled(S, r.verified, h)
  <2>1. CASE n > 0
    BY <1>1, <1>5, <2>1 DEF Searched
  <2>2. CASE ~(n > 0)
    BY <1>2, <2>2 DEF Settled
  <2> QED
    BY <2>1, <2>2
<1>7. ASSUME ShortRun, AllFollowed(S, st) PROVE AllFollowed(S, r)
  <2>1. ASSUME ~u[n].found, n > 0
        PROVE  Followed(S, r.verified, Down(h, n - 1))
    <3>1. n - 1 \in 0..Height(S, h) /\ n - 1 # Height(S, h) /\ n - 1 + 1 = n
      BY <1>2, <1>3, <2>1
    <3>2. prev[Down(h, n - 1)] = Down(h, n)
      BY <1>3, <3>1, DownFacts
    <3>3. \A j \in 0..(n - 1) : Down(h, j) \in InvalidShares
      BY <1>2, <1>5, <2>1 DEF Searched, InvalidShares
    <3>4. n <= Height(InvalidShares, h)
      <4>1. InvalidShares \in SUBSET Hash
        BY DEF InvalidShares
      <4> QED
        BY <1>2, <1>3, <3>3, <4>1, StaysIn
    <3>5. n # VerifyBatch
      <4>1. InvalidShares \in SUBSET Hash
        BY DEF InvalidShares
      <4>2. Height(InvalidShares, h) \in Nat /\ Height(InvalidShares, h) < VerifyBatch
        BY <1>3, <1>7, <4>1, HeightType DEF ShortRun
      <4> QED
        BY <1>2, <3>4, <4>2, ConstantTypes
    <3> QED
      BY <1>2, <3>2, <3>5 DEF Followed, Settled
  <2> SUFFICES ASSUME NEW i \in DOMAIN r.bads PROVE Followed(S, r.verified, r.bads[i])
    BY DEF AllFollowed
  <2>2. \/ Followed(S, r.verified, r.bads[i])
        \/ ~u[n].found /\ n > 0 /\ r.bads[i] = Down(h, n - 1)
    BY <1>1, <1>5, <1>7 DEF Searched
  <2> QED
    BY <2>1, <2>2
<1>8. st.verified \subseteq r.verified
  BY <1>1, <1>5 DEF Searched
<1>9. Improves(S, st, r)
  BY <1>1, <1>7, <1>8 DEF Improves
<1> QED
  BY <1>6, <1>9 DEF r

LEMMA MaxIsIn ==
    ASSUME NEW n \in Nat, NEW t \in SUBSET (1..n), t # {}
    PROVE  Max(t) \in t
<1> DEFINE U == {n - x : x \in t}
<1>1. U \in SUBSET Nat /\ U # {}
  <2>1. \A x \in t : n - x \in Nat
    OBVIOUS
  <2>2. U \subseteq Nat
    BY <2>1
  <2> QED
    BY <2>2
<1>2. PICK m \in U : \A k \in U : m <= k
  <2> HIDE DEF U
  <2> QED
    BY <1>1, LeastElement
<1>3. PICK x \in t : m = n - x
  BY <1>2
<1>4. \A y \in t : x >= y
  <2> TAKE y \in t
  <2>1. n - x <= n - y
    BY <1>2, <1>3
  <2>2. x \in Nat /\ y \in Nat
    OBVIOUS
  <2> QED
    BY <2>1, <2>2
<1> QED
  BY <1>3, <1>4 DEF Max

(* The heads one after the other.                                           *)
VerifiedInTurn(u, st, order, n) ==
    u[0] = st /\ \A i \in 1..n : u[i] = VerifyFromHead(u[i - 1], order[i])

VerifyAll(st, order) == FoldLeft(VerifyFromHead, st, order)

LEMMA VerifyFold ==
    ASSUME NEW V, NEW st \in V, NEW order, NEW n \in Nat, DOMAIN order = 1..n,
           \A w \in V, i \in 1..n : VerifyFromHead(w, order[i]) \in V
    PROVE  \E u : VerifiedInTurn(u, st, order, n) /\ VerifyAll(st, order) = u[n]
<1> DEFINE op(w, h) == VerifyFromHead(w, h)
           D == SUBSET (1..n)
           R(it) == [t \in SUBSET DOMAIN order |->
                       IF t = {} THEN st ELSE LET x == Max(t) IN op(it[t \ {x}], order[x])]
           G == [i \in 1..n |-> [w \in V |-> op(w, order[i])]]
           fold == VerifyAll(st, order)
           it0 == CHOOSE it : it = R(it)
<1>1. fold = it0[DOMAIN order]
  <2> QED
    BY DEF op, VerifyAll, FoldLeft, MapThenFoldSet
<1>2. Stepping(G, n, V) /\ \A i \in 1..n, w \in V : G[i][w] = op(w, order[i])
  BY DEF Stepping, op
<1> HIDE DEF op, fold, G
<1>3. PICK it : Folding(it, st, G, n, V)
  BY <1>2, FoldExists
<1>4. it = R(it)
  <2>1. it = [t \in D |-> it[t]] /\ \A t \in D : it[t] \in V
    BY <1>3 DEF Folding
  <2>2. \A t \in D : it[t] = IF t = {} THEN st ELSE op(it[t \ {Max(t)}], order[Max(t)])
    <3> TAKE t \in D
    <3>1. CASE t = {}
      BY <1>3, <3>1 DEF Folding
    <3>2. CASE t # {}
      <4>1. Max(t) \in 1..n /\ t \ {Max(t)} \in D
        BY <3>2, MaxIsIn
      <4>2. it[t \ {Max(t)}] \in V
        BY <2>1, <4>1
      <4>3. it[t] = G[Max(t)][it[t \ {Max(t)}]]
        BY <1>3, <3>2 DEF Folding
      <4> QED
        BY <1>2, <3>2, <4>1, <4>2, <4>3
    <3> QED
      BY <3>1, <3>2
  <2> QED
    BY <2>1, <2>2
<1>5. it0 = R(it0)
  <2> HIDE DEF R
  <2> QED
    BY <1>4
<1> HIDE DEF it0
<1> DEFINE u == [i \in 0..n |-> it0[1..i]]
<1>6. u[0] = st
  <2>1. 1..0 = {} /\ {} \in D /\ 0 \in 0..n
    OBVIOUS
  <2> QED
    BY <1>5, <2>1
<1>7. \A i \in 1..n : u[i] = op(u[i - 1], order[i])
  <2> TAKE i \in 1..n
  <2>1. 1..i \in D /\ i \in 1..i /\ i \in Nat /\ i \in 0..n /\ i - 1 \in 0..n
    OBVIOUS
  <2>2. Max(1..i) = i
    BY <2>1, MaxIsLast
  <2>3. (1..i) \ {i} = 1..(i - 1)
    OBVIOUS
  <2>4. it0[1..i] = op(it0[1..(i - 1)], order[i])
    BY <1>5, <2>1, <2>2, <2>3
  <2> QED
    BY <2>1, <2>4
<1>8. fold = u[n]
  BY <1>1
<1> HIDE DEF u
<1>9. VerifiedInTurn(u, st, order, n)
  BY <1>6, <1>7 DEF VerifiedInTurn, op
<1> QED
  BY <1>8, <1>9 DEF fold

LEMMA HashesFinite == \A S \in SUBSET Hash : IsFiniteSet(S)
BY HashFinite, FS_Subset

(* Every order of a set names each of its members.                          *)
Orders(order, T, n) ==
    /\ DOMAIN order = 1..n
    /\ \A i \in 1..n : order[i] \in T
    /\ \A x \in T : \E i \in 1..n : order[i] = x

LEMMA OrderFacts ==
    ASSUME NEW T \in SUBSET Hash, NEW order \in SetToSeqs(T)
    PROVE  \E n \in Nat : Orders(order, T, n)
<1> DEFINE n == Cardinality(T)
<1>1. IsFiniteSet(T)
  BY HashesFinite
<1>2. n \in Nat
  BY <1>1, FS_CardinalityType
<1>3. order \in Injection(1..n, T)
  BY DEF SetToSeqs, Injection, IsInjective
<1>4. IsFiniteSet(1..n) /\ Cardinality(1..n) = n
  BY <1>2, FS_Interval
<1>5. order \in Surjection(1..n, T)
  BY <1>1, <1>3, <1>4, FS_Injection
<1> HIDE DEF n
<1>6. Orders(order, T, n)
  BY <1>5 DEF Surjection, Orders
<1> QED
  BY <1>2, <1>6

LEMMA ImprovesMore ==
    ASSUME NEW S, NEW a, NEW b, NEW c, Improves(S, a, b), Improves(S, b, c)
    PROVE  Improves(S, a, c)
BY DEF Improves

LEMMA HeadsSearched ==
    ASSUME Shares, NEW S \in SUBSET Hash, NEW st \in Going(S), NEW T \in SUBSET S,
           NEW s \in AnyOrder(VerifyFromHead, st, T)
    PROVE  /\ Improves(S, st, s)
           /\ \A h \in T : Settled(S, s.verified, h)
<1>1. PICK order \in SetToSeqs(T) : s = VerifyAll(st, order)
  BY DEF AnyOrder, VerifyAll
<1>2. PICK n \in Nat : Orders(order, T, n)
  BY <1>1, OrderFacts
<1>3. \A w \in Going(S), i \in 1..n : VerifyFromHead(w, order[i]) \in Going(S)
  <2> TAKE w \in Going(S), i \in 1..n
  <2>1. order[i] \in S
    BY <1>2 DEF Orders
  <2> QED
    BY <2>1, HeadSearched DEF Improves
<1>4. PICK u : VerifiedInTurn(u, st, order, n) /\ s = u[n]
  <2>1. DOMAIN order = 1..n
    BY <1>2 DEF Orders
  <2> QED
    BY <1>1, <1>3, <2>1, VerifyFold
<1> DEFINE Good(k) == /\ Improves(S, st, u[k])
                      /\ \A i \in 1..k : Settled(S, u[k].verified, order[i])
           Q == {k \in 0..n : Good(k)}
<1>5. 0 \in Q
  <2>1. Improves(S, st, st) /\ \A i \in 1..0 : FALSE
    BY DEF Improves
  <2> QED
    BY <1>4, <2>1 DEF VerifiedInTurn
<1>6. ASSUME NEW k \in 1..n, k - 1 \in Q PROVE k \in Q
  <2> DEFINE w == u[k - 1]
             h == order[k]
  <2>1. /\ k \in Nat /\ k \in 0..n /\ w \in Going(S) /\ Improves(S, st, w) /\ h \in S
        /\ \A i \in 1..(k - 1) : Settled(S, w.verified, order[i])
        /\ u[k] = VerifyFromHead(w, h)
    BY <1>2, <1>4, <1>6 DEF Improves, VerifiedInTurn, Orders
  <2> HIDE DEF w
  <2>2. Improves(S, w, u[k]) /\ Settled(S, u[k].verified, h)
    <3> HIDE DEF h
    <3> QED
      BY <2>1, HeadSearched
  <2>3. Improves(S, st, u[k])
    BY <2>1, <2>2, ImprovesMore
  <2>4. \A i \in 1..k : i \in 1..(k - 1) \/ i = k
    BY <2>1
  <2>5. \A i \in 1..k : Settled(S, u[k].verified, order[i])
    BY <2>1, <2>2, <2>4, StaysSettled DEF Improves
  <2> QED
    BY <2>1, <2>3, <2>5
<1>7. 0..n \subseteq Q
  <2> HIDE DEF Q
  <2> QED
    BY <1>5, <1>6, StepByStep
<1>8. Good(n)
  BY <1>7
<1> QED
  BY <1>2, <1>4, <1>8 DEF Orders

-----------------------------------------------------------------------------
(* think, second loop.                                                      *)
(* The bad shares one after the other.                                      *)
RemovedInTurn(u, st, order, n) ==
    u[0] = st /\ \A i \in 1..n : u[i] = RemoveBad(u[i - 1], order[i])

RemoveAll(st, order) == FoldLeft(RemoveBad, st, order)

LEMMA RemoveFold ==
    ASSUME NEW V, NEW st \in V, NEW order, NEW n \in Nat, DOMAIN order = 1..n,
           \A w \in V, i \in 1..n : RemoveBad(w, order[i]) \in V
    PROVE  \E u : RemovedInTurn(u, st, order, n) /\ RemoveAll(st, order) = u[n]
<1> DEFINE op(w, h) == RemoveBad(w, h)
           D == SUBSET (1..n)
           R(it) == [t \in SUBSET DOMAIN order |->
                       IF t = {} THEN st ELSE LET x == Max(t) IN op(it[t \ {x}], order[x])]
           G == [i \in 1..n |-> [w \in V |-> op(w, order[i])]]
           fold == RemoveAll(st, order)
           it0 == CHOOSE it : it = R(it)
<1>1. fold = it0[DOMAIN order]
  <2> QED
    BY DEF op, RemoveAll, FoldLeft, MapThenFoldSet
<1>2. Stepping(G, n, V) /\ \A i \in 1..n, w \in V : G[i][w] = op(w, order[i])
  BY DEF Stepping, op
<1> HIDE DEF op, fold, G
<1>3. PICK it : Folding(it, st, G, n, V)
  BY <1>2, FoldExists
<1>4. it = R(it)
  <2>1. it = [t \in D |-> it[t]] /\ \A t \in D : it[t] \in V
    BY <1>3 DEF Folding
  <2>2. \A t \in D : it[t] = IF t = {} THEN st ELSE op(it[t \ {Max(t)}], order[Max(t)])
    <3> TAKE t \in D
    <3>1. CASE t = {}
      BY <1>3, <3>1 DEF Folding
    <3>2. CASE t # {}
      <4>1. Max(t) \in 1..n /\ t \ {Max(t)} \in D
        BY <3>2, MaxIsIn
      <4>2. it[t \ {Max(t)}] \in V
        BY <2>1, <4>1
      <4>3. it[t] = G[Max(t)][it[t \ {Max(t)}]]
        BY <1>3, <3>2 DEF Folding
      <4> QED
        BY <1>2, <3>2, <4>1, <4>2, <4>3
    <3> QED
      BY <3>1, <3>2
  <2> QED
    BY <2>1, <2>2
<1>5. it0 = R(it0)
  <2> HIDE DEF R
  <2> QED
    BY <1>4
<1> HIDE DEF it0
<1> DEFINE u == [i \in 0..n |-> it0[1..i]]
<1>6. u[0] = st
  <2>1. 1..0 = {} /\ {} \in D /\ 0 \in 0..n
    OBVIOUS
  <2> QED
    BY <1>5, <2>1
<1>7. \A i \in 1..n : u[i] = op(u[i - 1], order[i])
  <2> TAKE i \in 1..n
  <2>1. 1..i \in D /\ i \in 1..i /\ i \in Nat /\ i \in 0..n /\ i - 1 \in 0..n
    OBVIOUS
  <2>2. Max(1..i) = i
    BY <2>1, MaxIsLast
  <2>3. (1..i) \ {i} = 1..(i - 1)
    OBVIOUS
  <2>4. it0[1..i] = op(it0[1..(i - 1)], order[i])
    BY <1>5, <2>1, <2>2, <2>3
  <2> QED
    BY <2>1, <2>4
<1>8. fold = u[n]
  BY <1>1
<1> HIDE DEF u
<1>9. RemovedInTurn(u, st, order, n)
  BY <1>6, <1>7 DEF RemovedInTurn, op
<1> QED
  BY <1>8, <1>9 DEF fold

(* What removing bad shares leaves.                                         *)
Clears(s, r) ==
    /\ r \in Run /\ Trusted(r) /\ r.failed # "AssertionError"
    /\ r.verified = s.verified /\ r.bads = s.bads /\ r.best = s.best
    /\ r.items \subseteq s.items
    /\ \A x \in s.items \ r.items : \E i \in DOMAIN s.bads : s.bads[i] = x

LEMMA RemoveType == \A w \in Run, h \in Hash : RemoveBad(w, h) \in Run
<1> TAKE w \in Run, h \in Hash
<1> DEFINE f == Forget(w.naughty, {h})
<1>1. f \in [Hash -> Nat]
  BY DEF Forget, Run
<1> HIDE DEF f
<1> DEFINE r == RemoveBad(w, h)
           b == w.blamed \cup {h}
           c == w.items \ {h}
<1>2. \/ r = w
      \/ r = [w EXCEPT !.failed = "AssertionError"]
      \/ r = [w EXCEPT !.failed = "KeyError"]
      \/ r = [w EXCEPT !.blamed = b]
      \/ r = [w EXCEPT !.blamed = b, !.items = c, !.naughty = f]
  BY DEF RemoveBad, f
<1>3. b \in SUBSET Hash /\ c \in SUBSET Hash
  BY DEF Run
<1> SUFFICES r \in Run
  OBVIOUS
<1> HIDE DEF r, b, c
<1>4. CASE r = [w EXCEPT !.blamed = b, !.items = c, !.naughty = f]
  BY <1>1, <1>3, <1>4 DEF Run
<1>5. CASE r = [w EXCEPT !.blamed = b]
  BY <1>3, <1>5 DEF Run
<1>6. CASE r = [w EXCEPT !.failed = "AssertionError"] \/ r = [w EXCEPT !.failed = "KeyError"]
  BY <1>6 DEF Run, Outcome
<1> QED
  BY <1>2, <1>4, <1>5, <1>6

LEMMA RemoveStep ==
    ASSUME NEW s, NEW w, Clears(s, w), NEW i \in DOMAIN s.bads
    PROVE  Clears(s, RemoveBad(w, s.bads[i]))
<1> DEFINE h == s.bads[i]
           r == RemoveBad(w, h)
           f == Forget(w.naughty, {h})
<1>1. /\ w \in Run /\ Trusted(w) /\ w.failed # "AssertionError" /\ h \in Hash
      /\ h \notin w.verified /\ ~Valid(h) /\ s.bads = w.bads
  BY DEF Clears, Run, Trusted
<1>2. r \in Run
  BY <1>1, RemoveType
<1>3. f \in [Hash -> Nat]
  BY <1>1 DEF Forget, Run
<1>4. \/ r = w
      \/ r = [w EXCEPT !.failed = "KeyError"]
      \/ r = [w EXCEPT !.blamed = @ \cup {h}]
      \/ r = [w EXCEPT !.blamed = @ \cup {h}, !.items = @ \ {h}, !.naughty = f]
  BY <1>1 DEF RemoveBad
<1> HIDE DEF f, r
<1>5. /\ r.verified = w.verified /\ r.bads = w.bads /\ r.best = w.best
      /\ r.failed # "AssertionError"
      /\ (r.items = w.items) \/ (r.items = w.items \ {h})
      /\ (r.blamed = w.blamed) \/ (r.blamed = w.blamed \cup {h})
  BY <1>1, <1>4 DEF Run
<1>6. Trusted(r)
  BY <1>1, <1>5 DEF Trusted
<1>7. r.items \subseteq s.items
  BY <1>5 DEF Clears
<1>8. \A x \in s.items \ r.items : \E j \in DOMAIN s.bads : s.bads[j] = x
  BY <1>5 DEF Clears
<1> QED
  BY <1>2, <1>5, <1>6, <1>7, <1>8 DEF Clears, r

LEMMA BadsRemoved ==
    ASSUME NEW S, NEW s \in Going(S)
    PROVE  Clears(s, RemoveAll(s, s.bads))
<1>1. /\ s \in Run /\ s.bads \in Seq(Hash) /\ Trusted(s) /\ s.failed = "no"
  BY DEF Going, Run
<1>2. PICK n \in Nat : DOMAIN s.bads = 1..n
  BY <1>1
<1>3. \A w \in Run, i \in 1..n : RemoveBad(w, s.bads[i]) \in Run
  <2> TAKE w \in Run, i \in 1..n
  <2>1. s.bads[i] \in Hash
    BY <1>1, <1>2
  <2> QED
    BY <2>1, RemoveType
<1>4. PICK u : RemovedInTurn(u, s, s.bads, n) /\ RemoveAll(s, s.bads) = u[n]
  <2> DEFINE order == s.bads
  <2> HIDE DEF order
  <2>1. DOMAIN order = 1..n /\ \A w \in Run, i \in 1..n : RemoveBad(w, order[i]) \in Run
    BY <1>2, <1>3 DEF order
  <2>2. \E u : RemovedInTurn(u, s, order, n) /\ RemoveAll(s, order) = u[n]
    BY <1>1, <2>1, RemoveFold
  <2> QED
    BY <2>2 DEF order
<1> DEFINE Q == {k \in 0..n : Clears(s, u[k])}
<1>5. 0 \in Q
  <2>1. Clears(s, s)
    BY <1>1 DEF Clears
  <2> QED
    BY <1>4, <2>1 DEF RemovedInTurn
<1>6. ASSUME NEW k \in 1..n, k - 1 \in Q PROVE k \in Q
  <2>1. k \in 0..n /\ k \in DOMAIN s.bads /\ u[k] = RemoveBad(u[k - 1], s.bads[k])
    BY <1>2, <1>4 DEF RemovedInTurn
  <2>2. Clears(s, u[k - 1])
    BY <1>6
  <2> QED
    BY <2>1, <2>2, RemoveStep
<1>7. 0..n \subseteq Q
  <2> HIDE DEF Q
  <2> QED
    BY <1>5, <1>6, StepByStep
<1> QED
  BY <1>4, <1>7

HeadsSettled(S, V) == \A y \in LeavesOf(S) : Settled(S, V, y)

(* What need not be looked at stays so when items go.                       *)
LEMMA FewerItems ==
    ASSUME Shares, NEW S \in SUBSET Hash, NEW I \in SUBSET S, NEW V, NEW y \in I,
           Settled(S, V, y)
    PROVE  Settled(I, V, y)
<1>1. IsLink(prev) /\ y \in Nodes /\ I \in SUBSET Hash
  BY HashTypes DEF Shares
<1>2. /\ TailOf(S, TailOf(I, y)) = TailOf(S, y) /\ Height(I, y) <= Height(S, y)
      /\ Height(I, y) \in Nat /\ Height(S, y) \in Nat
  BY <1>1, WalkOn, HeightType
<1>3. TailOf(I, y) = None => TailOf(S, y) = None
  <2>1. None \in Nodes /\ None \notin S
    BY NAssumption DEF None, Nodes, Hash
  <2>2. TailOf(S, None) = None
    BY <1>1, <2>1, TailFacts
  <2> QED
    BY <1>2, <2>2
<1>4. Height(I, y) > CHAIN_LENGTH => Height(S, y) > CHAIN_LENGTH
  BY <1>2, ConstantTypes
<1> QED
  BY <1>3, <1>4 DEF Settled, Checkable

LEMMA NothingOverlooked ==
    ASSUME Shares, ShortRun, NEW S \in SUBSET Hash, NEW st \in Going(S), AllFollowed(S, st),
           NEW s \in AnyOrder(VerifyFromHead, st, LeavesOf(S) \ LeavesOf(st.verified)),
           NEW r, Clears(s, r)
    PROVE  HeadsSettled(r.items, r.verified)
<1> DEFINE T == LeavesOf(S) \ LeavesOf(st.verified)
           I == r.items
           V == r.verified
<1>1. T \in SUBSET S
  BY DEF LeavesOf
<1>2. Improves(S, st, s) /\ \A h \in T : Settled(S, s.verified, h)
  BY <1>1, HeadsSearched
<1>3. s.items = S /\ st.verified \subseteq s.verified /\ AllFollowed(S, s)
  BY <1>2 DEF Improves, Going
<1>4. V = s.verified /\ I \subseteq S
  BY <1>3 DEF Clears
<1> SUFFICES ASSUME NEW y \in LeavesOf(I) PROVE Settled(I, V, y)
  BY DEF HeadsSettled
<1>5. y \in I /\ y \in S /\ \A z \in I : prev[z] # y
  BY <1>4 DEF LeavesOf
<1>6. Settled(S, V, y)
  <2>1. CASE y \in T
    BY <1>2, <1>4, <2>1
  <2>2. CASE y \in LeavesOf(st.verified)
    <3>1. y \in V
      BY <1>3, <1>4, <2>2 DEF LeavesOf
    <3> QED
      BY <3>1 DEF Settled
  <2>3. CASE y \notin LeavesOf(S)
    <3>1. PICK z \in S : prev[z] = y
      BY <1>5, <2>3 DEF LeavesOf
    <3>2. PICK i \in DOMAIN s.bads : s.bads[i] = z
      BY <1>3, <1>5, <3>1 DEF Clears
    <3>3. Followed(S, s.verified, z)
      BY <1>3, <3>2 DEF AllFollowed
    <3> QED
      BY <1>4, <1>5, <3>1, <3>3 DEF Followed
  <2> QED
    BY <2>1, <2>2, <2>3
<1> HIDE DEF I, V
<1> QED
  BY <1>4, <1>5, <1>6, FewerItems

-----------------------------------------------------------------------------
(* think, third loop.                                                       *)

(* High enough for the share below to be checked as well.                   *)
Deep(S, y) == Height(S, y) > CHAIN_LENGTH + 1 \/ TailOf(S, y) = None

LEMMA ReachFacts ==
    ASSUME Shares, NEW S \in SUBSET Hash, NEW st, st.items = S, NEW height \in Nat,
           NEW last \in Nodes
    PROVE  LET n == Reach(st, height, last) IN
           /\ n \in Nat /\ n <= Height(S, last)
           /\ \A k \in 0..(n - 1) : Down(last, k) \in S /\ Deep(S, Down(last, k))
           /\ \/ height + n >= CHAIN_LENGTH
              \/ TailOf(S, last) = None /\ n = Height(S, last)
              \/ TailOf(S, last) # None
<1> DEFINE n == Reach(st, height, last)
           H == Height(S, last)
           t == TailOf(S, last)
<1>1. IsLink(prev) /\ H \in Nat
  <2>1. IsLink(prev)
    BY DEF Shares
  <2> QED
    BY <2>1, HeightType
<1>2. n = LeastOf(MostOf(CHAIN_LENGTH - height, 0),
                  IF t = None THEN H ELSE MostOf(H - 1 - CHAIN_LENGTH, 0))
  BY DEF Reach
<1>3. \A k \in 0..H : /\ Height(S, Down(last, k)) = H - k
                      /\ TailOf(S, Down(last, k)) = t
                      /\ k # H => Down(last, k) \in S
  BY <1>1, DownFacts
<1> HIDE DEF n, H, t
<1>4. /\ n \in Nat /\ n <= H
      /\ t # None /\ n > 0 => H - n >= CHAIN_LENGTH + 1
      /\ \/ height + n >= CHAIN_LENGTH
         \/ t = None /\ n = H
         \/ t # None
  BY <1>1, <1>2, ConstantTypes DEF LeastOf, MostOf
<1>5. ASSUME NEW k \in 0..(n - 1) PROVE Down(last, k) \in S /\ Deep(S, Down(last, k))
  <2>1. k \in Nat /\ k \in 0..H /\ k # H /\ k < n /\ n > 0
    BY <1>1, <1>4
  <2>2. t # None => H - k > CHAIN_LENGTH + 1
    BY <1>1, <1>4, <2>1, ConstantTypes
  <2> QED
    BY <1>3, <2>1, <2>2 DEF Deep
<1> QED
  BY <1>4, <1>5 DEF n, H, t

(* One step down from the end of a verified chain.                          *)
Probe(s, y) == IF ~s.found THEN s ELSE attempt_verify(s, y)

Probes(u, S, last, n) ==
    /\ u \in [0..n -> Going(S)]
    /\ \A k \in 1..n : u[k] = Probe(u[k - 1], Down(last, k - 1))

LEMMA DeepCheckable ==
    ASSUME Shares, NEW S \in SUBSET Hash, NEW y \in S, Deep(S, y)
    PROVE  Checkable(S, y)
<1>1. Height(S, y) \in Nat
  BY HashTypes, HeightType DEF Shares
<1> QED
  BY <1>1, ConstantTypes DEF Deep, Checkable

Probed(s, y, r) ==
    /\ ~s.found => r = s
    /\ s.found => /\ r.found = Valid(y)
                  /\ r.desired = s.desired
                  /\ r.verified = IF Valid(y) THEN s.verified \cup {y} ELSE s.verified

LEMMA ProbeFacts ==
    ASSUME Shares, NEW S \in SUBSET Hash, NEW s \in Going(S), NEW y \in S, Deep(S, y)
    PROVE  Probe(s, y) \in Going(S) /\ Probed(s, y, Probe(s, y))
<1>1. Checkable(S, y)
  BY DeepCheckable
<1>2. LET r == attempt_verify(s, y) IN
      /\ r \in Going(S)
      /\ r.found = Valid(y) /\ r.desired = s.desired
      /\ r.verified = IF Valid(y) THEN s.verified \cup {y} ELSE s.verified
  BY <1>1, AttemptFacts
<1> QED
  BY <1>2 DEF Probe, Probed

LEMMA ExtendSteps ==
    ASSUME Shares, NEW S \in SUBSET Hash, NEW st \in Going(S), NEW h \in st.verified,
           NEW last, last = TailOf(st.verified, h),
           NEW n, n = Reach(st, Height(st.verified, h), last)
    PROVE  \E u : /\ Probes(u, S, last, n)
                  /\ u[0] = [st EXCEPT !.found = TRUE]
                  /\ ExtendHead(st, h) \in Going(S)
                  /\ ExtendHead(st, h).verified = u[n].verified
                  /\ ExtendHead(st, h).desired =
                       u[n].desired \cup Lacking(st, Height(st.verified, h), last)
<1> DEFINE b == [st EXCEPT !.found = TRUE]
           V == Going(S)
           G == [k \in 1..n |-> [s \in V |-> Probe(s, Down(last, k - 1))]]
           R(g) == [k \in 0..n |->
                      IF k = 0 THEN b
                      ELSE IF ~g[k - 1].found THEN g[k - 1]
                      ELSE attempt_verify(g[k - 1], Down(last, k - 1))]
           at0 == CHOOSE g : g = R(g)
           r == ExtendHead(st, h)
           more == Lacking(st, Height(st.verified, h), last)
<1>0. /\ st \in Run /\ Trusted(st) /\ st.failed = "no" /\ st.items = S /\ st.best = None
      /\ st.verified \in SUBSET Hash /\ h \in Nodes /\ IsLink(prev)
  BY HashTypes DEF Going, Run, Trusted, Shares
<1>1. last \in Nodes /\ Height(st.verified, h) \in Nat
  BY <1>0, TailFacts, HeightType
<1>2. n \in Nat /\ \A k \in 1..n : Down(last, k - 1) \in S /\ Deep(S, Down(last, k - 1))
  <2>1. n \in Nat /\ \A k \in 0..(n - 1) : Down(last, k) \in S /\ Deep(S, Down(last, k))
    BY <1>0, <1>1, ReachFacts
  <2>2. \A k \in 1..n : k - 1 \in 0..(n - 1)
    BY <2>1
  <2> QED
    BY <2>1, <2>2
<1>3. r = [at0[n] EXCEPT !.desired = @ \cup more]
  BY DEF ExtendHead
<1>4. b \in V
  <2>1. /\ b \in Run /\ b.failed = "no" /\ b.items = S /\ b.best = None
        /\ b.verified = st.verified /\ b.bads = st.bads /\ b.blamed = st.blamed
    BY <1>0 DEF Run
  <2> HIDE DEF b
  <2>2. Trusted(b)
    BY <1>0, <2>1 DEF Trusted
  <2> QED
    BY <2>1, <2>2 DEF Going
<1>20. more \in SUBSET Nodes
  BY <1>0, <1>1, TailFacts DEF Lacking
<1> HIDE DEF r, b, more
<1>5. \A k \in 1..n : \A s \in V : Probe(s, Down(last, k - 1)) \in V
  BY <1>2, ProbeFacts
<1> HIDE DEF V
<1>6. Stepping(G, n, V)
  BY <1>5 DEF Stepping
<1>7. \A k \in 1..n : \A s \in V : G[k][s] = Probe(s, Down(last, k - 1))
  OBVIOUS
<1> HIDE DEF G
<1>8. PICK u \in [0..n -> V] : u[0] = b /\ \A k \in 1..n : u[k] = G[k][u[k - 1]]
  <2>1. \E s : Iterates(s, b, G, n, V)
    BY <1>2, <1>4, <1>6, IterationExists
  <2> QED
    BY <2>1 DEF Iterates
<1>9. \A k \in 1..n : k - 1 \in 0..n /\ k \in 0..n /\ u[k] = Probe(u[k - 1], Down(last, k - 1))
  BY <1>2, <1>7, <1>8
<1>10. u = R(u)
  <2>1. \A k \in 0..n : k # 0 => k \in 1..n
    BY <1>2
  <2>2. \A k \in 0..n : u[k] = R(u)[k]
    BY <1>8, <1>9, <2>1 DEF Probe
  <2> QED
    BY <1>8, <2>2
<1>11. at0 = R(at0)
  <2> HIDE DEF R
  <2> QED
    BY <1>10
<1> HIDE DEF at0
<1>12. at0[n] = u[n]
  <2> DEFINE Q == {k \in 0..n : at0[k] = u[k]}
  <2>1. 0 \in Q
    BY <1>2, <1>8, <1>11
  <2>2. ASSUME NEW k \in 1..n, k - 1 \in Q PROVE k \in Q
    <3>1. /\ k \in 0..n /\ k # 0
          /\ at0[k] = Probe(at0[k - 1], Down(last, k - 1))
      BY <1>9, <1>11 DEF Probe
    <3>2. at0[k - 1] = u[k - 1]
      BY <2>2
    <3> QED
      BY <1>9, <3>1, <3>2
  <2>3. 0..n \subseteq Q
    <3> HIDE DEF Q
    <3> QED
      BY <1>2, <2>1, <2>2, StepByStep
  <2> QED
    BY <1>2, <2>3
<1>14. r \in Going(S) /\ r.verified = u[n].verified /\ r.desired = u[n].desired \cup more
  <2> DEFINE w == u[n]
             d == w.desired \cup more
  <2>1. w \in Going(S)
    BY <1>2, <1>8 DEF V
  <2>2. r = [w EXCEPT !.desired = d]
    BY <1>3, <1>12
  <2> HIDE DEF w
  <2>3. w \in Run /\ Trusted(w) /\ w.failed = "no" /\ w.items = S /\ w.best = None
    BY <2>1 DEF Going
  <2>4. d \in SUBSET Nodes
    BY <1>20, <2>3 DEF Run
  <2> HIDE DEF d
  <2>5. /\ r \in Run /\ r.failed = "no" /\ r.items = S /\ r.best = None
        /\ r.verified = w.verified /\ r.bads = w.bads /\ r.blamed = w.blamed
        /\ r.desired = d
    BY <2>2, <2>3, <2>4 DEF Run
  <2>6. Trusted(r)
    BY <2>3, <2>5 DEF Trusted
  <2> QED
    BY <2>5, <2>6 DEF Going, w, d
<1>15. Probes(u, S, last, n)
  BY <1>8, <1>9 DEF Probes, V
<1> QED
  BY <1>8, <1>14, <1>15 DEF r, b, more

(* What WindowVerified says of a head, for the items S, the requested       *)
(* shares D and the verified shares V.                                      *)
Windowed(S, D, V, h) ==
    LET last == TailOf(V, h)
    IN \/ Height(V, h) >= CHAIN_LENGTH
       \/ last = None
       \/ last \in Hash /\ kind[last] = "invalid"
       \/ TailOf(S, last) \in D \ {None}

(* A share that is verified below a head takes nothing from its window.     *)
LEMMA WindowStays ==
    ASSUME Shares, NEW S \in SUBSET Hash, NEW V \in SUBSET S, NEW y \in S, Valid(y), NEW D,
           NEW h \in V, Windowed(S, D, V, h)
    PROVE  Windowed(S, D, V \cup {y}, h)
<1> DEFINE W == V \cup {y}
           last == TailOf(V, h)
           end == TailOf(W, h)
<1>1. /\ IsLink(prev) /\ h \in Nodes /\ y \in Hash /\ y # None
      /\ V \in SUBSET Hash /\ W \in SUBSET Hash /\ V \in SUBSET W
      /\ V \in SUBSET S /\ W \in SUBSET S
  BY HashTypes, NAssumption DEF Shares, None, Hash
<1>2. last \in Nodes /\ last \notin V /\ Height(V, h) \in Nat
  BY <1>1, TailFacts, HeightType
<1> HIDE DEF W, last, end
<1>3. TailOf(W, last) = end /\ Height(W, h) = Height(V, h) + Height(W, last)
  BY <1>1, WalkOn DEF last, end
<1>4. CASE last # y
  <2>1. last \notin W
    BY <1>2, <1>4 DEF W
  <2>2. TailOf(W, last) = last /\ Height(W, last) = 0
    BY <1>1, <1>2, <2>1, TailFacts, HeightType
  <2>3. end = last /\ Height(W, h) = Height(V, h)
    BY <1>2, <1>3, <2>2
  <2> QED
    BY <2>3 DEF Windowed, last, end, W
<1>5. CASE last = y
  <2>1. TailOf(S, end) = TailOf(S, h) /\ TailOf(S, last) = TailOf(S, h)
    BY <1>1, WalkOn DEF last, end
  <2>2. Height(V, h) >= CHAIN_LENGTH \/ TailOf(S, last) \in D \ {None}
    BY <1>1, <1>5 DEF Windowed, Valid, last
  <2>3. CASE Height(V, h) >= CHAIN_LENGTH
    <3>1. Height(W, last) \in Nat
      BY <1>1, <1>2, HeightType
    <3>2. Height(W, h) >= CHAIN_LENGTH
      BY <1>2, <1>3, <2>3, <3>1, ConstantTypes
    <3> QED
      BY <3>2 DEF Windowed, W
  <2>4. CASE TailOf(S, last) \in D \ {None}
    BY <2>1, <2>4 DEF Windowed, end, W
  <2> QED
    BY <2>2, <2>3, <2>4
<1> QED
  BY <1>4, <1>5

LEMMA WindowAsked ==
    ASSUME NEW S, NEW D, NEW E, D \subseteq E, NEW V, NEW h, Windowed(S, D, V, h)
    PROVE  Windowed(S, E, V, h)
BY DEF Windowed

(* What the third loop does to what is verified.                            *)
Extends(S, st, r) ==
    /\ r \in Going(S)
    /\ st.verified \subseteq r.verified
    /\ LeavesOf(r.verified) \subseteq LeavesOf(st.verified)
    /\ \A h \in st.verified :
          Windowed(S, st.desired, st.verified, h) => Windowed(S, r.desired, r.verified, h)

LEMMA ExtendsMore ==
    ASSUME NEW S, NEW a, NEW b, NEW c, Extends(S, a, b), Extends(S, b, c)
    PROVE  Extends(S, a, c)
BY DEF Extends

LEMMA ExtendsNone == \A S : \A s \in Going(S) : Extends(S, s, s)
BY DEF Extends

LEMMA ProbeExtends ==
    ASSUME Shares, NEW S \in SUBSET Hash, NEW s \in Going(S), NEW y \in S, Deep(S, y),
           s.found => \E z \in s.verified : prev[z] = y
    PROVE  Extends(S, s, Probe(s, y))
<1> DEFINE V == s.verified
           r == Probe(s, y)
<1>1. /\ r \in Going(S)
      /\ ~s.found => r = s
      /\ s.found => /\ r.found = Valid(y)
                    /\ r.desired = s.desired
                    /\ r.verified = IF Valid(y) THEN V \cup {y} ELSE V
  BY ProbeFacts DEF Probed
<1>5. r.desired = s.desired
  BY <1>1
<1>2. V \in SUBSET S
  BY DEF Going, Trusted
<1> HIDE DEF V, r
<1>3. CASE r.verified = V
  BY <1>1, <1>3, <1>5 DEF Extends, V, r
<1>4. CASE s.found /\ Valid(y) /\ r.verified = V \cup {y}
  <2>1. LeavesOf(r.verified) \subseteq LeavesOf(V)
    <3>1. PICK z \in V : prev[z] = y
      BY <1>4 DEF V
    <3> QED
      BY <1>4, <3>1 DEF LeavesOf
  <2>2. \A h \in V : Windowed(S, s.desired, V, h) => Windowed(S, s.desired, r.verified, h)
    BY <1>2, <1>4, WindowStays
  <2>3. V \subseteq r.verified
    BY <1>4
  <2> QED
    BY <1>1, <1>5, <2>1, <2>2, <2>3 DEF Extends, V, r
<1> QED
  BY <1>1, <1>3, <1>4 DEF V

(* The window below h once n shares below it were tried: all are verified,  *)
(* or all above an invalid one.                                             *)
AllFound(V, last, n) == \A j \in 0..(n - 1) : Down(last, j) \in V
StoppedAtBad(V, last, n) ==
    \E i \in 0..(n - 1) : ~Valid(Down(last, i)) /\ AllFound(V, last, i)

LEMMA WindowReached ==
    ASSUME Shares, NEW S \in SUBSET Hash, NEW V \in SUBSET S, NEW B \in SUBSET V,
           \A x \in V : Valid(x), NEW h \in B, NEW st, st.items = S,
           NEW last, last = TailOf(B, h), NEW n, n = Reach(st, Height(B, h), last),
           NEW D, Lacking(st, Height(B, h), last) \subseteq D,
           AllFound(V, last, n) \/ StoppedAtBad(V, last, n)
    PROVE  Windowed(S, D, V, h)
<1> DEFINE m == Height(V, last)
           end == TailOf(V, last)
<1>1. /\ IsLink(prev) /\ h \in Nodes /\ V \in SUBSET Hash /\ B \in SUBSET Hash
      /\ last \in Nodes /\ Height(B, h) \in Nat
  <2>1. IsLink(prev) /\ h \in Nodes /\ V \in SUBSET Hash /\ B \in SUBSET Hash
    BY HashTypes DEF Shares
  <2> QED
    BY <2>1, TailFacts, HeightType
<1>2. /\ n \in Nat /\ n <= Height(S, last)
      /\ \A k \in 0..(n - 1) : Down(last, k) \in S
      /\ \/ Height(B, h) + n >= CHAIN_LENGTH
         \/ TailOf(S, last) = None /\ n = Height(S, last)
         \/ TailOf(S, last) # None
  BY <1>1, ReachFacts
<1>3. /\ TailOf(V, h) = end /\ Height(V, h) = Height(B, h) + m
      /\ m <= Height(S, last) /\ m \in Nat /\ Height(S, last) \in Nat
      /\ Height(V, h) \in Nat
  BY <1>1, WalkOn, HeightType
<1>4. Down(last, m) = end /\ \A k \in 0..m : k # m => Down(last, k) \in V
  BY <1>1, DownFacts
<1>5. /\ Height(S, end) = Height(S, last) - m
      /\ TailOf(S, end) = TailOf(S, last)
  BY <1>1, <1>3, WalkOn, HeightType, TailFacts
<1> HIDE DEF m, end
<1>6. CASE AllFound(V, last, n)
  <2>1. n <= m
    BY <1>1, <1>2, <1>6, StaysIn DEF AllFound, m
  <2>2. CASE Height(B, h) + n >= CHAIN_LENGTH
    <3>1. Height(V, h) >= CHAIN_LENGTH
      BY <1>1, <1>2, <1>3, <2>1, <2>2, ConstantTypes
    <3> QED
      BY <3>1 DEF Windowed
  <2>3. CASE TailOf(S, last) = None /\ n = Height(S, last)
    <3>1. m = Height(S, last)
      BY <1>2, <1>3, <2>1, <2>3
    <3>2. end = TailOf(S, last)
      BY <1>1, <1>4, <3>1, DownFacts
    <3> QED
      BY <1>3, <2>3, <3>2 DEF Windowed
  <2>4. CASE TailOf(S, last) # None
    <3>1. CASE Height(B, h) >= CHAIN_LENGTH
      <4>1. Height(V, h) >= CHAIN_LENGTH
        BY <1>1, <1>3, <3>1, ConstantTypes
      <4> QED
        BY <4>1 DEF Windowed
    <3>2. CASE ~(Height(B, h) >= CHAIN_LENGTH)
      <4>1. Height(B, h) < CHAIN_LENGTH
        BY <1>1, <3>2, ConstantTypes
      <4>2. TailOf(S, last) \in D \ {None}
        BY <2>4, <4>1 DEF Lacking
      <4> QED
        BY <1>3, <1>5, <4>2 DEF Windowed
    <3> QED
      BY <3>1, <3>2
  <2> QED
    BY <1>2, <2>2, <2>3, <2>4
<1>7. CASE StoppedAtBad(V, last, n)
  <2>1. PICK i \in 0..(n - 1) : ~Valid(Down(last, i)) /\ AllFound(V, last, i)
    BY <1>7 DEF StoppedAtBad
  <2>2. i \in Nat
    BY <1>2
  <2>3. i <= m
    BY <1>1, <2>1, <2>2, StaysIn DEF AllFound, m
  <2>4. i = m
    <3> SUFFICES ASSUME i # m PROVE FALSE
      OBVIOUS
    <3>1. i \in 0..m
      BY <1>3, <2>2, <2>3
    <3> QED
      BY <1>4, <2>1, <3>1
  <2>5. end \in Hash /\ ~Valid(end)
    BY <1>2, <1>4, <2>1, <2>4
  <2> QED
    BY <1>3, <2>5 DEF Windowed, Valid
<1> QED
  BY <1>6, <1>7

LEMMA HeadExtended ==
    ASSUME Shares, NEW S \in SUBSET Hash, NEW st \in Going(S), NEW h \in st.verified
    PROVE  /\ Extends(S, st, ExtendHead(st, h))
           /\ Windowed(S, ExtendHead(st, h).desired, ExtendHead(st, h).verified, h)
<1> DEFINE B == st.verified
           last == TailOf(B, h)
           n == Reach(st, Height(B, h), last)
           r == ExtendHead(st, h)
<1>0. last = TailOf(st.verified, h) /\ n = Reach(st, Height(st.verified, h), last)
  OBVIOUS
<1> HIDE DEF last, n
<1>1. PICK u : /\ Probes(u, S, last, n)
               /\ u[0] = [st EXCEPT !.found = TRUE]
               /\ r \in Going(S)
               /\ r.verified = u[n].verified
               /\ r.desired = u[n].desired \cup Lacking(st, Height(B, h), last)
  BY <1>0, ExtendSteps
<1>2. /\ st \in Run /\ Trusted(st) /\ st.items = S /\ B \in SUBSET S /\ B \in SUBSET Hash
      /\ IsLink(prev) /\ h \in Nodes
  BY HashTypes DEF Going, Run, Trusted, Shares
<1>3. Height(B, h) \in Nat /\ last \in Nodes
  BY <1>0, <1>2, HeightType, TailFacts
<1>4. /\ n \in Nat /\ n <= Height(S, last)
      /\ \A k \in 0..(n - 1) : Down(last, k) \in S /\ Deep(S, Down(last, k))
  BY <1>0, <1>2, <1>3, ReachFacts
<1>5. \E z \in B : prev[z] = last
  BY <1>0, <1>2, LastHasChild, TailIsLast
<1>6. Height(S, last) \in Nat
  BY <1>2, <1>3, HeightType
<1> HIDE DEF B, r
<1> DEFINE Good(k) ==
             /\ Extends(S, st, u[k])
             /\ u[k].found => AllFound(u[k].verified, last, k)
             /\ ~u[k].found => StoppedAtBad(u[k].verified, last, k)
           Q == {k \in 0..n : Good(k)}
<1>7. 0 \in Q
  <2> DEFINE w == u[0]
  <2>1. w.verified = B /\ w.desired = st.desired /\ w.found = TRUE /\ w \in Going(S)
    <3>1. w \in Going(S)
      <4>1. 0 \in 0..n /\ u \in [0..n -> Going(S)]
        BY <1>1, <1>4 DEF Probes
      <4> QED
        BY <4>1
    <3> QED
      BY <1>1, <1>2, <3>1 DEF Run, B
  <2> HIDE DEF w
  <2>2. Extends(S, st, w)
    BY <2>1 DEF Extends, B
  <2>3. AllFound(w.verified, last, 0)
    BY DEF AllFound
  <2> QED
    BY <1>4, <2>1, <2>2, <2>3 DEF w
<1>8. ASSUME NEW k \in 1..n, k - 1 \in Q PROVE k \in Q
  <2> DEFINE w == u[k - 1]
             v == u[k]
             y == Down(last, k - 1)
  <2>1. /\ k \in Nat /\ k > 0 /\ k \in 0..n /\ k - 1 \in 0..n /\ k - 1 \in 0..(n - 1)
        /\ \A j \in 0..(k - 1) : j \in 0..(k - 1 - 1) \/ j = k - 1
        /\ \A j \in 0..(k - 1 - 1) : j \in 0..(k - 1)
    BY <1>4
  <2>2. /\ Extends(S, st, w) /\ w \in Going(S)
        /\ w.found => AllFound(w.verified, last, k - 1)
        /\ ~w.found => StoppedAtBad(w.verified, last, k - 1)
    BY <1>8 DEF Extends
  <2>3. v = Probe(w, y) /\ y \in S /\ Deep(S, y)
    BY <1>1, <1>4, <2>1 DEF Probes
  <2>4. ASSUME w.found PROVE \E z \in w.verified : prev[z] = y
    <3>1. CASE k = 1
      <4>1. y = last
        <5>1. Down(last, 0) = last
          BY <1>2, <1>3, DownFacts
        <5>2. k - 1 = 0
          BY <3>1
        <5> QED
          BY <5>1, <5>2 DEF y
      <4> QED
        BY <1>5, <2>2, <4>1 DEF Extends, B
    <3>2. CASE k # 1
      <4>1. k - 2 \in 0..Height(S, last) /\ k - 2 # Height(S, last) /\ k - 2 + 1 = k - 1
            /\ k - 2 \in 0..(k - 1 - 1)
        BY <1>4, <1>6, <2>1, <3>2
      <4>2. prev[Down(last, k - 2)] = y
        BY <1>2, <1>3, <4>1, DownFacts
      <4>3. Down(last, k - 2) \in w.verified
        BY <2>2, <2>4, <4>1 DEF AllFound
      <4> QED
        BY <4>2, <4>3
    <3> QED
      BY <3>1, <3>2
  <2> HIDE DEF w, v, y
  <2>5. Extends(S, w, v)
    BY <2>2, <2>3, <2>4, ProbeExtends
  <2>6. Extends(S, st, v)
    BY <2>2, <2>5, ExtendsMore
  <2>7. /\ ~w.found => v = w
        /\ w.found => /\ v.found = Valid(y)
                      /\ v.verified = IF Valid(y) THEN w.verified \cup {y} ELSE w.verified
    <3>1. Probed(w, y, v)
      BY <2>2, <2>3, ProbeFacts
    <3> QED
      BY <3>1 DEF Probed
  <2>8. ASSUME v.found PROVE AllFound(v.verified, last, k)
    <3>1. w.found
      BY <2>7, <2>8
    <3>2. v.verified = w.verified \cup {y}
      BY <2>7, <2>8, <3>1
    <3> QED
      BY <2>1, <2>2, <3>1, <3>2 DEF AllFound, y
  <2>9. ASSUME ~v.found PROVE StoppedAtBad(v.verified, last, k)
    <3>1. CASE w.found
      <4>1. ~Valid(y) /\ v.verified = w.verified
        BY <2>7, <2>9, <3>1 DEF Valid
      <4> QED
        BY <2>1, <2>2, <3>1, <4>1 DEF StoppedAtBad, y
    <3>2. CASE ~w.found
      BY <2>1, <2>2, <2>7, <3>2 DEF StoppedAtBad
    <3> QED
      BY <3>1, <3>2
  <2> QED
    BY <2>1, <2>6, <2>8, <2>9 DEF v
<1>9. 0..n \subseteq Q
  <2> HIDE DEF Q
  <2> QED
    BY <1>4, <1>7, <1>8, StepByStep
<1>10. Good(n)
  BY <1>4, <1>9
<1> DEFINE V == r.verified
<1>11. /\ V \in SUBSET S /\ B \in SUBSET V /\ \A x \in V : Valid(x)
       /\ AllFound(V, last, n) \/ StoppedAtBad(V, last, n)
  <2>1. r.items = S /\ Trusted(r)
    BY <1>1 DEF Going
  <2> QED
    BY <1>1, <1>10, <2>1 DEF Trusted, Extends, B
<1>12. Extends(S, st, r)
  BY <1>1, <1>10, WindowAsked DEF Extends
<1>13. Windowed(S, r.desired, V, h)
  <2>1. /\ last = TailOf(B, h) /\ n = Reach(st, Height(B, h), last) /\ h \in B
        /\ Lacking(st, Height(B, h), last) \subseteq r.desired
    BY <1>0, <1>1 DEF B
  <2> HIDE DEF V
  <2> QED
    BY <1>2, <1>11, <2>1, WindowReached
<1> QED
  BY <1>12, <1>13 DEF r

(* The verified heads one after the other.                                  *)
ExtendedInTurn(u, st, order, n) ==
    u[0] = st /\ \A i \in 1..n : u[i] = ExtendHead(u[i - 1], order[i])

ExtendAll(st, order) == FoldLeft(ExtendHead, st, order)

LEMMA ExtendFold ==
    ASSUME NEW V, NEW st \in V, NEW order, NEW n \in Nat, DOMAIN order = 1..n,
           \A w \in V, i \in 1..n : ExtendHead(w, order[i]) \in V
    PROVE  \E u : ExtendedInTurn(u, st, order, n) /\ ExtendAll(st, order) = u[n]
<1> DEFINE op(w, h) == ExtendHead(w, h)
           D == SUBSET (1..n)
           R(it) == [t \in SUBSET DOMAIN order |->
                       IF t = {} THEN st ELSE LET x == Max(t) IN op(it[t \ {x}], order[x])]
           G == [i \in 1..n |-> [w \in V |-> op(w, order[i])]]
           fold == ExtendAll(st, order)
           it0 == CHOOSE it : it = R(it)
<1>1. fold = it0[DOMAIN order]
  <2> QED
    BY DEF op, ExtendAll, FoldLeft, MapThenFoldSet
<1>2. Stepping(G, n, V) /\ \A i \in 1..n, w \in V : G[i][w] = op(w, order[i])
  BY DEF Stepping, op
<1> HIDE DEF op, fold, G
<1>3. PICK it : Folding(it, st, G, n, V)
  BY <1>2, FoldExists
<1>4. it = R(it)
  <2>1. it = [t \in D |-> it[t]] /\ \A t \in D : it[t] \in V
    BY <1>3 DEF Folding
  <2>2. \A t \in D : it[t] = IF t = {} THEN st ELSE op(it[t \ {Max(t)}], order[Max(t)])
    <3> TAKE t \in D
    <3>1. CASE t = {}
      BY <1>3, <3>1 DEF Folding
    <3>2. CASE t # {}
      <4>1. Max(t) \in 1..n /\ t \ {Max(t)} \in D
        BY <3>2, MaxIsIn
      <4>2. it[t \ {Max(t)}] \in V
        BY <2>1, <4>1
      <4>3. it[t] = G[Max(t)][it[t \ {Max(t)}]]
        BY <1>3, <3>2 DEF Folding
      <4> QED
        BY <1>2, <3>2, <4>1, <4>2, <4>3
    <3> QED
      BY <3>1, <3>2
  <2> QED
    BY <2>1, <2>2
<1>5. it0 = R(it0)
  <2> HIDE DEF R
  <2> QED
    BY <1>4
<1> HIDE DEF it0
<1> DEFINE u == [i \in 0..n |-> it0[1..i]]
<1>6. u[0] = st
  <2>1. 1..0 = {} /\ {} \in D /\ 0 \in 0..n
    OBVIOUS
  <2> QED
    BY <1>5, <2>1
<1>7. \A i \in 1..n : u[i] = op(u[i - 1], order[i])
  <2> TAKE i \in 1..n
  <2>1. 1..i \in D /\ i \in 1..i /\ i \in Nat /\ i \in 0..n /\ i - 1 \in 0..n
    OBVIOUS
  <2>2. Max(1..i) = i
    BY <2>1, MaxIsLast
  <2>3. (1..i) \ {i} = 1..(i - 1)
    OBVIOUS
  <2>4. it0[1..i] = op(it0[1..(i - 1)], order[i])
    BY <1>5, <2>1, <2>2, <2>3
  <2> QED
    BY <2>1, <2>4
<1>8. fold = u[n]
  BY <1>1
<1> HIDE DEF u
<1>9. ExtendedInTurn(u, st, order, n)
  BY <1>6, <1>7 DEF ExtendedInTurn, op
<1> QED
  BY <1>8, <1>9 DEF fold

LEMMA HeadsExtended ==
    ASSUME Shares, NEW S \in SUBSET Hash, NEW st \in Going(S),
           NEW s \in AnyOrder(ExtendHead, st, LeavesOf(st.verified))
    PROVE  /\ Extends(S, st, s)
           /\ \A h \in LeavesOf(s.verified) : Windowed(S, s.desired, s.verified, h)
<1> DEFINE T == LeavesOf(st.verified)
           V == {w \in Going(S) : st.verified \subseteq w.verified}
<1>1. T \in SUBSET Hash /\ T \subseteq st.verified
  BY DEF LeavesOf, Going, Run
<1>2. PICK order \in SetToSeqs(T) : s = ExtendAll(st, order)
  BY DEF AnyOrder, ExtendAll
<1> HIDE DEF T
<1>3. PICK n \in Nat : Orders(order, T, n)
  BY <1>1, <1>2, OrderFacts
<1>4. \A w \in V, i \in 1..n : ExtendHead(w, order[i]) \in V
  <2> TAKE w \in V, i \in 1..n
  <2>1. order[i] \in w.verified /\ w \in Going(S)
    BY <1>1, <1>3 DEF Orders
  <2>2. Extends(S, w, ExtendHead(w, order[i]))
    BY <2>1, HeadExtended
  <2> QED
    BY <2>2 DEF Extends
<1>5. PICK u : ExtendedInTurn(u, st, order, n) /\ s = u[n]
  <2>1. DOMAIN order = 1..n /\ st \in V
    BY <1>3 DEF Orders
  <2> HIDE DEF V
  <2> QED
    BY <1>2, <1>4, <2>1, ExtendFold
<1> DEFINE Good(k) == /\ Extends(S, st, u[k])
                      /\ \A i \in 1..k : Windowed(S, u[k].desired, u[k].verified, order[i])
           Q == {k \in 0..n : Good(k)}
<1>6. 0 \in Q
  <2>1. Extends(S, st, st) /\ \A i \in 1..0 : FALSE
    BY ExtendsNone
  <2> QED
    BY <1>5, <2>1 DEF ExtendedInTurn
<1>7. ASSUME NEW k \in 1..n, k - 1 \in Q PROVE k \in Q
  <2> DEFINE w == u[k - 1]
             h == order[k]
  <2>1. /\ k \in Nat /\ k \in 0..n /\ w \in Going(S) /\ Extends(S, st, w)
        /\ h \in w.verified
        /\ \A i \in 1..(k - 1) : Windowed(S, w.desired, w.verified, order[i])
        /\ u[k] = ExtendHead(w, h)
    BY <1>1, <1>3, <1>5, <1>7 DEF Extends, ExtendedInTurn, Orders
  <2>2. \A i \in 1..k : order[i] \in w.verified
    BY <1>1, <1>3, <2>1 DEF Extends, Orders
  <2> HIDE DEF w
  <2>3. Extends(S, w, u[k]) /\ Windowed(S, u[k].desired, u[k].verified, h)
    <3> HIDE DEF h
    <3> QED
      BY <2>1, HeadExtended
  <2>4. Extends(S, st, u[k])
    BY <2>1, <2>3, ExtendsMore
  <2>5. \A i \in 1..k : i \in 1..(k - 1) \/ i = k
    BY <2>1
  <2>6. \A i \in 1..k : Windowed(S, u[k].desired, u[k].verified, order[i])
    BY <2>1, <2>2, <2>3, <2>5 DEF Extends
  <2> QED
    BY <2>1, <2>4, <2>6
<1>8. 0..n \subseteq Q
  <2> HIDE DEF Q
  <2> QED
    BY <1>6, <1>7, StepByStep
<1>9. Good(n)
  BY <1>8
<1> QED
  BY <1>3, <1>5, <1>9 DEF Orders, Extends, T

-----------------------------------------------------------------------------
(* think as a whole.                                                        *)

(* How the loops leave the tracker.                                         *)
Judgement(S, st, r) ==
    /\ r \in Run /\ Trusted(r) /\ r.failed # "AssertionError"
    /\ r.items \subseteq S /\ st.verified \subseteq r.verified
    /\ r.failed = "no" =>
         /\ \A h \in LeavesOf(r.verified) : Windowed(r.items, r.desired, r.verified, h)
         /\ ShortRun => HeadsSettled(r.items, r.verified)

LEMMA SettledMore ==
    ASSUME NEW S, NEW V, NEW W, V \subseteq W, HeadsSettled(S, V)
    PROVE  HeadsSettled(S, W)
BY StaysSettled DEF HeadsSettled

LEMMA JudgedFacts ==
    ASSUME Shares, NEW S \in SUBSET Hash, NEW st \in Going(S), st.bads = <<>>,
           NEW r \in Judged(st)
    PROVE  Judgement(S, st, r) /\ r.best = None
<1> DEFINE T == LeavesOf(st.items) \ LeavesOf(st.verified)
<1>1. PICK s \in AnyOrder(VerifyFromHead, st, T) :
        LET c == RemoveAll(s, s.bads)
        IN  r \in IF c.failed = "no" THEN AnyOrder(ExtendHead, c, LeavesOf(c.verified)) ELSE {c}
  BY DEF Judged, RemoveAll
<1> DEFINE c == RemoveAll(s, s.bads)
<1>2. st.items = S /\ T \in SUBSET S
  BY DEF Going, LeavesOf
<1>3. Improves(S, st, s)
  BY <1>2, HeadsSearched
<1>4. s \in Going(S) /\ s.items = S /\ s.best = None /\ st.verified \subseteq s.verified
  BY <1>3 DEF Improves, Going
<1>5. Clears(s, c)
  BY <1>4, BadsRemoved
<1>6. ShortRun => HeadsSettled(c.items, c.verified)
  <2>1. AllFollowed(S, st)
    BY DEF AllFollowed
  <2>2. s \in AnyOrder(VerifyFromHead, st, LeavesOf(S) \ LeavesOf(st.verified))
    BY <1>2
  <2> HIDE DEF c
  <2> QED
    BY <1>5, <2>1, <2>2, NothingOverlooked
<1> HIDE DEF c, T
<1>7. /\ c \in Run /\ Trusted(c) /\ c.failed # "AssertionError" /\ c.best = None
      /\ c.items \subseteq S /\ st.verified \subseteq c.verified
  BY <1>4, <1>5 DEF Clears
<1>8. CASE c.failed # "no"
  <2>1. r = c
    BY <1>1, <1>8 DEF c
  <2> QED
    BY <1>7, <1>8, <2>1 DEF Judgement
<1>9. CASE c.failed = "no"
  <2> DEFINE I == c.items
  <2>1. I \in SUBSET Hash /\ c \in Going(I)
    BY <1>7, <1>9 DEF Going
  <2>2. r \in AnyOrder(ExtendHead, c, LeavesOf(c.verified))
    BY <1>1, <1>9 DEF c
  <2> HIDE DEF I
  <2>3. /\ Extends(I, c, r)
        /\ \A h \in LeavesOf(r.verified) : Windowed(I, r.desired, r.verified, h)
    BY <2>1, <2>2, HeadsExtended
  <2>4. /\ r \in Run /\ Trusted(r) /\ r.failed = "no" /\ r.items = I /\ r.best = None
        /\ c.verified \subseteq r.verified
    BY <2>3 DEF Extends, Going
  <2>5. ShortRun => HeadsSettled(I, r.verified)
    BY <1>6, <2>4, SettledMore DEF I
  <2> QED
    BY <1>7, <2>3, <2>4, <2>5 DEF Judgement, I
<1> QED
  BY <1>8, <1>9

(* The choice of the best share.                                            *)
Minable(st, b) == b \in st.items /\ (st.naughty[b] = 0 \/ kind[b] = "block")

Picks(st, r) ==
    /\ r \in Run /\ Trusted(r) /\ r.failed # "AssertionError"
    /\ r.items = st.items /\ r.verified = st.verified /\ r.naughty = st.naughty
    /\ r.desired = st.desired
    /\ r.failed = "no" =>
         /\ r.best = None => r.verified = {}
         /\ r.best # None => Minable(r, r.best)

LEMMA PunishFacts ==
    ASSUME NEW st \in Run, NEW h \in Hash
    PROVE  /\ ~(Punish(st, h) > 0) => st.naughty[h] = 0 \/ kind[h] = "block"
           /\ Punish(st, h) = 0 => st.naughty[h] = 0
<1>1. st.naughty[h] \in Nat
  BY DEF Run
<1> QED
  BY <1>1 DEF Punish

LEMMA PickFacts ==
    ASSUME NEW st \in Run, Trusted(st), st.failed = "no", NEW b \in Hash, Minable(st, b)
    PROVE  Picks(st, [st EXCEPT !.best = b])
<1> DEFINE r == [st EXCEPT !.best = b]
<1>1. b \in Nodes /\ b # None
  BY HashTypes, NAssumption DEF None, Hash
<1>2. /\ r \in Run /\ r.items = st.items /\ r.verified = st.verified /\ r.best = b
      /\ r.naughty = st.naughty /\ r.failed = "no" /\ r.blamed = st.blamed
      /\ r.bads = st.bads /\ r.desired = st.desired
  BY <1>1 DEF Run
<1> HIDE DEF r
<1>3. Trusted(r) /\ Minable(r, b)
  BY <1>2 DEF Trusted, Minable
<1> QED
  BY <1>1, <1>2, <1>3 DEF Picks, r

LEMMA AfterPunishingFacts ==
    ASSUME Shares, NEW st \in Run, Trusted(st), st.failed = "no", NEW head \in st.verified,
           NEW r \in AfterPunishing(st, head)
    PROVE  Picks(st, r)
<1> DEFINE punished == {x \in st.items : Punish(st, x) > 0}
           base == TailOf(punished, head)
<1>1. /\ IsLink(prev) /\ st.items \in SUBSET Hash /\ st.verified \subseteq st.items
      /\ punished \in SUBSET Hash /\ head \in Nodes /\ head \in Hash
  BY HashTypes DEF Shares, Run, Trusted
<1>2. base \in Nodes /\ base \notin punished
  BY <1>1, TailFacts
<1>3. /\ base = head => r = [st EXCEPT !.best = head]
      /\ base # head =>
           /\ base \notin st.items => r = [st EXCEPT !.failed = "KeyError"]
           /\ base \in st.items /\ Punish(st, base) # 0 => r = [st EXCEPT !.best = base]
           /\ base \in st.items /\ Punish(st, base) = 0 =>
                \E x \in best_descendent(st, base) : r = [st EXCEPT !.best = x]
  BY DEF AfterPunishing
<1>4. base \in st.items => Minable(st, base)
  <2> SUFFICES ASSUME base \in st.items PROVE Minable(st, base)
    OBVIOUS
  <2>1. ~(Punish(st, base) > 0) /\ base \in Hash
    BY <1>1, <1>2
  <2> HIDE DEF base
  <2> QED
    BY <2>1, PunishFacts DEF Minable
<1> HIDE DEF base, punished
<1>5. CASE base = head
  BY <1>1, <1>3, <1>4, <1>5, PickFacts
<1>6. CASE base # head /\ base \notin st.items
  <2>1. r = [st EXCEPT !.failed = "KeyError"]
    BY <1>3, <1>6
  <2>2. /\ r \in Run /\ r.items = st.items /\ r.verified = st.verified
        /\ r.naughty = st.naughty /\ r.failed = "KeyError" /\ r.blamed = st.blamed
        /\ r.bads = st.bads /\ r.desired = st.desired
    BY <2>1 DEF Run, Outcome
  <2>3. Trusted(r)
    BY <2>2 DEF Trusted
  <2> QED
    BY <2>2, <2>3 DEF Picks
<1>7. CASE base # head /\ base \in st.items /\ Punish(st, base) # 0
  BY <1>1, <1>3, <1>4, <1>7, PickFacts
<1>8. CASE base # head /\ base \in st.items /\ Punish(st, base) = 0
  <2>1. PICK x \in best_descendent(st, base) : r = [st EXCEPT !.best = x]
    BY <1>3, <1>8
  <2>2. x = base \/ (x \in st.items /\ st.naughty[x] = 0)
    BY <2>1 DEF best_descendent
  <2>3. x \in Hash /\ Minable(st, x)
    BY <1>1, <1>4, <1>8, <2>2 DEF Minable
  <2> QED
    BY <2>1, <2>3, PickFacts
<1> QED
  BY <1>5, <1>6, <1>7, <1>8

LEMMA ChosenFacts ==
    ASSUME Shares, NEW st \in Run, Trusted(st), st.failed # "AssertionError", st.best = None,
           NEW r \in Chosen(st)
    PROVE  Picks(st, r) /\ (r.failed = "no" => st.failed = "no")
<1>1. CASE st.failed # "no" \/ st.verified = {}
  <2>1. r = st
    BY <1>1 DEF Chosen
  <2> QED
    BY <1>1, <2>1 DEF Picks
<1>2. CASE ~(st.failed # "no" \/ st.verified = {})
  <2>1. PICK t \in BestTails(st) :
          r \in LET those == Atop(st, t)
                    tops == {h \in those : \A g \in those : ~Beats(st, g, h)}
                IN UNION {AfterPunishing([st EXCEPT !.heads = those], h) : h \in tops}
    BY <1>2 DEF Chosen
  <2> DEFINE a == Atop(st, t)
             s == [st EXCEPT !.heads = a]
  <2>2. PICK h \in a : r \in AfterPunishing(s, h)
    BY <2>1
  <2>3. a \in SUBSET st.verified
    BY DEF Atop, LeavesOf
  <2>4. a \in SUBSET Hash
    BY <2>3 DEF Run
  <2> HIDE DEF a
  <2>5. /\ s \in Run /\ s.items = st.items /\ s.verified = st.verified
        /\ s.naughty = st.naughty /\ s.failed = st.failed /\ s.blamed = st.blamed
        /\ s.bads = st.bads /\ s.desired = st.desired
    BY <2>4 DEF Run
  <2> HIDE DEF s
  <2>6. Trusted(s) /\ s.failed = "no" /\ h \in s.verified
    BY <1>2, <2>3, <2>5 DEF Trusted
  <2>7. Picks(s, r)
    BY <2>2, <2>5, <2>6, AfterPunishingFacts
  <2> QED
    BY <1>2, <2>5, <2>7 DEF Picks
<1> QED
  BY <1>1, <1>2

(* What think promises, whatever it starts from.                            *)
LEMMA ThinkFacts ==
    ASSUME Shares, NEW S \in SUBSET Hash, NEW st \in Going(S), st.bads = <<>>,
           NEW r \in think(st)
    PROVE  Judgement(S, st, r) /\ Picks(r, r)
<1>1. PICK s \in Judged(st) : r \in Chosen(s)
  BY DEF think
<1>2. Judgement(S, st, s) /\ s.best = None
  BY <1>1, JudgedFacts
<1>3. s \in Run /\ Trusted(s) /\ s.failed # "AssertionError"
  BY <1>2 DEF Judgement
<1>4. Picks(s, r) /\ (r.failed = "no" => s.failed = "no")
  BY <1>1, <1>2, <1>3, ChosenFacts
<1> QED
  BY <1>2, <1>4 DEF Judgement, Picks

-----------------------------------------------------------------------------
(* The node.                                                                *)

LEMMA DropSteps ==
    ASSUME NEW S
    PROVE  \E u : /\ u \in [0..N -> SUBSET S]
                  /\ u[0] = S
                  /\ \A k \in 1..N : u[k] = DropPass(u[k - 1])
                  /\ Dropped(S) = u[N]
<1> DEFINE V == SUBSET S
           G == [k \in 1..N |-> [X \in V |-> DropPass(X)]]
           R(g) == [k \in 0..N |-> IF k = 0 THEN S ELSE DropPass(g[k - 1])]
           pass == CHOOSE g : g = R(g)
<1>1. N \in Nat /\ S \in V
  BY NAssumption
<1>2. \A X \in V : DropPass(X) \in V
  BY DEF DropPass
<1>3. Dropped(S) = pass[N]
  BY DEF Dropped
<1> HIDE DEF V
<1>4. Stepping(G, N, V)
  BY <1>2 DEF Stepping
<1>5. \A k \in 1..N : \A X \in V : G[k][X] = DropPass(X)
  OBVIOUS
<1> HIDE DEF G
<1>6. PICK u \in [0..N -> V] : u[0] = S /\ \A k \in 1..N : u[k] = G[k][u[k - 1]]
  <2>1. \E s : Iterates(s, S, G, N, V)
    BY <1>1, <1>4, IterationExists
  <2> QED
    BY <2>1 DEF Iterates
<1>7. \A k \in 1..N : k - 1 \in 0..N /\ k \in 0..N /\ u[k] = DropPass(u[k - 1])
  BY <1>1, <1>5, <1>6
<1>8. u = R(u)
  <2>1. \A k \in 0..N : k # 0 => k \in 1..N
    BY <1>1
  <2>2. \A k \in 0..N : u[k] = R(u)[k]
    BY <1>6, <1>7, <2>1
  <2> QED
    BY <1>6, <2>2
<1>9. pass = R(pass)
  <2> HIDE DEF R
  <2> QED
    BY <1>8
<1> HIDE DEF pass
<1>10. pass[N] = u[N]
  <2> DEFINE Q == {k \in 0..N : pass[k] = u[k]}
  <2>1. 0 \in Q
    BY <1>1, <1>6, <1>9
  <2>2. ASSUME NEW k \in 1..N, k - 1 \in Q PROVE k \in Q
    <3>1. k \in 0..N /\ k # 0 /\ pass[k] = DropPass(pass[k - 1])
      BY <1>7, <1>9
    <3>2. pass[k - 1] = u[k - 1]
      BY <2>2
    <3> QED
      BY <1>7, <3>1, <3>2
  <2>3. 0..N \subseteq Q
    <3> HIDE DEF Q
    <3> QED
      BY <1>1, <2>1, <2>2, StepByStep
  <2> QED
    BY <1>1, <2>3
<1> QED
  BY <1>3, <1>6, <1>7, <1>10 DEF V

LEMMA DroppedLess == \A S : Dropped(S) \subseteq S
<1> TAKE S
<1>1. PICK u : u \in [0..N -> SUBSET S] /\ Dropped(S) = u[N]
  BY DropSteps
<1>2. N \in 0..N
  BY NAssumption
<1> QED
  BY <1>1, <1>2

(* The types, and that only items are verified and only valid ones.          *)
Sane ==
    /\ prev \in Links /\ kind \in Kinds
    /\ items \in SUBSET Hash /\ verified \subseteq items
    /\ \A x \in verified : Valid(x)
    /\ naughty \in [Hash -> Nat]
    /\ best \in Nodes

(* What holds between two calls of the handlers.                             *)
TInv ==
    /\ Sane
    /\ ThinkAssertionsHold
    /\ OnlyInvalidBlamed
    /\ BestPresent
    /\ NaughtyNeverMined
    /\ WindowVerified
    /\ ShortRun => NoHeadOverlooked

LEMMA SaneShares == Sane => Shares
BY LinksAssumption, TrackerAssumption DEF Sane, Shares, IsLink

(* What think may start from.                                               *)
Fresh(S, st) == st \in Going(S) /\ st.bads = <<>>

LEMMA FreshStart ==
    ASSUME Sane, NEW S \in SUBSET Hash, NEW V \in SUBSET S, \A x \in V : Valid(x),
           NEW f \in [Hash -> Nat]
    PROVE  Fresh(S, [Start EXCEPT !.items = S, !.verified = V, !.naughty = f])
<1> DEFINE st == [Start EXCEPT !.items = S, !.verified = V, !.naughty = f]
<1>1. /\ st.items = S /\ st.verified = V /\ st.naughty = f /\ st.bads = <<>>
      /\ st.blamed = {} /\ st.failed = "no" /\ st.best = None
  BY DEF Start
<1>2. None \in Nodes /\ V \in SUBSET Hash /\ verified \in SUBSET Hash
      /\ <<>> \in Seq(Hash) /\ items \in SUBSET Hash /\ naughty \in [Hash -> Nat]
  BY NAssumption DEF None, Nodes, Sane
<1>3. Start \in Run
  BY <1>2 DEF Start, Run, Outcome
<1>4. st \in Run
  BY <1>2, <1>3 DEF Run
<1> HIDE DEF st
<1>5. Trusted(st)
  BY <1>1 DEF Trusted
<1> QED
  BY <1>1, <1>4, <1>5 DEF Fresh, Going, st

LEMMA FreshAdded ==
    ASSUME Sane, NEW new \in SUBSET Hash
    PROVE  /\ Fresh(items \cup new, [Start EXCEPT !.items = @ \cup new])
           /\ Fresh(items, Start)
<1> DEFINE S == items \cup new
           st == [Start EXCEPT !.items = S]
<1>1. /\ None \in Nodes /\ verified \in SUBSET Hash /\ <<>> \in Seq(Hash)
      /\ items \in SUBSET Hash /\ naughty \in [Hash -> Nat] /\ S \in SUBSET Hash
      /\ verified \subseteq items /\ \A x \in verified : Valid(x)
  BY NAssumption DEF None, Nodes, Sane
<1>2. Start \in Run
  BY <1>1 DEF Start, Run, Outcome
<1>3. /\ Start.items = items /\ Start.verified = verified /\ Start.bads = <<>>
      /\ Start.blamed = {} /\ Start.failed = "no" /\ Start.best = None
  BY DEF Start
<1>4. Fresh(items, Start)
  <2>1. Trusted(Start)
    BY <1>1, <1>3 DEF Trusted
  <2> QED
    BY <1>2, <1>3, <2>1 DEF Fresh, Going
<1> HIDE DEF S
<1>5. /\ st.items = S /\ st.verified = verified /\ st.bads = <<>>
      /\ st.blamed = {} /\ st.failed = "no" /\ st.best = None
      /\ st \in Run
  BY <1>1, <1>2, <1>3 DEF Run
<1>6. [Start EXCEPT !.items = @ \cup new] = st
  BY <1>3 DEF S
<1> HIDE DEF st
<1>7. Trusted(st)
  BY <1>1, <1>5 DEF Trusted, S
<1>8. Fresh(S, st)
  BY <1>5, <1>7 DEF Fresh, Going
<1> QED
  BY <1>4, <1>6, <1>8 DEF S

LEMMA FreshCleaned ==
    ASSUME Sane, NEW st \in Run, Trusted(st), NEW old
    PROVE  /\ Fresh(Dropped(st.items \ old), Cleaned(st, old))
           /\ Dropped(st.items \ old) \in SUBSET Hash
<1> DEFINE left == Dropped(st.items \ old)
           V == st.verified \cap left
           f == Forget(st.naughty, Hash \ left)
<1>1. left \in SUBSET Hash
  <2>1. left \subseteq st.items \ old
    BY DroppedLess
  <2> HIDE DEF left
  <2> QED
    BY <2>1 DEF Run
<1>2. f \in [Hash -> Nat]
  BY DEF Forget, Run
<1>3. V \in SUBSET left /\ \A x \in V : Valid(x)
  BY DEF Trusted
<1>4. Cleaned(st, old) = [Start EXCEPT !.items = left, !.verified = V, !.naughty = f]
  BY DEF Cleaned
<1> HIDE DEF left, V, f
<1>5. Fresh(left, [Start EXCEPT !.items = left, !.verified = V, !.naughty = f])
  BY <1>1, <1>2, <1>3, FreshStart
<1> QED
  BY <1>1, <1>4, <1>5 DEF left

(* What a call of set_best_share leaves.                                    *)
LEMMA SetBestStep ==
    ASSUME TInv, NEW S \in SUBSET Hash, NEW from, Fresh(S, from), set_best_share(from)
    PROVE  TInv'
<1>1. PICK st \in think(from) :
         /\ SetTracker(st)
         /\ IF st.failed = "no"
            THEN best' = st.best /\ desired' = st.desired /\ blamed' = st.blamed
            ELSE UNCHANGED <<best, desired>> /\ blamed' = {}
  BY DEF set_best_share
<1>2. Shares /\ Sane
  BY SaneShares DEF TInv
<1>3. Judgement(S, from, st) /\ Picks(st, st)
  BY <1>1, <1>2, ThinkFacts DEF Fresh
<1>4. /\ items' = st.items /\ verified' = st.verified /\ naughty' = st.naughty
      /\ failed' = st.failed /\ prev' = prev /\ kind' = kind
  BY <1>1 DEF SetTracker
<1>5. st \in Run /\ Trusted(st) /\ st.failed # "AssertionError"
  BY <1>3 DEF Judgement
<1>6. Sane'
  <2>1. best' \in Nodes
    BY <1>1, <1>2, <1>5 DEF Run, Sane
  <2>2. \A x \in st.verified : Valid(x)'
    BY <1>4, <1>5 DEF Trusted, Valid
  <2>3. /\ st.items \in SUBSET Hash /\ st.verified \subseteq st.items
        /\ st.naughty \in [Hash -> Nat]
    BY <1>5 DEF Run, Trusted
  <2> QED
    BY <1>2, <1>4, <2>1, <2>2, <2>3 DEF Sane
<1>7. ThinkAssertionsHold'
  BY <1>4, <1>5 DEF ThinkAssertionsHold
<1>8. OnlyInvalidBlamed'
  BY <1>1, <1>4, <1>5 DEF OnlyInvalidBlamed, Trusted, Valid
<1>9. BestPresent' /\ NaughtyNeverMined'
  BY <1>1, <1>3, <1>4 DEF BestPresent, NaughtyNeverMined, Picks, Minable
<1>10. WindowVerified'
  <2> SUFFICES ASSUME failed' = "no", NEW h \in LeavesOf(verified)'
               PROVE  Windowed(st.items, st.desired, st.verified, h)'
    BY <1>1, <1>4 DEF WindowVerified, Windowed
  <2>1. h \in LeavesOf(st.verified)
    BY <1>4 DEF LeavesOf
  <2>2. Windowed(st.items, st.desired, st.verified, h)
    BY <1>3, <1>4, <2>1 DEF Judgement
  <2> QED
    BY <1>4, <2>2 DEF Windowed, TailOf, Height
<1>11. ShortRun' => NoHeadOverlooked'
  <2> SUFFICES ASSUME ShortRun', failed' = "no", NEW h \in LeavesOf(items)',
                      kind'[h] # "invalid",
                      Height(items, h)' > CHAIN_LENGTH \/ TailOf(items, h)' = None
               PROVE  h \in verified'
    BY DEF NoHeadOverlooked
  <2>1. ShortRun
    BY <1>4 DEF ShortRun, InvalidShares, Valid, Height
  <2>2. h \in LeavesOf(st.items)
    BY <1>4 DEF LeavesOf
  <2>3. Settled(st.items, st.verified, h)
    BY <1>3, <1>4, <2>1, <2>2 DEF Judgement, HeadsSettled
  <2>4. Valid(h) /\ Checkable(st.items, h)
    BY <1>4 DEF Valid, Checkable, Height, TailOf
  <2> QED
    BY <1>4, <2>3, <2>4 DEF Settled
<1> QED
  BY <1>6, <1>7, <1>8, <1>9, <1>10, <1>11 DEF TInv

LEMMA CleanStep ==
    ASSUME TInv, clean_tracker
    PROVE  TInv'
<1>1. Shares /\ Sane /\ items \in SUBSET Hash
  BY SaneShares DEF TInv, Sane
<1>2. PICK st \in think(Start) :
        IF st.failed # "no"
        THEN SetTracker(st) /\ UNCHANGED <<best, desired>> /\ blamed' = {}
        ELSE \E K \in Kept(st) : \E old \in Eaten(st, K) :
             set_best_share(Cleaned(st, old))
  BY DEF clean_tracker
<1>3. Fresh(items, Start)
  BY <1>1, FreshAdded
<1>4. Judgement(items, Start, st)
  BY <1>1, <1>2, <1>3, ThinkFacts DEF Fresh
<1>5. st \in Run /\ Trusted(st) /\ st.failed # "AssertionError"
  BY <1>4 DEF Judgement
<1>6. CASE st.failed # "no"
  <2>1. /\ items' = st.items /\ verified' = st.verified /\ naughty' = st.naughty
        /\ failed' = st.failed /\ prev' = prev /\ kind' = kind
        /\ best' = best /\ blamed' = {}
    BY <1>2, <1>6 DEF SetTracker
  <2>2. Sane'
    <3>1. \A x \in st.verified : Valid(x)'
      BY <1>5, <2>1 DEF Trusted, Valid
    <3>2. /\ st.items \in SUBSET Hash /\ st.verified \subseteq st.items
          /\ st.naughty \in [Hash -> Nat]
      BY <1>5 DEF Run, Trusted
    <3> QED
      BY <1>1, <2>1, <3>1, <3>2 DEF Sane
  <2>3. ThinkAssertionsHold' /\ OnlyInvalidBlamed'
    BY <1>5, <2>1 DEF ThinkAssertionsHold, OnlyInvalidBlamed
  <2>4. BestPresent' /\ NaughtyNeverMined' /\ WindowVerified' /\ NoHeadOverlooked'
    BY <1>6, <2>1 DEF BestPresent, NaughtyNeverMined, WindowVerified, NoHeadOverlooked
  <2> QED
    BY <2>2, <2>3, <2>4 DEF TInv
<1>7. CASE st.failed = "no"
  <2>1. PICK old : set_best_share(Cleaned(st, old))
    BY <1>2, <1>7
  <2> DEFINE from == Cleaned(st, old)
             left == Dropped(st.items \ old)
  <2>2. Fresh(left, from) /\ left \in SUBSET Hash
    BY <1>1, <1>5, FreshCleaned
  <2> HIDE DEF from, left
  <2>3. set_best_share(from)
    BY <2>1 DEF from
  <2> QED
    BY <2>2, <2>3, SetBestStep
<1> QED
  BY <1>6, <1>7

LEMMA InitTInv == TInit => TInv
<1> SUFFICES ASSUME TInit PROVE TInv
  OBVIOUS
<1>1. Sane
  BY NAssumption DEF TInit, Sane, None, Nodes
<1>2. ThinkAssertionsHold /\ OnlyInvalidBlamed /\ BestPresent /\ NaughtyNeverMined
  BY DEF TInit, ThinkAssertionsHold, OnlyInvalidBlamed, BestPresent, NaughtyNeverMined
<1>3. WindowVerified /\ NoHeadOverlooked
  BY DEF TInit, WindowVerified, NoHeadOverlooked, LeavesOf
<1> QED
  BY <1>1, <1>2, <1>3 DEF TInv

LEMMA NextTInv == TInv /\ [TNext]_tvars => TInv'
<1> SUFFICES ASSUME TInv, [TNext]_tvars PROVE TInv'
  OBVIOUS
<1>1. Sane /\ items \in SUBSET Hash
  BY DEF TInv, Sane
<1>2. ASSUME NEW new \in SUBSET Hash, handle_shares(new) PROVE TInv'
  <2> DEFINE from == [Start EXCEPT !.items = @ \cup new]
  <2>1. Fresh(items \cup new, from)
    BY <1>1, FreshAdded
  <2>2. set_best_share(from)
    BY <1>2 DEF handle_shares
  <2>3. items \cup new \in SUBSET Hash
    BY <1>1
  <2> HIDE DEF from
  <2> QED
    BY <2>1, <2>2, <2>3, SetBestStep
<1>3. CASE new_work
  BY <1>1, <1>3, FreshAdded, SetBestStep DEF new_work
<1>4. CASE clean_tracker
  BY <1>4, CleanStep
<1>5. CASE UNCHANGED tvars
  <2>1. /\ prev' = prev /\ kind' = kind /\ items' = items /\ verified' = verified
        /\ naughty' = naughty /\ best' = best /\ blamed' = blamed /\ failed' = failed
        /\ desired' = desired
    BY <1>5 DEF tvars
  <2>2. Sane'
    BY <1>1, <2>1 DEF Sane, Valid
  <2>3. ThinkAssertionsHold' /\ OnlyInvalidBlamed' /\ BestPresent' /\ NaughtyNeverMined'
    BY <2>1 DEF TInv, ThinkAssertionsHold, OnlyInvalidBlamed, BestPresent, NaughtyNeverMined
  <2>4. WindowVerified'
    BY <2>1 DEF TInv, WindowVerified, LeavesOf, TailOf, Height
  <2>5. ShortRun' => NoHeadOverlooked'
    BY <2>1 DEF TInv, ShortRun, InvalidShares, Valid, NoHeadOverlooked, LeavesOf, TailOf, Height
  <2> QED
    BY <2>2, <2>3, <2>4, <2>5 DEF TInv
<1> QED
  BY <1>2, <1>3, <1>4, <1>5 DEF TNext

(* Between two calls of handle_shares, new_work and clean_tracker the        *)
(* tracker is sane and has all the properties below.                        *)
THEOREM TrackerInvariant == TSpec => []TInv
BY InitTInv, NextTInv, PTL DEF TSpec

(* No assertion of attempt_verify or think fails: no share is checked before *)
(* CHAIN_LENGTH parents are there, none that was verified is thrown out.     *)
THEOREM ThinkAsserts == TSpec => []ThinkAssertionsHold
<1>1. TInv => ThinkAssertionsHold
  BY DEF TInv
<1> QED
  BY <1>1, TrackerInvariant, PTL

(* think tells off the senders of shares that check refuses and of no other: *)
(* a share whose parents are late is never taken for a bad one.             *)
THEOREM BlameIsJust == TSpec => []OnlyInvalidBlamed
<1>1. TInv => OnlyInvalidBlamed
  BY DEF TInv
<1> QED
  BY <1>1, TrackerInvariant, PTL

(* After every call that ends without an exception best_share_var is in the  *)
(* tracker, and it is None only where nothing is verified.                  *)
THEOREM BestIsPresent == TSpec => []BestPresent
<1>1. TInv => BestPresent
  BY DEF TInv
<1> QED
  BY <1>1, TrackerInvariant, PTL

(* The share that think picks was not found naughty, unless it is a block.   *)
THEOREM NaughtyIsNotMined == TSpec => []NaughtyNeverMined
<1>1. TInv => NaughtyNeverMined
  BY DEF TInv
<1> QED
  BY <1>1, TrackerInvariant, PTL

(* Below each verified head the shares that payouts count are verified, or   *)
(* what is in the way is the start of the chain, a bad share, or a missing  *)
(* parent that is requested.                                                *)
THEOREM WindowIsVerified == TSpec => []WindowVerified
<1>1. TInv => WindowVerified
  BY DEF TInv
<1> QED
  BY <1>1, TrackerInvariant, PTL

(* No chain has VerifyBatch invalid shares one on the other.  think takes    *)
(* from a head only the bad shares it looked at, which are not more than     *)
(* that; on a longer run the share below is a head that waits for the next  *)
(* call.                                                                    *)
ShortRuns ==
    \A links \in Links, kinds \in Kinds, x \in Hash :
       HeightMap(links, {y \in Hash : kinds[y] = "invalid"})[x] < VerifyBatch

(* A head that is good, and whose chain is long enough to check, is verified *)
(* when think returns, and competes for best_share_var.                     *)
THEOREM HeadsAreVerified ==
    ASSUME ShortRuns
    PROVE  TSpec => []NoHeadOverlooked
<1>1. TInv => NoHeadOverlooked
  <2> SUFFICES ASSUME TInv PROVE ShortRun
    BY DEF TInv
  <2>1. prev \in Links /\ kind \in Kinds
    BY DEF TInv, Sane
  <2> QED
    BY <2>1 DEF ShortRuns, ShortRun, InvalidShares, Valid, Height
<1> QED
  BY <1>1, TrackerInvariant, PTL

-----------------------------------------------------------------------------
(* What clean_tracker leaves of a chain.                                    *)

(* A walk through two sets goes as far as the shorter of the two walks.     *)
LEMMA WalkBoth ==
    ASSUME IsLink(prev), NEW V \in SUBSET Hash, NEW S \in SUBSET Hash, NEW x \in Nodes
    PROVE  LeastOf(Height(V, x), Height(S, x)) <= Height(V \cap S, x)
<1> DEFINE m == LeastOf(Height(V, x), Height(S, x))
<1>1. Height(V, x) \in Nat /\ Height(S, x) \in Nat
  BY HeightType
<1>2. m \in Nat /\ m <= Height(V, x) /\ m <= Height(S, x)
  BY <1>1 DEF LeastOf
<1> HIDE DEF m
<1>3. \A j \in 0..(m - 1) : Down(x, j) \in V \cap S
  <2> TAKE j \in 0..(m - 1)
  <2>1. /\ j \in 0..Height(V, x) /\ j # Height(V, x)
        /\ j \in 0..Height(S, x) /\ j # Height(S, x)
    BY <1>1, <1>2
  <2> QED
    BY <2>1, DownFacts
<1>4. V \cap S \in SUBSET Hash
  OBVIOUS
<1>5. m <= Height(V \cap S, x)
  BY <1>2, <1>3, <1>4, StaysIn
<1> QED
  BY <1>5 DEF m

(* With a share everything above it is eaten.                               *)
LEMMA WalkUneaten ==
    ASSUME IsLink(prev), NEW S \in SUBSET Hash, NEW old,
           \A y \in S : prev[y] \in old => y \in old, NEW x \in S \ old
    PROVE  Height(S, x) <= Height(S \ old, x)
<1> DEFINE n == Height(S, x)
           Q == {j \in 0..n : j # n => Down(x, j) \in S \ old}
<1>1. n \in Nat /\ x \in Nodes
  BY HashTypes, HeightType
<1> HIDE DEF n
<1>2. 0 \in Q
  <2>1. Down(x, 0) = x
    BY <1>1, DownFacts
  <2> QED
    BY <1>1, <2>1
<1>3. ASSUME NEW k \in 1..n, k - 1 \in Q PROVE k \in Q
  <2>1. k - 1 \in 0..n /\ k - 1 # n /\ k - 1 + 1 = k /\ k \in 0..n
    BY <1>1
  <2>2. Down(x, k) = prev[Down(x, k - 1)] /\ Down(x, k - 1) \in S
    BY <1>1, <2>1, DownFacts DEF n
  <2>3. Down(x, k - 1) \notin old
    BY <1>3, <2>1
  <2>4. k # n => Down(x, k) \in S
    BY <1>1, <2>1, DownFacts DEF n
  <2> QED
    BY <2>1, <2>2, <2>3, <2>4
<1>4. 0..n \subseteq Q
  <2> HIDE DEF Q
  <2> QED
    BY <1>1, <1>2, <1>3, StepByStep
<1>5. \A j \in 0..(n - 1) : Down(x, j) \in S \ old
  <2> TAKE j \in 0..(n - 1)
  <2>1. j \in 0..n /\ j # n
    BY <1>1
  <2> QED
    BY <1>4, <2>1
<1>6. S \ old \in SUBSET Hash
  OBVIOUS
<1>7. n <= Height(S \ old, x)
  BY <1>1, <1>5, <1>6, StaysIn
<1> QED
  BY <1>7 DEF n

(* The height below which clean_tracker takes nothing from a chain.         *)
KeptHeight == 2 * CHAIN_LENGTH + DropSlack - 1

LEMMA PassKeeps ==
    ASSUME IsLink(prev), NEW S \in SUBSET Hash, NEW x \in LeavesOf(S), x \in DropPass(S)
    PROVE  LeastOf(Height(S, x), KeptHeight) <= Height(DropPass(S), x)
<1> DEFINE D == DropPass(S)
           H == Height(S, x)
           m == LeastOf(H, KeptHeight)
           t == TailOf(S, x)
<1>1. x \in Nodes /\ H \in Nat /\ KeptHeight \in Int /\ D \in SUBSET Hash /\ x \in S
  <2>1. x \in Nodes /\ x \in S
    BY HashTypes DEF LeavesOf
  <2>2. KeptHeight \in Int
    BY ConstantTypes DEF KeptHeight
  <2>3. D \in SUBSET Hash
    BY DEF DropPass
  <2> QED
    BY <2>1, <2>2, <2>3, HeightType
<1>2. \A y \in S \ D : /\ prev[y] \notin S
                       /\ \A h \in LeavesOf(S) : TailOf(S, h) = prev[y] =>
                              Height(S, h) >= 2 * CHAIN_LENGTH + DropSlack
  BY DEF DropPass
<1> HIDE DEF D, H, m, t
<1>3. \A j \in 0..H : j # H => /\ Down(x, j) \in S
                              /\ Down(x, j + 1) = prev[Down(x, j)]
  BY <1>1, DownFacts DEF H
<1>4. Down(x, H) = t
  BY <1>1, DownFacts DEF H, t
<1>5. ASSUME NEW j \in 0..H, j + 1 # H, j # H PROVE Down(x, j) \in D
  <2>1. j + 1 \in 0..H
    BY <1>1, <1>5
  <2>2. Down(x, j) \in S /\ prev[Down(x, j)] \in S
    BY <1>3, <1>5, <2>1
  <2> QED
    BY <1>2, <2>2
<1>6. ASSUME Down(x, H - 1) \notin D, H > 0 PROVE H >= 2 * CHAIN_LENGTH + DropSlack
  <2>1. H - 1 \in 0..H /\ H - 1 # H /\ H - 1 + 1 = H
    BY <1>1, <1>6
  <2>2. Down(x, H - 1) \in S /\ prev[Down(x, H - 1)] = t
    BY <1>3, <1>4, <2>1
  <2> QED
    BY <1>2, <1>6, <2>2 DEF H, t
<1>7. CASE H > 0 /\ Down(x, H - 1) \notin D
  <2>1. H - 1 >= KeptHeight /\ H - 1 \in Nat
    BY <1>1, <1>6, <1>7, ConstantTypes DEF KeptHeight
  <2>2. \A j \in 0..(H - 1 - 1) : Down(x, j) \in D
    <3> TAKE j \in 0..(H - 1 - 1)
    <3>1. j \in 0..H /\ j + 1 # H /\ j # H
      BY <1>1
    <3> QED
      BY <1>5, <3>1
  <2>3. H - 1 <= Height(D, x)
    BY <1>1, <2>1, <2>2, StaysIn
  <2>4. Height(D, x) \in Nat
    BY <1>1, HeightType
  <2>5. m <= KeptHeight /\ m \in Int
    BY <1>1 DEF m, LeastOf
  <2> QED
    BY <1>1, <2>1, <2>3, <2>4, <2>5 DEF D, H, m
<1>8. CASE ~(H > 0 /\ Down(x, H - 1) \notin D)
  <2>1. \A j \in 0..(H - 1) : Down(x, j) \in D
    <3> TAKE j \in 0..(H - 1)
    <3>1. j \in 0..H /\ j # H /\ H > 0 /\ (j + 1 = H => j = H - 1)
      BY <1>1
    <3> QED
      BY <1>5, <1>8, <3>1
  <2>2. H <= Height(D, x)
    BY <1>1, <2>1, StaysIn
  <2>3. Height(D, x) \in Nat
    BY <1>1, HeightType
  <2>4. m <= H /\ m \in Int
    BY <1>1 DEF m, LeastOf
  <2> QED
    BY <1>1, <2>2, <2>3, <2>4 DEF D, H, m
<1> QED
  BY <1>7, <1>8

LEMMA DroppedKeeps ==
    ASSUME IsLink(prev), NEW S \in SUBSET Hash, NEW x \in LeavesOf(S), x \in Dropped(S)
    PROVE  LeastOf(Height(S, x), KeptHeight) <= Height(Dropped(S), x)
<1> DEFINE m == LeastOf(Height(S, x), KeptHeight)
<1>1. x \in Nodes /\ Height(S, x) \in Nat /\ KeptHeight \in Int /\ N \in Nat
  <2>1. x \in Nodes
    BY HashTypes DEF LeavesOf
  <2>2. KeptHeight \in Int
    BY ConstantTypes DEF KeptHeight
  <2> QED
    BY <2>1, <2>2, HeightType, NAssumption
<1>2. m \in Int /\ m <= Height(S, x) /\ m <= KeptHeight
  BY <1>1 DEF LeastOf
<1> HIDE DEF m
<1>3. PICK u : /\ u \in [0..N -> SUBSET S]
               /\ u[0] = S
               /\ \A k \in 1..N : u[k] = DropPass(u[k - 1])
               /\ Dropped(S) = u[N]
  BY DropSteps
<1>4. \A k \in 0..N : u[k] \in SUBSET Hash
  BY <1>3
<1>5. \A k \in 1..N : k \in 0..N /\ k - 1 \in 0..N /\ u[k] \subseteq u[k - 1]
  BY <1>1, <1>3 DEF DropPass
<1>6. \A k \in 0..N : x \in u[k]
  <2> DEFINE Q == {j \in 0..N : x \in u[N - j]}
  <2>1. 0 \in Q
    BY <1>1, <1>3
  <2>2. ASSUME NEW j \in 1..N, j - 1 \in Q PROVE j \in Q
    <3>1. j \in 0..N /\ N - (j - 1) \in 1..N /\ N - (j - 1) - 1 = N - j
      BY <1>1
    <3>2. x \in u[N - (j - 1)]
      BY <2>2
    <3> QED
      BY <1>5, <3>1, <3>2
  <2>3. 0..N \subseteq Q
    <3> HIDE DEF Q
    <3> QED
      BY <1>1, <2>1, <2>2, StepByStep
  <2> TAKE k \in 0..N
  <2>4. N - k \in 0..N /\ N - (N - k) = k
    BY <1>1
  <2> QED
    BY <2>3, <2>4
<1> DEFINE Q == {k \in 0..N : x \in LeavesOf(u[k]) /\ m <= Height(u[k], x)}
<1>7. 0 \in Q
  BY <1>1, <1>2, <1>3
<1>8. ASSUME NEW k \in 1..N, k - 1 \in Q PROVE k \in Q
  <2>1. /\ k \in 0..N /\ k - 1 \in 0..N /\ u[k] \subseteq u[k - 1]
        /\ x \in LeavesOf(u[k - 1]) /\ m <= Height(u[k - 1], x)
        /\ u[k] = DropPass(u[k - 1]) /\ x \in u[k]
    BY <1>3, <1>5, <1>6, <1>8
  <2>2. LeastOf(Height(u[k - 1], x), KeptHeight) <= Height(u[k], x)
    BY <1>4, <2>1, PassKeeps
  <2>3. Height(u[k - 1], x) \in Nat /\ Height(u[k], x) \in Nat
    BY <1>1, <1>4, <2>1, HeightType
  <2>4. m <= LeastOf(Height(u[k - 1], x), KeptHeight)
        /\ LeastOf(Height(u[k - 1], x), KeptHeight) \in Int
    BY <1>1, <1>2, <2>1, <2>3 DEF LeastOf
  <2>5. m <= Height(u[k], x)
    BY <1>2, <2>2, <2>3, <2>4
  <2>6. x \in LeavesOf(u[k])
    BY <2>1 DEF LeavesOf
  <2> QED
    BY <2>1, <2>5, <2>6
<1>9. 0..N \subseteq Q
  <2> HIDE DEF Q
  <2> QED
    BY <1>1, <1>7, <1>8, StepByStep
<1>10. m <= Height(u[N], x)
  BY <1>1, <1>9
<1> QED
  BY <1>3, <1>10 DEF m

(* A call of set_best_share only adds to what is verified.                  *)
LEMMA SetBestKeeps ==
    ASSUME Sane, NEW S \in SUBSET Hash, NEW from, Fresh(S, from), set_best_share(from)
    PROVE  /\ from.verified \subseteq verified' /\ verified' \subseteq S
           /\ verified' \in SUBSET Hash /\ prev' = prev
<1>1. PICK st \in think(from) : SetTracker(st)
  BY DEF set_best_share
<1>2. Judgement(S, from, st)
  BY <1>1, SaneShares, ThinkFacts DEF Fresh
<1> QED
  BY <1>1, <1>2 DEF SetTracker, Judgement, Run, Trusted

LEMMA GrowsKeeps ==
    ASSUME Sane, verified \subseteq verified', verified' \in SUBSET Hash, prev' = prev
    PROVE  KeepsWindow
<1> SUFFICES ASSUME NEW x \in LeavesOf(items) \cap verified \cap verified'
             PROVE  HeightMap(prev', verified')[x]
                      >= LeastOf(Height(verified, x), 2 * CHAIN_LENGTH + DropSlack - 1)
  BY DEF KeepsWindow
<1> DEFINE W == verified'
<1>1. /\ IsLink(prev) /\ W \in SUBSET Hash /\ verified \in SUBSET W /\ x \in Nodes
      /\ verified \in SUBSET Hash
  BY SaneShares, HashTypes DEF Shares
<1> HIDE DEF W
<1>2. Height(verified, x) <= Height(W, x)
  BY <1>1, WalkOn
<1>3. Height(verified, x) \in Nat /\ Height(W, x) \in Nat
  BY <1>1, HeightType
<1>4. KeptHeight \in Int
  BY ConstantTypes DEF KeptHeight
<1>5. LeastOf(Height(verified, x), KeptHeight) <= Height(verified, x)
      /\ LeastOf(Height(verified, x), KeptHeight) \in Int
  BY <1>3, <1>4 DEF LeastOf
<1>6. LeastOf(Height(verified, x), KeptHeight) <= Height(W, x)
  BY <1>2, <1>3, <1>5
<1> QED
  BY <1>6 DEF KeptHeight, Height, W

LEMMA CleanKeeps ==
    ASSUME Sane, clean_tracker
    PROVE  KeepsWindow
<1>1. Shares /\ IsLink(prev) /\ items \in SUBSET Hash
  BY SaneShares DEF Sane, Shares
<1>2. PICK st \in think(Start) :
        IF st.failed # "no"
        THEN SetTracker(st) /\ UNCHANGED <<best, desired>> /\ blamed' = {}
        ELSE \E K \in Kept(st) : \E old \in Eaten(st, K) :
             set_best_share(Cleaned(st, old))
  BY DEF clean_tracker
<1>3. Fresh(items, Start) /\ Start.verified = verified
  BY <1>1, FreshAdded DEF Start
<1>4. Judgement(items, Start, st)
  BY <1>1, <1>2, <1>3, ThinkFacts DEF Fresh
<1>5. /\ st \in Run /\ Trusted(st) /\ st.items \in SUBSET Hash /\ st.verified \in SUBSET Hash
      /\ st.items \subseteq items /\ verified \subseteq st.verified
      /\ st.verified \subseteq st.items
  BY <1>3, <1>4 DEF Judgement, Run, Trusted
<1>6. CASE st.failed # "no"
  <2>1. verified' = st.verified /\ prev' = prev
    BY <1>2, <1>6 DEF SetTracker
  <2> QED
    BY <1>5, <2>1, GrowsKeeps
<1>7. CASE st.failed = "no"
  <2>1. PICK K, old : old \in Eaten(st, K) /\ set_best_share(Cleaned(st, old))
    BY <1>2, <1>7
  <2>2. \A y \in st.items : prev[y] \in old => y \in old
    BY <2>1 DEF Eaten
  <2> DEFINE V == st.verified
             I == st.items
             J == I \ old
             L == Dropped(J)
             B == V \cap L
             from == Cleaned(st, old)
             W == verified'
  <2>3. Fresh(L, from) /\ L \in SUBSET Hash
    BY <1>5, FreshCleaned
  <2>4. from.verified = B
    BY DEF Cleaned, Start
  <2>5. set_best_share(from)
    BY <2>1
  <2> HIDE DEF from, L
  <2>6. B \subseteq W /\ W \subseteq L /\ W \in SUBSET Hash /\ prev' = prev
    BY <2>3, <2>4, <2>5, SetBestKeeps
  <2>7. L \subseteq J
    BY DroppedLess DEF L
  <2> SUFFICES ASSUME NEW x \in LeavesOf(items) \cap verified \cap W
               PROVE  HeightMap(prev', W)[x]
                        >= LeastOf(Height(verified, x), 2 * CHAIN_LENGTH + DropSlack - 1)
    BY DEF KeepsWindow
  <2>8. /\ x \in Nodes /\ x \in V /\ x \in L /\ x \in J /\ x \in I /\ x \notin old
        /\ x \in LeavesOf(J) /\ J \in SUBSET Hash /\ I \in SUBSET Hash /\ V \in SUBSET I
        /\ V \in SUBSET Hash /\ B \in SUBSET W /\ B \in SUBSET Hash
        /\ verified \in SUBSET V
    BY <1>5, <2>6, <2>7, HashTypes DEF LeavesOf
  <2> HIDE DEF V, I, W
  <2>9. Height(I, x) <= Height(J, x)
    BY <1>1, <2>2, <2>8, WalkUneaten DEF I
  <2> HIDE DEF J
  <2>10. LeastOf(Height(J, x), KeptHeight) <= Height(L, x)
    BY <1>1, <2>8, DroppedKeeps DEF L
  <2>11. LeastOf(Height(V, x), Height(L, x)) <= Height(B, x)
    BY <1>1, <2>3, <2>8, WalkBoth
  <2> HIDE DEF B
  <2>12. Height(V, x) <= Height(I, x) /\ Height(verified, x) <= Height(V, x)
    BY <1>1, <2>8, WalkOn
  <2>13. Height(B, x) <= Height(W, x)
    BY <1>1, <2>6, <2>8, WalkOn
  <2>14. /\ Height(V, x) \in Nat /\ Height(I, x) \in Nat /\ Height(J, x) \in Nat
         /\ Height(L, x) \in Nat /\ Height(B, x) \in Nat /\ Height(W, x) \in Nat
         /\ Height(verified, x) \in Nat
    <3>1. verified \in SUBSET Hash
      BY <2>8
    <3> QED
      BY <1>1, <2>3, <2>6, <2>8, <3>1, HeightType
  <2>15. KeptHeight \in Int
    BY ConstantTypes DEF KeptHeight
  <2>16. LeastOf(Height(verified, x), KeptHeight) <= Height(W, x)
    BY <2>9, <2>10, <2>11, <2>12, <2>13, <2>14, <2>15 DEF LeastOf
  <2> QED
    BY <2>6, <2>14, <2>15, <2>16 DEF KeptHeight, Height, LeastOf
<1> QED
  BY <1>6, <1>7

LEMMA NextKeepsWindow == Sane /\ [TNext]_tvars => [KeepsWindow]_tvars
<1> SUFFICES ASSUME Sane, TNext PROVE KeepsWindow
  OBVIOUS
<1>1. items \in SUBSET Hash /\ Start.verified = verified
  BY DEF Sane, Start
<1>2. ASSUME NEW new \in SUBSET Hash, handle_shares(new) PROVE KeepsWindow
  <2> DEFINE from == [Start EXCEPT !.items = @ \cup new]
  <2>1. Fresh(items \cup new, from) /\ from.verified = verified
    BY FreshAdded DEF Start
  <2>2. set_best_share(from)
    BY <1>2 DEF handle_shares
  <2>3. items \cup new \in SUBSET Hash
    BY <1>1
  <2> HIDE DEF from
  <2> QED
    BY <2>1, <2>2, <2>3, SetBestKeeps, GrowsKeeps
<1>3. CASE new_work
  <2>1. Fresh(items, Start)
    BY <1>1, FreshAdded
  <2> QED
    BY <1>1, <1>3, <2>1, SetBestKeeps, GrowsKeeps DEF new_work
<1>4. CASE clean_tracker
  BY <1>4, CleanKeeps
<1> QED
  BY <1>2, <1>3, <1>4 DEF TNext

(* No step, clean_tracker among them, takes verified shares from below a     *)
(* head that stays, unless the chain is longer than the drop limit promises. *)
THEOREM WindowIsKept == TSpec => WindowKept
<1>1. TInv => Sane
  BY DEF TInv
<1> QED
  BY <1>1, TrackerInvariant, NextKeepsWindow, PTL DEF TSpec, WindowKept
=============================================================================
