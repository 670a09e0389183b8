------------------------------ MODULE Payouts ------------------------------
(***************************************************************************)
(* Who is paid: get_cumulative_weights, the WeightsSkipList of p2pool/data.py *)
(* on the skip list of p2pool/util/skiplist.py, and the amounts that          *)
(* generate_transaction and get_expected_payouts make of its answer.  Every  *)
(* node computes the coinbase of every share anew and refuses a share with   *)
(* another one, so the answer must not depend on what a node was asked       *)
(* before, on its dice, or on the shares it has already forgotten.           *)
(*                                                                         *)
(* A delta counts by column: the shares, their weight, the weight they       *)
(* donate, and the weight of each address.  The weights list is kept as its  *)
(* sum.  A call is a sequence of steps, one for each round of its loop,      *)
(* and nothing comes between them.  The LRU cache in front of the skip list  *)
(* repeats answers to the same question, which are the same.                *)
(***************************************************************************)
EXTENDS ForestWalk, FiniteSetsExt

CONSTANTS
    Address,             \* payout addresses, Donation among them
    Donation,            \* the address of donation_script_to_address
    Contents,            \* the assignments of contents to hashes considered
    Unit,                \* the parts a share's weight is donated in (65535)
    REAL_CHAIN_LENGTH,
    Desired,             \* desired weights: Unit * SPREAD * average attempts
    Subsidies,
    MaxDests,            \* destinations of a coinbase (4000)
    MaxLevel             \* bound of the dice (math.geometric)

Column == Address \cup {"shares", "total", "donation"}

ASSUME PayoutsAssumption ==
    /\ IsFiniteSet(Address) /\ Donation \in Address
    /\ Address \cap {"shares", "total", "donation"} = {}
    /\ Unit \in Nat \ {0} /\ REAL_CHAIN_LENGTH \in Nat \ {0} /\ MaxLevel \in Nat \ {0}
    /\ MaxDests \in Nat \ {0}
    /\ \A w \in Desired : w \in Nat \ {0} /\ w % Unit = 0
    /\ Subsidies \subseteq Nat
    /\ \A f \in Contents :
         /\ f \in [Hash -> [address : Address, attempts : Nat, donation : 0..Unit]]
         /\ \A h \in Hash : f[h].attempts > 0

VARIABLES
    share,     \* hash -> its address, average attempts and donation
    skips,     \* SkipList.skips: hash -> its length, and level -> jump
    status,    \* "walking" in a call; "returned", or the exception it raised,
               \* right after it; "idle" else
    question,  \* the arguments of that call, and what the answer is used for
    pos,       \* its local variables: where it is,
    sum,       \* sol, at the end the answer,
    updates,   \* level -> the jump being measured
    amounts    \* address -> what the coinbase of the answer pays

tracker == <<prev, share, items, skips>>
locals == <<question, pos, sum, updates, amounts>>
vars == <<prev, share, items, skips, status, question, pos, sum, updates, amounts>>

NoQuestion == [use |-> "none", start |-> None, max |-> 0, desired |-> 0]
Nothing == [a \in Address |-> 0]
NoJumps == [i \in {} |-> 0]
LeastOf(m, n) == IF m < n THEN m ELSE n

-----------------------------------------------------------------------------
(* WeightsSkipList: deltas.                                                 *)

Zero == [c \in Column |-> 0]
combine_deltas(d, e) == [c \in Column |-> d[c] + e[c]]

get_delta(h) ==
    [c \in Column |->
        CASE c = "shares" -> 1
          [] c = "total" -> share[h].attempts * Unit
          [] c = "donation" -> share[h].attempts * share[h].donation
          [] c = share[h].address -> share[h].attempts * (Unit - share[h].donation)
          [] OTHER -> 0]

(* Of the last share counts only what is missing to the desired weight.     *)
Part(n, d) ==
    [c \in Column |-> IF c = "shares" THEN 1
                      ELSE ((n \div Unit) * d[c]) \div (d["total"] \div Unit)]

apply_delta(q, s, d) ==
    IF s["total"] + d["total"] > q.desired /\ d["shares"] = 1
    THEN combine_deltas(s, Part(q.desired - s["total"], d))
    ELSE combine_deltas(s, d)

(* judge                                                                    *)
TooMuch(q, s) == s["shares"] > q.max \/ s["total"] > q.desired
Enough(q, s) == ~TooMuch(q, s) /\ (s["shares"] = q.max \/ s["total"] = q.desired)

-----------------------------------------------------------------------------
(* What becomes of an answer.                                               *)

OverAddresses(f) == MapThenSumSet(LAMBDA a : f[a], Address)

PayingOut(q, s, subsidy, finder, part) ==
    LET byWeight == [a \in Address |->
            IF s["total"] = 0 THEN 0
            ELSE IF q.use = "share" THEN (subsidy * (199 * s[a])) \div (200 * s["total"])
            ELSE (subsidy * s[a]) \div s["total"]]
        toFinder == IF q.use = "share"
                    THEN [byWeight EXCEPT ![finder] = @ + subsidy \div part]
                    ELSE byWeight
        rest == subsidy - OverAddresses(toFinder)
    IN [toFinder EXCEPT ![Donation] = @ + rest]

PaysFinderDouble(q, s, subsidy, finder) ==       \* mutant of Amounts
    PayingOut(q, s, subsidy, finder, 100)

Amounts(q, s, subsidy, finder) == PayingOut(q, s, subsidy, finder, 200)

(* A coinbase has the donation and the largest amounts, others are left out. *)
Dests(due) ==
    {dests \in SUBSET Address :
        /\ Donation \in dests
        /\ Cardinality(dests) = LeastOf(MaxDests, Cardinality(Address))
        /\ \A a \in dests \ {Donation}, b \in Address \ dests : due[a] >= due[b]}

Paying(q, due) ==
    IF q.use = "share"
    THEN {[a \in Address |-> IF a \in dests THEN due[a] ELSE 0] : dests \in Dests(due)}
    ELSE {due}

Return(q, s) ==
    /\ status' = "returned" /\ question' = q /\ sum' = s
    /\ pos' = None /\ updates' = NoJumps
    /\ \E subsidy \in Subsidies, finder \in Address :
          amounts' \in Paying(q, Amounts(q, s, subsidy, finder))

Raise(exception) ==
    /\ status' = exception
    /\ UNCHANGED locals

Reset ==
    /\ question' = NoQuestion /\ pos' = None /\ sum' = Zero /\ updates' = NoJumps
    /\ amounts' = Nothing

-----------------------------------------------------------------------------
(* SkipList.__call__: a first judgement, then rounds.                       *)

Call(q) ==
    /\ status # "walking"
    /\ IF Enough(q, Zero) THEN Return(q, Zero)
       ELSE /\ status' = "walking" /\ question' = q /\ pos' = q.start
            /\ sum' = Zero /\ updates' = NoJumps /\ amounts' = Nothing
    /\ UNCHANGED tracker

(* The entry of a share that is met for the first time has the jump to its  *)
(* parent, and a length from the dice.                                      *)
Entry(h, length) ==
    IF h \in DOMAIN skips THEN skips[h]
    ELSE [length |-> length, jumps |-> [i \in {0} |-> [to |-> prev[h], delta |-> get_delta(h)]]]

(* "fill previous updates": the jumps that end here.                        *)
Filled(entry) == {i \in DOMAIN updates : i < entry.length}

Extended(h, entry) ==
    LET old == IF h = pos THEN entry ELSE skips[h]
        ending == {i \in Filled(entry) : updates[i].from = h}
    IN [length |-> old.length,
        jumps |-> [i \in DOMAIN old.jumps \cup ending |->
                      IF i \in ending THEN [to |-> pos, delta |-> updates[i].delta]
                      ELSE old.jumps[i]]]

(* assert len(y) == i, for one after the other                              *)
InOrder(entry) ==
    \A i \in Filled(entry) :
        LET h == updates[i].from
        IN i \notin DOMAIN skips[h].jumps /\ 0..i \subseteq DOMAIN Extended(h, entry).jumps

(* "put desired skip nodes in updates": the jumps that begin here.          *)
Begun(entry) == 0..(entry.length - 1) \ DOMAIN entry.jumps

Pending(entry) ==
    [i \in (DOMAIN updates \ Filled(entry)) \cup Begun(entry) |->
        IF i \in Begun(entry) THEN [from |-> pos, delta |-> Zero]
        ELSE updates[i]]

CombinedLast(jumps, d) ==                      \* mutant of Combined
    [i \in DOMAIN jumps |-> [from |-> jumps[i].from, delta |-> d]]

Combined(jumps, d) ==
    [i \in DOMAIN jumps |-> [from |-> jumps[i].from, delta |-> combine_deltas(jumps[i].delta, d)]]

(* The longest jump that does not lead too far is taken.                    *)
After(entry, i) == apply_delta(question, sum, entry.jumps[i].delta)
Short(entry) == {i \in DOMAIN entry.jumps : ~TooMuch(question, After(entry, i))}

Take(entry, i) ==
    IF Enough(question, After(entry, i)) THEN Return(question, After(entry, i))
    ELSE /\ pos' = entry.jumps[i].to
         /\ sum' = After(entry, i)
         /\ updates' = Combined(Pending(entry), entry.jumps[i].delta)
         /\ UNCHANGED <<status, question, amounts>>

Jump(entry) ==
    IF Short(entry) = {} THEN Raise("AssertionError")
    ELSE Take(entry, Max(Short(entry)))

Round ==
    /\ status = "walking"
    /\ UNCHANGED <<prev, share, items>>
    /\ IF pos \notin items THEN Raise("KeyError") /\ UNCHANGED skips
       ELSE \E length \in 1..MaxLevel :
              LET entry == Entry(pos, length)
              IN /\ skips' = [h \in DOMAIN skips \cup {pos} |-> Extended(h, entry)]
                 /\ IF InOrder(entry) THEN Jump(entry) ELSE Raise("AssertionError")

-----------------------------------------------------------------------------
(* The callers, and the tracker.                                            *)

Height(x) == HeightMap(prev, items)[x]
(* generate_transaction, for a share on top of p: paid are the shares below *)
(* p.                                                                       *)
generate_transaction(p, desired) ==
    /\ Height(p) >= REAL_CHAIN_LENGTH \/ LastMap(prev, items)[p] = None
    /\ Call([use |-> "share", start |-> IF p = None THEN None ELSE prev[p],
             max |-> IF p = None THEN 0 ELSE LeastOf(Height(p), REAL_CHAIN_LENGTH) - 1,
             desired |-> desired])

get_expected_payouts(best, desired) ==
    Call([use |-> "estimate", start |-> best,
          max |-> LeastOf(Height(best), REAL_CHAIN_LENGTH), desired |-> desired])

add(h) ==
    /\ status # "walking" /\ h \notin items
    /\ items' = items \cup {h}
    /\ status' = "idle" /\ Reset
    /\ UNCHANGED <<prev, share, skips>>

(* Tracker.removed calls forget_item.                                       *)
forget_item(h) == [x \in DOMAIN skips \ {h} |-> skips[x]]

remove(h) ==
    /\ status # "walking" /\ h \in items
    /\ prev[h] \notin items \/ \A x \in items : prev[x] # h
    /\ items' = items \ {h}
    /\ skips' = forget_item(h)
    /\ status' = "idle" /\ Reset
    /\ UNCHANGED <<prev, share>>

Init ==
    /\ prev \in Links /\ share \in Contents
    /\ items = {} /\ skips = NoJumps
    /\ status = "idle" /\ question = NoQuestion /\ pos = None
    /\ sum = Zero /\ updates = NoJumps /\ amounts = Nothing

Next ==
    \/ \E h \in Hash : add(h) \/ remove(h)
    \/ \E p \in items \cup {None}, desired \in Desired :
          generate_transaction(p, desired) \/ get_expected_payouts(p, desired)
    \/ Round

Spec == Init /\ [][Next]_vars

-----------------------------------------------------------------------------
(* What the shares of a chain add up to, one by one down to the first one.  *)
Sums ==
    LET sums[x \in Nodes] ==
            IF x = None THEN Zero ELSE combine_deltas(get_delta(x), sums[prev[x]])
    IN sums

(* A share and those below it.                                              *)
Ways ==
    LET ways[x \in Nodes] == IF x = None THEN {None} ELSE {x} \cup ways[prev[x]]
    IN ways

Between(x, y) == [c \in Column |-> Sums[x][c] - Sums[y][c]]

(* An answer that only the chain decides: the shares below the first one,   *)
(* as many as asked for or as weigh what is desired, the last one in part.  *)
OwedWhole(q, s) ==
    \E y \in Ways[q.start] : s = Between(q.start, y) /\ Enough(q, s)
OwedPart(q, s) ==
    \E y \in Ways[q.start] \ {None} :
       LET above == Between(q.start, y)
           missing == q.desired - above["total"]
       IN /\ above["shares"] < q.max
          /\ missing \in 1..(share[y].attempts * Unit - 1)
          /\ s = combine_deltas(above, Part(missing, get_delta(y)))

(* Whatever was asked, thrown and forgotten before, get_cumulative_weights  *)
(* raises nothing (the AssertionError and the assertions of __call__,       *)
(* KeyError for a share that is gone) and adds up the shares of the chain.  *)
AnswersExact ==
    /\ status \in {"idle", "walking", "returned"}
    /\ status = "returned" => OwedWhole(question, sum) \/ OwedPart(question, sum)

(* The coinbase pays the subsidy, no more and no less, and nothing negative *)
(* (the ValueError of generate_transaction), because what the addresses and *)
(* the donation weigh is the total weight (its assertion), partial share    *)
(* included.  Only one with as many destinations as there may be pays less: *)
(* what those that are left out would get is paid to nobody.                *)
LeavesOut ==
    /\ question.use = "share"
    /\ Cardinality({a \in Address : amounts[a] > 0} \cup {Donation}) = MaxDests
    /\ \E subsidy \in Subsidies : OverAddresses(amounts) < subsidy

PayoutsAddUp ==
    status = "returned" =>
      /\ \A a \in Address : amounts[a] >= 0
      /\ OverAddresses(amounts) \in Subsidies \/ LeavesOut
      /\ sum["total"] = sum["donation"] + OverAddresses(sum)

=============================================================================
