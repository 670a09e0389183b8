----------------------------- MODULE OkayTracker -----------------------------
(***************************************************************************)
(* The share chain as a node judges it: OkayTracker.think (p2pool/data.py)  *)
(* and the node's handlers that call it (p2pool/node.py).  Shares arrive in  *)
(* any order and any batches; think verifies them from the heads downwards, *)
(* discards the bad ones, asks for missing parents and picks the share to   *)
(* build on; clean_tracker forgets old heads and deep tails.                *)
(*                                                                         *)
(* Of a share the model keeps its parent and its kind; whether check        *)
(* accepts it follows from the two.  Heads and tails are the functions of   *)
(* the items that Forest proves the tracker's indexes to be.  Python's      *)
(* iteration orders, hash order, block rates and ages are any choice.       *)
(* Shares are recent: the timestamp filter on requests keeps all of them.   *)
(***************************************************************************)
EXTENDS ForestWalk, FiniteSets, Sequences, SequencesExt

CONSTANTS
    CHAIN_LENGTH,
    VerifyBatch,     \* how many shares think checks below a head (5)
    ForkDepth,       \* how far below the heads their work is compared (5)
    KeepHeads,       \* how many of the best heads are never eaten (5)
    DropSlack,       \* tails are kept below 2 * CHAIN_LENGTH + DropSlack (10)
    MaxNaughty,      \* generations that inherit a punishment (6)
    Kinds            \* the assignments of kinds to hashes considered

(* "ok"; "invalid": check refuses it; "excessive": it claims more than the  *)
(* block's fees; "heavy": its transactions exceed a block; "block": it      *)
(* solves a block.                                                          *)
Kind == {"ok", "invalid", "excessive", "heavy", "block"}

ASSUME TrackerAssumption ==
    /\ CHAIN_LENGTH \in Nat \ {0} /\ VerifyBatch \in Nat \ {0}
    /\ ForkDepth \in Nat /\ KeepHeads \in Nat \ {0}
    /\ DropSlack \in Nat /\ MaxNaughty \in Nat \ {0}
    /\ Kinds \subseteq [Hash -> Kind]

VARIABLES
    kind,        \* hash -> its kind
    verified,    \* the hashes in tracker.verified
    naughty,     \* hash -> the share's naughty attribute
    best,        \* best_share_var
    desired,     \* desired_var: the hashes to ask peers for
    blamed,      \* the shares whose senders the last set_best_share told off
    failed       \* how the last call of think ended: "no", "KeyError", ...

tvars == <<prev, kind, items, verified, naughty, best, desired, blamed, failed>>

-----------------------------------------------------------------------------
LeastOf(a, b) == IF a < b THEN a ELSE b
MostOf(a, b) == IF a > b THEN a ELSE b

LeavesOf(S) == {x \in S : \A y \in S : prev[y] # x}
TailOf(S, x) == LastMap(prev, S)[x]
Height(S, x) == HeightMap(prev, S)[x]

(* get_nth_parent_hash                                                      *)
Down(x, n) ==
    LET down[k \in 0..n] == IF k = 0 THEN x ELSE prev[down[k - 1]] IN down[n]

(* Tracker.remove's branches: all but an item between two others.           *)
Removable(S, x) == x \in LeavesOf(S) \/ prev[x] \notin S

Forget(f, gone) == [x \in Hash |-> IF x \in gone THEN 0 ELSE f[x]]

(* A run of think is a sequence of changes to a record: the tracker, what   *)
(* it found so far, and the exception that ended it.                        *)
Start == [items |-> items, verified |-> verified, naughty |-> naughty,
          bads |-> <<>>, desired |-> {}, blamed |-> {}, found |-> FALSE,
          best |-> None, heads |-> {}, failed |-> "no"]

-----------------------------------------------------------------------------
(* BaseShare.check, in the part that reads other shares.                    *)
CheckRefusesNaughty(st, h) ==         \* mutant of CheckPasses
    /\ prev[h] = None \/ prev[h] \in st.items
    /\ kind[h] \notin {"invalid", "excessive"}

CheckPasses(st, h) ==
    /\ prev[h] = None \/ prev[h] \in st.items
    /\ kind[h] # "invalid"

(* The share's naughty attribute after check: set before check may refuse   *)
(* the share, inherited only from a parent that was checked before it.      *)
Inherited(n) == IF n + 1 > MaxNaughty THEN 0 ELSE n + 1

NaughtyAfter(st, h) ==
    LET p == prev[h]
    IN IF p = None \/ p \notin st.items THEN st.naughty[h]
       ELSE IF st.naughty[p] > 0 THEN Inherited(st.naughty[p])
       ELSE IF kind[h] = "excessive" THEN 1
       ELSE st.naughty[h]

TooShort(st, h) ==
    Height(st.items, h) < CHAIN_LENGTH + 1 /\ TailOf(st.items, h) # None

(* attempt_verify; `found` is what it returns.                              *)
attempt_verify(st, h) ==
    IF st.failed # "no" THEN st
    ELSE IF h \in st.verified THEN [st EXCEPT !.found = TRUE]
    ELSE IF TooShort(st, h) THEN [st EXCEPT !.failed = "AssertionError"]
    ELSE [st EXCEPT !.naughty[h] = NaughtyAfter(st, h),
                    !.verified = IF CheckPasses(st, h) THEN @ \cup {h} ELSE @,
                    !.found = CheckPasses(st, h)]

-----------------------------------------------------------------------------
(* think, first loop: each head that is not a verified head is walked down  *)
(* until a share verifies.                                                  *)
BatchTooDeep(st, h) ==                \* mutant of BatchOf
    IF TailOf(st.items, h) = None THEN Height(st.items, h)
    ELSE LeastOf(VerifyBatch, MostOf(0, 1 + Height(st.items, h) - CHAIN_LENGTH))

BatchTooShallow(st, h) ==             \* mutant of BatchOf
    IF TailOf(st.items, h) = None THEN Height(st.items, h)
    ELSE LeastOf(VerifyBatch, MostOf(0, Height(st.items, h) - 1 - CHAIN_LENGTH))

BatchOf(st, h) ==
    IF TailOf(st.items, h) = None THEN Height(st.items, h)
    ELSE LeastOf(VerifyBatch, MostOf(0, Height(st.items, h) - CHAIN_LENGTH))

BadIfFailed(st, h) ==
    IF st.found \/ st.failed # "no" THEN st ELSE [st EXCEPT !.bads = Append(@, h)]

VerifyFromHead(st, h) ==
    LET n == BatchOf(st, h)
        at[k \in 0..n] ==
            IF k = 0 THEN [st EXCEPT !.found = FALSE]
            ELSE IF at[k - 1].found THEN at[k - 1]
            ELSE BadIfFailed(attempt_verify(at[k - 1], Down(h, k - 1)), Down(h, k - 1))
    IN IF at[n].found \/ TailOf(st.items, h) = None THEN at[n]
       ELSE [at[n] EXCEPT !.desired = @ \cup {TailOf(st.items, h)}]

(* Second loop: the bad shares are removed.  One listed twice may be gone   *)
(* already (self.items[bad] raises); one between two others stays.          *)
RemoveBad(st, h) ==
    IF st.failed # "no" THEN st
    ELSE IF h \in st.verified THEN [st EXCEPT !.failed = "AssertionError"]
    ELSE IF h \notin st.items THEN [st EXCEPT !.failed = "KeyError"]
    ELSE IF ~Removable(st.items, h) THEN [st EXCEPT !.blamed = @ \cup {h}]
    ELSE [st EXCEPT !.blamed = @ \cup {h}, !.items = @ \ {h},
                    !.naughty = Forget(@, {h})]

(* Third loop: each verified head is extended downwards towards             *)
(* CHAIN_LENGTH, or the parents it lacks are asked for.  `last` is where    *)
(* the verified chain ends.                                                 *)
ReachIgnoresOrigin(st, height, last) ==   \* mutant of Reach
    LeastOf(MostOf(CHAIN_LENGTH - height, 0),
            MostOf(Height(st.items, last) - 1 - CHAIN_LENGTH, 0))

Reach(st, height, last) ==
    LeastOf(MostOf(CHAIN_LENGTH - height, 0),
            IF TailOf(st.items, last) = None THEN Height(st.items, last)
            ELSE MostOf(Height(st.items, last) - 1 - CHAIN_LENGTH, 0))

LackingNothing(st, height, last) == {}    \* mutant of Lacking
Lacking(st, height, last) ==
    IF height < CHAIN_LENGTH THEN {TailOf(st.items, last)} \ {None} ELSE {}

ExtendHead(st, h) ==
    LET height == Height(st.verified, h)
        last == TailOf(st.verified, h)
        n == Reach(st, height, last)
        at[k \in 0..n] ==
            IF k = 0 THEN [st EXCEPT !.found = TRUE]
            ELSE IF ~at[k - 1].found THEN at[k - 1]
            ELSE attempt_verify(at[k - 1], Down(last, k - 1))
    IN [at[n] EXCEPT !.desired = @ \cup Lacking(st, height, last)]

AnyOrder(Op(_, _), st, S) == {FoldLeft(Op, st, order) : order \in SetToSeqs(S)}

Judged(st) ==
    LET verifiedSome == AnyOrder(VerifyFromHead, st,
                                 LeavesOf(st.items) \ LeavesOf(st.verified))
        cleared == {FoldLeft(RemoveBad, s, s.bads) : s \in verifiedSome}
    IN UNION {IF s.failed = "no" THEN AnyOrder(ExtendHead, s, LeavesOf(s.verified))
              ELSE {s} : s \in cleared}

-----------------------------------------------------------------------------
(* think, the choice of the best share.                                     *)

(* should_punish_reason                                                     *)
Punish(st, h) ==
    CASE kind[h] = "block" -> -1
      [] kind[h] # "block" /\ st.naughty[h] > 0 -> st.naughty[h]
      [] kind[h] = "heavy" /\ st.naughty[h] = 0 -> 1
      [] OTHER -> 0

(* The work ForkDepth shares below the head (every share is one unit of     *)
(* work), less the head's own if it is punished.                            *)
Score(st, h) ==
    Height(st.verified, Down(h, LeastOf(ForkDepth, Height(st.verified, h))))
      - LeastOf(Punish(st, h), 1)

Beats(st, g, h) ==
    \/ Score(st, g) > Score(st, h)
    \/ Score(st, g) = Score(st, h) /\ Punish(st, g) < Punish(st, h)

Atop(st, t) == {h \in LeavesOf(st.verified) : TailOf(st.verified, h) = t}

(* score, up to the estimated rate that breaks ties.                        *)
TreeScore(st, t) ==
    LET heights == {Height(st.verified, h) : h \in Atop(st, t)}
    IN LeastOf(CHAIN_LENGTH, CHOOSE n \in heights : \A m \in heights : m <= n)

BestTails(st) ==
    LET tails == {TailOf(st.verified, h) : h \in st.verified}
    IN {t \in tails : \A u \in tails : TreeScore(st, u) <= TreeScore(st, t)}

(* best_descendent: the ends of the longest ways up over shares that are    *)
(* not naughty; N stays below its limit of 20.                              *)
DescendThroughNaughty(st, h) ==       \* mutant of best_descendent
    LET all == st.items \ {h}
        above == {h} \cup {x \in all : TailOf(all, x) = h}
    IN {x \in above : \A y \in above : Height(all, y) <= Height(all, x)}

best_descendent(st, h) ==
    LET calm == {x \in st.items : st.naughty[x] = 0} \ {h}
        above == {h} \cup {x \in calm : TailOf(calm, x) = h}
    IN {x \in above : \A y \in above : Height(calm, y) <= Height(calm, x)}

JumpAnywhere(st, head) ==             \* mutant of AfterPunishing
    LET punished == {x \in st.items : Punish(st, x) > 0}
    IN {[st EXCEPT !.best = TailOf(punished, head)]}

(* From the best head down past the punished shares; if the share reached   *)
(* is an ordinary one, up again.                                            *)
AfterPunishing(st, head) ==
    LET punished == {x \in st.items : Punish(st, x) > 0}
        base == TailOf(punished, head)
    IN IF base = head THEN {[st EXCEPT !.best = head]}
       ELSE IF base \notin st.items THEN {[st EXCEPT !.failed = "KeyError"]}
       ELSE IF Punish(st, base) # 0 THEN {[st EXCEPT !.best = base]}
       ELSE {[st EXCEPT !.best = x] : x \in best_descendent(st, base)}

Chosen(st) ==
    IF st.failed # "no" \/ st.verified = {} THEN {st}
    ELSE UNION {LET heads == Atop(st, t)
                    tops == {h \in heads : \A g \in heads : ~Beats(st, g, h)}
                IN UNION {AfterPunishing([st EXCEPT !.heads = heads], h) : h \in tops}
                : t \in BestTails(st)}

think(st) == UNION {Chosen(s) : s \in Judged(st)}

-----------------------------------------------------------------------------
(* The node.                                                                *)

TInit ==
    /\ prev \in Links /\ kind \in Kinds
    /\ items = {} /\ verified = {} /\ naughty = [x \in Hash |-> 0]
    /\ best = None /\ desired = {} /\ blamed = {} /\ failed = "no"

SetTracker(st) ==
    /\ items' = st.items
    /\ verified' = st.verified
    /\ naughty' = st.naughty
    /\ failed' = st.failed
    /\ UNCHANGED <<prev, kind>>

(* set_best_share.  An exception in think leaves the tracker as it is then  *)
(* and reaches neither the variables nor the peers.                         *)
set_best_share(from) ==
    \E st \in think(from) :
       /\ SetTracker(st)
       /\ IF st.failed = "no"
          THEN best' = st.best /\ desired' = st.desired /\ blamed' = st.blamed
          ELSE UNCHANGED <<best, desired>> /\ blamed' = {}

(* P2PNode.handle_shares, for shares from the peer that pushed them, from a *)
(* download or from the node's own miners.                                  *)
handle_shares(new) ==
    /\ new # {} /\ new \cap items = {}
    /\ set_best_share([Start EXCEPT !.items = @ \cup new])

(* bitcoind_work.changed                                                    *)
new_work == set_best_share(Start)

(* clean_tracker: heads that are old enough are eaten one after the other,  *)
(* except the best of the verified ones ...                                 *)
Kept(st) ==
    LET n == LeastOf(KeepHeads, Cardinality(st.heads))
    IN {K \in SUBSET st.heads :
          /\ Cardinality(K) = n
          /\ \A h \in st.heads \ K, k \in K : ~Beats(st, h, k)}

Eaten(st, K) ==
    IF st.heads = {} THEN {{}}
    ELSE {old \in SUBSET (st.items \ K) :
            \A x \in st.items : prev[x] \in old => x \in old}

(* ... and the lowest shares of every tail whose heads are all high enough  *)
(* go, pass after pass.                                                     *)
DropIfAnyLong(S) ==                   \* mutant of DropPass
    LET long(t) == \E h \in LeavesOf(S) :
                      TailOf(S, h) = t /\ Height(S, h) >= 2 * CHAIN_LENGTH + DropSlack
    IN S \ {x \in S : prev[x] \notin S /\ long(prev[x])}

DropPass(S) ==
    LET long(t) == \A h \in LeavesOf(S) :
                      TailOf(S, h) = t => Height(S, h) >= 2 * CHAIN_LENGTH + DropSlack
    IN S \ {x \in S : prev[x] \notin S /\ long(prev[x])}

Dropped(S) ==
    LET pass[k \in 0..N] == IF k = 0 THEN S ELSE DropPass(pass[k - 1])
    IN pass[N]

Cleaned(st, old) ==
    LET left == Dropped(st.items \ old)
    IN [Start EXCEPT !.items = left, !.verified = st.verified \cap left,
                     !.naughty = Forget(st.naughty, Hash \ left)]

(* Which bad shares the first think found is not told to the peers.         *)
clean_tracker ==
    \E st \in think(Start) :
       IF st.failed # "no"
       THEN SetTracker(st) /\ UNCHANGED <<best, desired>> /\ blamed' = {}
       ELSE \E K \in Kept(st) : \E old \in Eaten(st, K) :
            set_best_share(Cleaned(st, old))

TNext ==
    \/ \E new \in SUBSET Hash : handle_shares(new)
    \/ new_work
    \/ clean_tracker

TSpec == TInit /\ [][TNext]_tvars

(* download_shares: a desired share and some of its parents, from a peer    *)
(* that has the whole chain.                                                *)
download_shares(t) ==
    /\ t \in desired
    /\ \E k \in 0..(Height(Hash, t) - 1) :
          handle_shares({Down(t, j) : j \in 0..k} \ items)

(* Every request that is chosen again and again (random.choice) is answered *)
(* in the end: strong fairness of download_shares(t), whose guard is        *)
(* t \in desired.                                                           *)
FairSpec == /\ TSpec
            /\ \A t \in Hash : []<>(t \in desired) => []<><<download_shares(t)>>_tvars

-----------------------------------------------------------------------------
(* The assertions of attempt_verify and think hold whatever arrived in      *)
(* whatever order: no share is checked before CHAIN_LENGTH parents are      *)
(* there, none that was verified is thrown out as bad.                      *)
ThinkAssertionsHold == failed # "AssertionError"

(* Only shares that check refuses get their sender told off: a share whose  *)
(* parents have not arrived yet is never taken for a bad one.               *)
OnlyInvalidBlamed == \A h \in blamed : kind[h] = "invalid"

(* The node builds on a share it has, and on one at all when any verified   *)
(* share is there, whatever clean_tracker forgot.                           *)
BestPresent ==
    failed = "no" => /\ best = None => verified = {}
                     /\ best # None => best \in items

(* A head whose chain is long enough to check, and which is not bad, is     *)
(* verified, so it competes for best: none is forgotten between two calls   *)
(* of think.                                                                *)
NoHeadOverlooked ==
    failed = "no" =>
      \A h \in LeavesOf(items) :
         (/\ kind[h] # "invalid"
          /\ Height(items, h) > CHAIN_LENGTH \/ TailOf(items, h) = None)
            => h \in verified

(* "try to get at least CHAIN_LENGTH height for each verified head,          *)
(* requesting parents if needed": below a verified head the CHAIN_LENGTH    *)
(* shares that payouts count are verified, or the verified chain ends at    *)
(* the start of the chain, at a bad share, or over shares whose missing     *)
(* parent is requested.                                                     *)
WindowVerified ==
    failed = "no" =>
      \A h \in LeavesOf(verified) :
         LET last == TailOf(verified, h)
         IN \/ Height(verified, h) >= CHAIN_LENGTH
            \/ last = None
            \/ last \in Hash /\ kind[last] = "invalid"
            \/ TailOf(items, last) \in desired \ {None}

(* The node does not mine on a share it found naughty, unless that share    *)
(* is a block.                                                              *)
NaughtyNeverMined ==
    failed = "no" /\ best # None => naughty[best] = 0 \/ kind[best] = "block"

(* Whatever is forgotten, a verified head that stays keeps the verified     *)
(* chain below it, or as much of it as the drop limit promises: payouts     *)
(* never lose shares that count.                                            *)
KeepsWindow ==
    \A x \in LeavesOf(items) \cap verified \cap verified' :
       HeightMap(prev', verified')[x]
          >= LeastOf(Height(verified, x), 2 * CHAIN_LENGTH + DropSlack - 1)
WindowKept == [][KeepsWindow]_tvars

(* Once a share arrived, the requests for missing parents end with a best   *)
(* share whose whole payout window is verified, in whatever order shares    *)
(* are pushed and downloaded: if no share is out of the ordinary, and no    *)
(* head grows old enough to be eaten from some time on.                     *)
BestHasWindow ==
    /\ best # None
    /\ Height(verified, best) >= CHAIN_LENGTH \/ TailOf(verified, best) = None
NoHeadEaten == LeavesOf(items) \subseteq items'
CatchesUp ==
    (\A h \in Hash : kind[h] = "ok") /\ <>[][NoHeadEaten]_tvars
       => (items # {} ~> BestHasWindow)
=============================================================================
