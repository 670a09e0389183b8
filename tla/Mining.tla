------------------------------- MODULE Mining -------------------------------
(***************************************************************************)
(* From the node's work to a miner's reply: WorkerBridge.get_work and       *)
(* got_response (p2pool/work.py), the CachingWorkerBridge that splits one    *)
(* piece of work into nonce prefixes (p2pool/bitcoin/worker_interface.py),   *)
(* and a session of p2pool/bitcoin/stratum.py with its jobs, its difficulty  *)
(* and the timers that move it.                                             *)
(*                                                                         *)
(* Targets are small numbers; the larger, the easier.  A solution is what a *)
(* miner does with a job: an extranonce, a time and a nonce, with the level *)
(* of the hash that comes out.  A header is the piece of work, the prefix    *)
(* and the solution.  Blocks, merged mining and statistics are left out.    *)
(*                                                                         *)
(* new_work_event calls its watchers one after another within one turn of   *)
(* the reactor: "due" holds those still to be called and "answering" the     *)
(* submit that waits for them, and nothing else happens until both are done. *)
(***************************************************************************)
EXTENDS Integers, FiniteSets

CONSTANTS
    Sessions,        \* stratum connections, each with its provider
    Users, Nobody,   \* usernames, and the one of a session that has not authorized
    Address,         \* user -> the address its shares pay to
    PoolAddress,     \* the node's own
    Want,            \* user -> desired_pseudoshare_target, 0 for none
    Solutions, Pow,  \* Pow[solution]: the level of the hash
    Easiest,         \* targets are 1..Easiest
    BlockTarget,
    Prefixes,        \* 2 ** _my_bits
    Settings,        \* what a node and its miners may be like, see Setting
    None,            \* what an entry that is absent has
    MaxTimes, MaxWork, MaxPending,    \* bounds
    MaxJobs          \* bound: session -> the jobs it is sent

Targets == 1..Easiest

(* The environment variables of the node (fixed is FIXED_INITIAL_DIFF, min   *)
(* MIN_INITIAL_DIFF, 0 for off; hardest NO_SUBMIT_RATCHET_MAX, floor         *)
(* IDLE_DOWNSHIFT_FLOOR), whether worker_fee is above 0, who mines with what   *)
(* usernames, the targets the share chain and the local hash rate lead to,   *)
(* and the ends of the net's SANE_TARGET_RANGE; credits bounds what is       *)
(* accepted or added.                                                       *)
Setting ==
    [fixed : 0..Easiest, min : 0..Easiest, hardest : Targets, floor : Targets,
     ratchet : BOOLEAN, perNotify : BOOLEAN, downshift : BOOLEAN, workerFee : BOOLEAN,
     miners : SUBSET Sessions, users : SUBSET Users,
     shares : SUBSET Targets, local : SUBSET Targets,
     saneMin : Targets, saneMax : Targets, credits : Nat]

ASSUME MiningAssumption ==
    /\ Nobody \in Users /\ Want \in [Users -> 0..Easiest] /\ Want[Nobody] = 0
    /\ Easiest \in Nat \ {0} /\ BlockTarget \in Targets
    /\ Pow \in [Solutions -> Nat] /\ Prefixes \in Nat \ {0}
    /\ Settings \subseteq Setting
    /\ \A e \in Settings : \A t \in e.shares : BlockTarget <= t
    /\ {MaxTimes, MaxWork, MaxPending} \subseteq Nat
    /\ MaxJobs \in [Sessions -> Nat]

Addresses == {Address[u] : u \in Users} \cup {PoolAddress}

VARIABLES
    setting,      \* never changes
    times,        \* new_work_event.times
    made,         \* how many pieces of work get_work has made
    since, cache, \* CachingWorkerBridge._times and _cache
    provider,     \* session -> the state of its StratumRPCMiningProvider
    received,     \* headers accepted, the received_header_hashes of all work
    shares,       \* headers added to the tracker
    raised,       \* headers whose submit ended in an exception of think
    clashes,      \* tracker.add of a share that is there
    accepted,     \* total_shares['accepted']
    due, answering

bridge == <<made, since, cache>>
results == <<received, shares, raised, clashes, accepted>>
vars == <<setting, times, bridge, provider, results, due, answering>>

Larger(a, b) == IF a > b THEN a ELSE b
Smaller(a, b) == IF a < b THEN a ELSE b
Busy == due # {} \/ answering # None
Open == {s \in Sessions : provider[s].life = "open"}
Jobs(s) == {j \in 1..MaxJobs[s] : provider[s].jobs[j] # None}

-----------------------------------------------------------------------------
(* The work to give out for an address: what is cached for it, if no newer  *)
(* work has been announced, else a new piece from get_work.                 *)
Cached(a) == IF since = times THEN cache[a] ELSE None

clip(t) == Larger(setting.saneMin, Smaller(t, setting.saneMax))

get_work(want) ==
    {[id |-> made + 1, times |-> times, share |-> t,
      target |-> clip(Larger(t, IF want > 0 THEN want ELSE natural))] :
        t \in setting.shares, natural \in setting.local}

WorkFor(a, want) ==
    IF Cached(a) # None THEN {Cached(a)}
    ELSE {[work |-> x, nonce |-> 0] : x \in get_work(want)}

LeftKept(a, entry) ==                  \* mutant of Left
    [b \in Addresses |-> IF b = a THEN entry ELSE Cached(b)]

Left(a, entry) ==
    [b \in Addresses |->
        IF b # a THEN Cached(b)
        ELSE IF entry.nonce + 1 # Prefixes THEN [entry EXCEPT !.nonce = @ + 1]
        ELSE None]

(* The difficulty a session that has not submitted is moved to.             *)
Forced(w) ==
    IF w.down = 0 THEN setting.fixed - w.up
    ELSE Smaller(setting.floor, setting.fixed - w.up + w.down)

Forcing(w) == setting.fixed > 0 /\ Want[w.user] = 0 /\ ~w.sampled

TargetUnclamped(w, x) ==               \* mutant of NewTarget
    IF Want[w.user] > 0 THEN Larger(Want[w.user], BlockTarget)
    ELSE IF Forcing(w) THEN Forced(w)
    ELSE IF w.target = 0 THEN x.target ELSE Larger(x.share, w.target)

NewTarget(w, x) ==
    LET plain == IF w.target = 0 THEN x.target ELSE Larger(x.share, w.target) IN
    IF Want[w.user] > 0 THEN Larger(Want[w.user], BlockTarget)
    ELSE IF Forcing(w) THEN Larger(x.share, Forced(w))
    ELSE IF setting.min > 0 THEN Larger(x.share, Smaller(plain, setting.min))
    ELSE plain

(* set_difficulty, unless it is what was last sent, and notify, to a session *)
(* in state w; then the timers.                                             *)
NotifiedDeaf(w, entry) ==              \* mutant of Notified
    LET t == NewTarget(w, entry.work) IN
    [w EXCEPT !.target = t, !.fixed = Want[w.user] > 0, !.sent = t,
        !.told = IF w.target = 0 THEN t ELSE @, !.counter = @ + 1,
        !.jobs[w.counter + 1] =
            [work |-> entry.work, nonce |-> entry.nonce, target |-> t,
             told |-> IF w.target = 0 THEN t ELSE w.told, fixed |-> Want[w.user] > 0],
        !.upTimer = @ \/ (setting.ratchet /\ Forcing(w)),
        !.up = IF setting.perNotify /\ Forcing(w) /\ setting.fixed - (@ + 1) >= setting.hardest
               THEN @ + 1 ELSE @,
        !.downTimer = @ \/ (setting.downshift /\ Forcing(w))]

Notified(w, entry) ==
    LET t == NewTarget(w, entry.work)
        told == IF t # w.sent THEN t ELSE w.told
    IN [w EXCEPT !.target = t, !.fixed = Want[w.user] > 0, !.sent = t, !.told = told,
           !.counter = @ + 1,
           !.jobs[w.counter + 1] = [work |-> entry.work, nonce |-> entry.nonce,
                                    target |-> t, told |-> told,
                                    fixed |-> Want[w.user] > 0],
           !.upTimer = @ \/ (setting.ratchet /\ Forcing(w)),
           !.up = IF setting.perNotify /\ Forcing(w) /\ setting.fixed - (@ + 1) >= setting.hardest
                  THEN @ + 1 ELSE @,
           !.downTimer = @ \/ (setting.downshift /\ Forcing(w))]

(* A provider, and what is left of a lost one that nothing refers to.       *)
NewProvider(s) ==
    [life |-> "open", user |-> Nobody, target |-> 0, fixed |-> FALSE,
     jobs |-> [j \in 1..MaxJobs[s] |-> None], counter |-> 0, sent |-> 0, told |-> 0,
     sampled |-> FALSE, up |-> 0, down |-> 0, upTimer |-> FALSE, downTimer |-> FALSE,
     pending |-> 0]

Quiet(w) == ~w.upTimer /\ ~w.downTimer /\ w.pending = 0
Gone(s) == [NewProvider(s) EXCEPT !.life = "closed"]
Kept(s, w) == IF w.life = "closed" /\ Quiet(w) THEN Gone(s) ELSE w

(* _send_work of session s in state w.  Without peers, shares or bitcoind   *)
(* get_work raises and nothing is sent; the bounds look the same.           *)
SendWork(s, w) ==
    \/ /\ provider' = [provider EXCEPT ![s] = Kept(s, w)]
       /\ UNCHANGED bridge
    \/ /\ w.counter < MaxJobs[s]
       /\ \E a \in {Address[w.user]} \cup (IF setting.workerFee THEN {PoolAddress} ELSE {}) :
          \E entry \in WorkFor(a, Want[w.user]) :
             /\ entry.work.id <= MaxWork
             /\ made' = Larger(made, entry.work.id)
             /\ since' = times
             /\ cache' = Left(a, entry)
             /\ provider' = [provider EXCEPT ![s] = Kept(s, Notified(w, entry))]

-----------------------------------------------------------------------------
(* A connection gets a provider, which watches new_work_event.              *)
connectionMade(s) ==
    /\ ~Busy /\ s \in setting.miners /\ provider[s] = Gone(s)
    /\ provider' = [provider EXCEPT ![s] = NewProvider(s)]
    /\ UNCHANGED <<setting, times, bridge, results, due, answering>>

(* subscribe and authorize send work in a turn of their own.                *)
rpc_subscribe(s) ==
    /\ ~Busy /\ s \in Open /\ provider[s].pending < MaxPending
    /\ provider' = [provider EXCEPT ![s].pending = @ + 1]
    /\ UNCHANGED <<setting, times, bridge, results, due, answering>>

rpc_authorize(s, u) ==
    /\ ~Busy /\ s \in Open /\ provider[s].pending < MaxPending
    /\ LET w == [provider[s] EXCEPT !.pending = @ + 1, !.user = u]
       IN provider' = [provider EXCEPT ![s] = w]
    /\ UNCHANGED <<setting, times, bridge, results, due, answering>>

send_later(s) ==
    /\ ~Busy /\ provider[s].pending > 0
    /\ SendWork(s, [provider[s] EXCEPT !.pending = @ - 1])
    /\ UNCHANGED <<setting, times, results, due, answering>>

(* The best share, the block template or the merged work changed.           *)
Announce ==
    /\ times < MaxTimes
    /\ times' = times + 1
    /\ due' = Open

new_work ==
    /\ ~Busy
    /\ Announce
    /\ UNCHANGED <<setting, bridge, provider, results, answering>>

notify(s) ==
    /\ s \in due
    /\ due' = due \ {s}
    /\ SendWork(s, provider[s])
    /\ UNCHANGED <<setting, times, results, answering>>

(* Timers of a session that has not submitted.                              *)
Ratcheted(w) == ~w.sampled /\ setting.fixed - (w.up + 1) >= setting.hardest

ratchet_diff(s) ==
    LET w == [provider[s] EXCEPT !.upTimer = FALSE] IN
    /\ ~Busy /\ provider[s].upTimer
    /\ IF Ratcheted(provider[s]) THEN SendWork(s, [w EXCEPT !.up = @ + 1])
       ELSE provider' = [provider EXCEPT ![s] = Kept(s, w)] /\ UNCHANGED bridge
    /\ UNCHANGED <<setting, times, results, due, answering>>

Downshifted(w) == ~w.sampled /\ setting.fixed - w.up + w.down + 1 <= setting.floor

downshift_diff(s) ==
    LET w == [provider[s] EXCEPT !.downTimer = FALSE] IN
    /\ ~Busy /\ provider[s].downTimer
    /\ IF Downshifted(w) THEN SendWork(s, [w EXCEPT !.down = @ + 1])
       ELSE provider' = [provider EXCEPT ![s] = Kept(s, w)] /\ UNCHANGED bridge
    /\ UNCHANGED <<setting, times, results, due, answering>>

(* The jobs of a session are kept for 300 s after their last use.           *)
expire(s, j) ==
    /\ ~Busy /\ s \in Open /\ j \in Jobs(s)
    /\ provider' = [provider EXCEPT ![s].jobs[j] = None]
    /\ UNCHANGED <<setting, times, bridge, results, due, answering>>

-----------------------------------------------------------------------------
(* A submit for a job: got_response adds a share to the tracker, unless it   *)
(* is late and has siblings enough (crowded), and set_best_share may find    *)
(* another best share (best), which is new work for every session, or raise  *)
(* (fails): think meets a KeyError.  Then the share stays where it is and    *)
(* nothing else is done about the submit.  What met the target of the job is *)
(* accepted once.  Vardiff, in answer, comes after all of that.             *)
Stopped(w) == [w EXCEPT !.upTimer = FALSE, !.downTimer = FALSE]

unlinked(s, j) ==
    /\ ~Busy /\ s \in Open /\ j \notin Jobs(s)
    /\ provider' = [provider EXCEPT ![s] = Stopped(@)]
    /\ UNCHANGED <<setting, times, bridge, results, due, answering>>

Header(job, x) == <<job.work.id, job.nonce, x>>
MeetsOnTime(job, x) ==                 \* mutant of Meets
    /\ Pow[x] <= job.target /\ job.work.times = times
    /\ Header(job, x) \notin received

Meets(job, x) == Pow[x] <= job.target /\ Header(job, x) \notin received
IsShare(job, x) == Pow[x] <= job.work.share /\ Header(job, x) \notin received

got_response(s, job, x, crowded, best, fails) ==
    LET onTime == job.work.times = times
        adds == IsShare(job, x) /\ (onTime \/ ~crowded)
    IN
    IF adds /\ Header(job, x) \in shares
    THEN /\ clashes' = TRUE            \* ValueError('item already present')
         /\ UNCHANGED <<times, received, shares, raised, accepted, due, answering>>
    ELSE /\ shares' = IF adds THEN shares \cup {Header(job, x)} ELSE shares
         /\ UNCHANGED clashes
         /\ IF adds /\ onTime /\ fails
            THEN /\ raised' = raised \cup {Header(job, x)}
                 /\ UNCHANGED <<times, received, accepted, due, answering>>
            ELSE /\ IF adds /\ onTime /\ best THEN Announce ELSE UNCHANGED <<times, due>>
                 /\ IF Meets(job, x)
                    THEN /\ received' = received \cup {Header(job, x)}
                         /\ accepted' = accepted + 1
                         /\ answering' = [session |-> s, share |-> job.work.share]
                    ELSE UNCHANGED <<received, accepted, answering>>
                 /\ UNCHANGED raised

rpc_submit(s, j, x) ==
    /\ ~Busy /\ s \in Open /\ j \in Jobs(s)
    /\ accepted < setting.credits /\ Cardinality(shares) < setting.credits
    /\ provider' = [provider EXCEPT ![s] = Stopped(@)]
    /\ \E crowded, best, fails \in BOOLEAN :
          got_response(s, provider[s].jobs[j], x, crowded, best, fails)
    /\ UNCHANGED <<setting, bridge>>

Vardiff(w, share, t) == [w EXCEPT !.target = Larger(share, t)]

answer ==
    /\ due = {} /\ answering # None
    /\ answering' = None
    /\ LET s == answering.session
           w == [provider[s] EXCEPT !.sampled = TRUE]
       IN IF provider[s].fixed THEN UNCHANGED <<provider, bridge>>
          ELSE \/ provider' = [provider EXCEPT ![s] = w] /\ UNCHANGED bridge
               \/ /\ provider[s].sampled
                  /\ \E t \in Targets : SendWork(s, Vardiff(w, answering.share, t))
    /\ UNCHANGED <<setting, times, results, due>>

close(s) ==
    /\ ~Busy /\ s \in Open
    /\ LET w == [provider[s] EXCEPT !.life = "closed", !.upTimer = FALSE, !.downTimer = FALSE]
       IN provider' = [provider EXCEPT ![s] = Kept(s, w)]
    /\ UNCHANGED <<setting, times, bridge, results, due, answering>>

-----------------------------------------------------------------------------
Init ==
    /\ setting \in Settings
    /\ times = 0 /\ made = 0 /\ since = 0
    /\ cache = [a \in Addresses |-> None]
    /\ provider = [s \in Sessions |-> Gone(s)]
    /\ received = {} /\ shares = {} /\ raised = {} /\ clashes = FALSE /\ accepted = 0
    /\ due = {} /\ answering = None

Session(s) ==
    \/ connectionMade(s) \/ rpc_subscribe(s) \/ close(s)
    \/ \E u \in setting.users : rpc_authorize(s, u)
    \/ send_later(s) \/ notify(s) \/ ratchet_diff(s) \/ downshift_diff(s)
    \/ \E j \in 1..MaxJobs[s] :
          \/ expire(s, j) \/ unlinked(s, j)
          \/ \E x \in Solutions : rpc_submit(s, j, x)

Next == new_work \/ answer \/ \E s \in Sessions : Session(s)

Spec == Init /\ [][Next]_vars

-----------------------------------------------------------------------------
Work == [id : 1..MaxWork, times : 0..MaxTimes, share : Targets, target : Targets]
Entry == [work : Work, nonce : 0..Prefixes - 1]
Job == [work : Work, nonce : 0..Prefixes - 1, target : Targets, told : Targets, fixed : BOOLEAN]

(* Every variable has its type.  None stands for the absence of              *)
(* a job, a cached piece of work or a submit in progress.                   *)
TypeOK ==
    /\ times \in 0..MaxTimes /\ made \in 0..MaxWork /\ since \in 0..MaxTimes
    /\ cache \in [Addresses -> Entry \cup {None}]
    /\ \A s \in Sessions :
          LET w == provider[s] IN
          /\ w.life \in {"open", "closed"} /\ w.user \in Users
          /\ {w.target, w.sent, w.told} \subseteq 0..Easiest
          /\ w.counter \in 0..MaxJobs[s] /\ w.pending \in 0..MaxPending
          /\ {w.fixed, w.sampled, w.upTimer, w.downTimer} \subseteq BOOLEAN
          /\ w.up \in Nat /\ w.down \in Nat
          /\ \A j \in 1..MaxJobs[s] : w.jobs[j] \in Job \cup {None}
    /\ received \subseteq (1..MaxWork) \X (0..Prefixes - 1) \X Solutions
    /\ shares \subseteq (1..MaxWork) \X (0..Prefixes - 1) \X Solutions
    /\ raised \subseteq shares /\ clashes \in BOOLEAN /\ accepted \in Nat /\ due \subseteq Open
    /\ answering = None \/ answering.session \in Sessions

(* No two jobs, of the same session or of two, are over the same headers:    *)
(* CachingWorkerBridge hands out each prefix of a piece of work once, also   *)
(* over new work, used-up prefixes and several workers of an address.       *)
JobId == UNION {{<<s, j>> : j \in Jobs(s)} : s \in Sessions}
Space(i) == LET job == provider[i[1]].jobs[i[2]] IN <<job.work.id, job.nonce>>
NoSharedWork == \A i, k \in JobId : Space(i) = Space(k) => i = k

(* A job is judged by the difficulty its miner has last been told when it    *)
(* got the job: leaving out a set_difficulty that would repeat the last one  *)
(* is sound, whatever moved the target in between.                          *)
JudgedAsTold == \A i \in JobId : LET job == provider[i[1]].jobs[i[2]] IN job.target = job.told

(* A miner that did not ask for a difficulty is never told to withhold what *)
(* would be a share: its jobs are no harder than the share target of their  *)
(* work, after vardiff, forced difficulties and changes of the work.  The   *)
(* first job of a connection takes the target of get_work, which is clipped *)
(* to the net's sane range (work.py:654) after it was made to reach the     *)
(* share target: there the range must include it.                           *)
NoShareWithheld ==
    \A i \in JobId : LET job == provider[i[1]].jobs[i[2]] IN
        ~job.fixed /\ (i[2] > 1 \/ job.work.share <= setting.saneMax)
            => job.target >= job.work.share

(* Nobody asks for a difficulty, and all share targets are sane.            *)
Unforced ==
    /\ \A u \in setting.users : Want[u] = 0
    /\ \A t \in setting.shares : t <= setting.saneMax

(* However often a header is sent, it is credited once (total_shares); and   *)
(* where nobody asks for a difficulty every share in the tracker has been    *)
(* credited to its miner, unless set_best_share raised under it, so that     *)
(* only then a header sent again makes tracker.add raise.                    *)
SharesCredited ==
    /\ accepted = Cardinality(received)
    /\ Unforced => shares \subseteq received \cup raised
    /\ clashes /\ Unforced => raised # {}
=============================================================================
