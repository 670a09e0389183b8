---------------------------- MODULE MiningProofs ----------------------------
(***************************************************************************)
(* Whatever the settings of a node, however many sessions and addresses it   *)
(* has and in whatever order work, submits and timers come: no two jobs are  *)
(* over the same headers, a job is judged by the difficulty its miner was    *)
(* told, no share is withheld, and every share found is credited.           *)
(***************************************************************************)
EXTENDS Mining, FiniteSetTheorems, TLAPS

(* At a node with settings e nobody asks for a difficulty, and every share   *)
(* target is within the net's sane range.                                   *)
Unasked(e) == (\A u \in e.users : Want[u] = 0) /\ (\A t \in e.shares : t <= e.saneMax)

Provider(s) ==
    [life : {"open", "closed"}, user : Users, target : 0..Easiest, fixed : BOOLEAN,
     jobs : [1..MaxJobs[s] -> Job \cup {None}], counter : 0..MaxJobs[s],
     sent : 0..Easiest, told : 0..Easiest, sampled : BOOLEAN, up : Nat, down : Nat,
     upTimer : BOOLEAN, downTimer : BOOLEAN, pending : 0..MaxPending]

(* Work is harder than the shares of its own time only where these are not   *)
(* sane.                                                                    *)
FairWork(e) ==
    {x \in Work : x.share \in e.shares /\ (x.share <= e.saneMax => x.share <= x.target)}
FairEntry(e) == [work : FairWork(e), nonce : 0..Prefixes - 1]

(* The j-th job of a connection.                                            *)
FairJob(e, j, job) ==
    /\ job.work \in FairWork(e)
    /\ job.target = job.told
    /\ ~job.fixed /\ (j > 1 \/ job.work.share <= e.saneMax) => job.target >= job.work.share
    /\ Unasked(e) => job.target >= job.work.share

(* A session knows what it told its miner, has a target once it was sent    *)
(* work, and its jobs are fair.                                             *)
Sound(e, s, w) ==
    /\ w \in Provider(s) /\ w.told = w.sent
    /\ w.user \in e.users \cup {Nobody}
    /\ w.target = 0 => w.counter = 0
    /\ \A j \in 1..MaxJobs[s] : w.jobs[j] # None => FairJob(e, j, w.jobs[j])

Typed ==
    /\ setting \in Settings /\ times \in 0..MaxTimes
    /\ provider = [s \in Sessions |-> provider[s]]
    /\ \A s \in Sessions : Sound(setting, s, provider[s])
    /\ made \in 0..MaxWork /\ since \in 0..MaxTimes
    /\ cache \in [Addresses -> FairEntry(setting) \cup {None}]

Results ==
    /\ received \subseteq (1..MaxWork) \X (0..Prefixes - 1) \X Solutions
    /\ shares \subseteq (1..MaxWork) \X (0..Prefixes - 1) \X Solutions
    /\ raised \subseteq shares /\ clashes \in BOOLEAN /\ accepted \in Nat /\ due \subseteq Open
    /\ \/ answering = None
       \/ answering \in [session : Sessions, share : Targets]

(* What has been made is not made again, the cache of one address is not    *)
(* that of another, and what is cached has the prefixes no job has.         *)
Fresh ==
    /\ \A a \in Addresses : cache[a] # None => cache[a].work.id <= made
    /\ \A a, b \in Addresses :
          cache[a] # None /\ cache[b] # None /\ cache[a].work.id = cache[b].work.id => a = b
    /\ \A s \in Sessions : \A j \in 1..MaxJobs[s] :
          provider[s].jobs[j] # None =>
             /\ provider[s].jobs[j].work.id <= made
             /\ \A a \in Addresses :
                   cache[a] # None /\ cache[a].work.id = provider[s].jobs[j].work.id
                   => provider[s].jobs[j].nonce < cache[a].nonce
    /\ \A s, t \in Sessions : \A j \in 1..MaxJobs[s], k \in 1..MaxJobs[t] :
          (/\ provider[s].jobs[j] # None /\ provider[t].jobs[k] # None
           /\ provider[s].jobs[j].work.id = provider[t].jobs[k].work.id
           /\ provider[s].jobs[j].nonce = provider[t].jobs[k].nonce)
          => s = t /\ j = k

IInv == Typed /\ Results /\ Fresh

(* Where nobody asks for a difficulty every share was credited too, or its   *)
(* submit met an exception, and what is credited is counted.                *)
Credited ==
    /\ IsFiniteSet(received) /\ accepted = Cardinality(received)
    /\ Unforced => shares \subseteq received \cup raised
    /\ clashes /\ Unforced => raised # {}

-----------------------------------------------------------------------------
(* Settings and targets.                                                    *)
LEMMA Constants ==
    /\ Easiest \in Nat \ {0} /\ BlockTarget \in Targets /\ Prefixes \in Nat \ {0}
    /\ MaxTimes \in Nat /\ MaxWork \in Nat /\ MaxPending \in Nat
    /\ \A s \in Sessions : MaxJobs[s] \in Nat
    /\ Nobody \in Users /\ \A u \in Users : Want[u] \in 0..Easiest
    /\ \A x \in Solutions : Pow[x] \in Nat
    /\ \A e \in Settings :
          /\ e \in Setting
          /\ e.fixed \in 0..Easiest /\ e.min \in 0..Easiest
          /\ e.hardest \in Targets /\ e.floor \in Targets
          /\ {e.ratchet, e.perNotify, e.downshift, e.workerFee} \subseteq BOOLEAN
          /\ e.users \subseteq Users /\ e.miners \subseteq Sessions
          /\ e.shares \subseteq Targets /\ e.local \subseteq Targets
          /\ e.saneMin \in Targets /\ e.saneMax \in Targets
BY MiningAssumption DEF Setting, Targets

(* The target of a new job is fair to the work it is for.                   *)
LEMMA TargetFair ==
    ASSUME NEW s \in Sessions, NEW w \in Provider(s), NEW x \in FairWork(setting), setting \in Settings
    PROVE  /\ NewTarget(w, x) \in Targets
           /\ Want[w.user] = 0 /\ (w.target # 0 \/ x.share <= setting.saneMax)
                => NewTarget(w, x) >= x.share
<1> DEFINE plain == IF w.target = 0 THEN x.target ELSE Larger(x.share, w.target)
<1>1. /\ w.user \in Users /\ w.target \in 0..Easiest /\ w.up \in Nat /\ w.down \in Nat
      /\ w.sampled \in BOOLEAN
  BY DEF Provider
<1>2. /\ x.share \in Targets /\ x.target \in Targets
      /\ x.share <= setting.saneMax => x.share <= x.target
  BY DEF FairWork, Work
<1>3. /\ plain \in Targets
      /\ w.target # 0 \/ x.share <= setting.saneMax => plain >= x.share
  BY <1>1, <1>2, Constants DEF Larger, Targets
<1>4. Want[w.user] \in 0..Easiest /\ setting.fixed \in 0..Easiest /\ setting.min \in 0..Easiest
      /\ setting.floor \in Targets /\ BlockTarget \in Targets
  BY <1>1, Constants
<1>5. Forced(w) \in Int /\ Forced(w) <= Easiest
  BY <1>1, <1>4, Constants DEF Forced, Smaller, Targets
<1>7. CASE Want[w.user] > 0
  BY <1>7, <1>2, <1>4, Constants DEF NewTarget, Larger, Targets
<1>8. CASE Want[w.user] = 0 /\ Forcing(w)
  BY <1>8, <1>2, <1>5, Constants DEF NewTarget, Larger, Targets
<1>9. CASE Want[w.user] = 0 /\ ~Forcing(w) /\ setting.min > 0
  BY <1>9, <1>2, <1>3, <1>4, Constants DEF NewTarget, Larger, Smaller, Targets
<1>10. CASE Want[w.user] = 0 /\ ~Forcing(w) /\ ~(setting.min > 0)
  BY <1>10, <1>3 DEF NewTarget
<1> QED
  BY <1>4, <1>7, <1>8, <1>9, <1>10

LEMMA FairTypes == FairWork(setting) \subseteq Work /\ FairEntry(setting) \subseteq Entry
BY DEF FairWork, FairEntry, Entry

(* A session that is sent work stays sound, and has one job more.           *)
LEMMA NotifiedSound ==
    ASSUME NEW s \in Sessions, NEW w, Sound(setting, s, w), w.counter < MaxJobs[s],
           NEW entry \in FairEntry(setting), setting \in Settings
    PROVE  LET n == Notified(w, entry) IN
           /\ Sound(setting, s, n)
           /\ n.life = w.life
           /\ \E job : /\ n.jobs = [w.jobs EXCEPT ![w.counter + 1] = job]
                       /\ job.work = entry.work /\ job.nonce = entry.nonce
<1> DEFINE t == NewTarget(w, entry.work)
           told == IF t # w.sent THEN t ELSE w.told
           job == [work |-> entry.work, nonce |-> entry.nonce, target |-> t, told |-> told,
                   fixed |-> Want[w.user] > 0]
           n == Notified(w, entry)
<1>1. w \in Provider(s) /\ w.told = w.sent
  BY DEF Sound
<1>2. /\ w.user \in Users /\ w.counter \in 0..MaxJobs[s] /\ w.up \in Nat
      /\ w.jobs \in [1..MaxJobs[s] -> Job \cup {None}]
      /\ w.upTimer \in BOOLEAN /\ w.downTimer \in BOOLEAN
  BY <1>1 DEF Provider
<1>3. entry.work \in FairWork(setting) /\ entry.work \in Work /\ entry.nonce \in 0..Prefixes - 1
  BY FairTypes DEF FairEntry
<1>4. /\ t \in Targets
      /\ Want[w.user] = 0 /\ (w.target # 0 \/ entry.work.share <= setting.saneMax)
           => t >= entry.work.share
  BY <1>1, <1>3, TargetFair
<1>5. told = t
  BY <1>1
<1>6. Want[w.user] \in 0..Easiest
  BY <1>2, Constants
<1>7. job \in Job /\ FairJob(setting, w.counter + 1, job)
  <2> HIDE DEF t, told
  <2>1. job \in Job
    BY <1>3, <1>4, <1>5 DEF Job
  <2>2. /\ job.work = entry.work /\ job.target = t /\ job.told = told
        /\ job.fixed = (Want[w.user] > 0)
    OBVIOUS
  <2> HIDE DEF job
  <2>3. ~(Want[w.user] > 0) => Want[w.user] = 0
    BY <1>6, Constants
  <2>4. ~job.fixed => Want[w.user] = 0
    BY <2>2, <2>3, Zenon
  <2>5. w.counter + 1 > 1 => w.target # 0
    BY <1>2, Constants DEF Sound
  <2>6. ~job.fixed /\ (w.counter + 1 > 1 \/ entry.work.share <= setting.saneMax)
           => t >= entry.work.share
    BY <2>4, <2>5, <1>4, Zenon
  <2>7. Unasked(setting) => t >= entry.work.share
    <3>1. Unasked(setting) => Want[w.user] = 0
      BY Constants, MiningAssumption DEF Sound, Unasked
    <3>2. Unasked(setting) => entry.work.share <= setting.saneMax
      BY <1>3 DEF FairWork, Unasked
    <3> QED
      BY <3>1, <3>2, <1>4, Zenon
  <2> QED
    BY <2>1, <2>2, <2>6, <2>7, <1>3, <1>5, Zenon DEF FairJob
<1>8. w.counter + 1 \in 1..MaxJobs[s] /\ w.counter + 1 \in 0..MaxJobs[s]
  BY <1>2, Constants
<1>9. t \in 0..Easiest
  BY <1>4, Constants DEF Targets
<1> DEFINE jobs == [w.jobs EXCEPT ![w.counter + 1] = job]
           upTimer == w.upTimer \/ (setting.ratchet /\ Forcing(w))
           downTimer == w.downTimer \/ (setting.downshift /\ Forcing(w))
           up == IF setting.perNotify /\ Forcing(w) /\ setting.fixed - (w.up + 1) >= setting.hardest
                 THEN w.up + 1 ELSE w.up
           fixed == Want[w.user] > 0
<1>10. n = [w EXCEPT !.target = t, !.fixed = fixed, !.sent = t, !.told = told,
              !.counter = w.counter + 1, !.jobs = jobs, !.upTimer = upTimer, !.up = up,
              !.downTimer = downTimer]
  BY DEF Notified
<1>11. jobs \in [1..MaxJobs[s] -> Job \cup {None}]
  BY <1>2, <1>7
<1>12. up \in Nat /\ upTimer \in BOOLEAN /\ downTimer \in BOOLEAN /\ fixed \in BOOLEAN
  BY <1>2
<1>13. told \in 0..Easiest
  BY <1>5, <1>9
<1> HIDE DEF t, told, jobs, upTimer, downTimer, up, fixed, n, job
<1>14. /\ n \in Provider(s) /\ n.told = n.sent /\ n.jobs = jobs /\ n.life = w.life
       /\ n.user = w.user /\ n.target = t
  BY <1>1, <1>5, <1>8, <1>9, <1>10, <1>11, <1>12, <1>13 DEF Provider
<1>15. \A j \in 1..MaxJobs[s] : jobs[j] # None => FairJob(setting, j, jobs[j])
  <2> TAKE j \in 1..MaxJobs[s]
  <2>1. CASE j = w.counter + 1
    BY <2>1, <1>2, <1>7, <1>8 DEF jobs
  <2>2. CASE j # w.counter + 1
    BY <2>2, <1>2 DEF jobs, Sound
  <2> QED
    BY <2>1, <2>2
<1>16. Sound(setting, s, n)
  <2>1. t # 0
    BY <1>4, Constants DEF Targets
  <2> QED
    BY <2>1, <1>14, <1>15 DEF Sound
<1>17. job.work = entry.work /\ job.nonce = entry.nonce
  BY DEF job
<1>18. n.jobs = [w.jobs EXCEPT ![w.counter + 1] = job]
  BY <1>14 DEF jobs
<1> QED
  BY <1>14, <1>16, <1>17, <1>18 DEF n

LEMMA GoneSound ==
    ASSUME NEW s \in Sessions
    PROVE  /\ Sound(setting, s, NewProvider(s)) /\ Sound(setting, s, Gone(s)) /\ Gone(s).life = "closed"
           /\ \A j \in 1..MaxJobs[s] : NewProvider(s).jobs[j] = None /\ Gone(s).jobs[j] = None
<1> DEFINE none == [j \in 1..MaxJobs[s] |-> None]
           n == NewProvider(s)
           g == Gone(s)
<1>1. none \in [1..MaxJobs[s] -> Job \cup {None}]
  OBVIOUS
<1>2. 0 \in 0..Easiest /\ 0 \in 0..MaxJobs[s] /\ 0 \in 0..MaxPending /\ Nobody \in Users
  BY Constants
<1> HIDE DEF none
<1>3. /\ n \in Provider(s) /\ n.told = n.sent /\ n.jobs = none
      /\ n.user = Nobody /\ n.counter = 0
  BY <1>1, <1>2 DEF NewProvider, Provider, none
<1>4. /\ g \in Provider(s) /\ g.told = g.sent /\ g.jobs = none /\ g.life = "closed"
      /\ g.user = Nobody /\ g.counter = 0
  BY <1>3 DEF Gone, Provider
<1>5. \A j \in 1..MaxJobs[s] : none[j] = None
  BY DEF none
<1> QED
  BY <1>3, <1>4, <1>5 DEF Sound

LEMMA KeptSound ==
    ASSUME NEW s \in Sessions, NEW w, Sound(setting, s, w)
    PROVE  /\ Sound(setting, s, Kept(s, w)) /\ Kept(s, w).life = w.life
           /\ \A j \in 1..MaxJobs[s] : Kept(s, w).jobs[j] \in {None, w.jobs[j]}
BY GoneSound DEF Kept

(* Replacing the state of one session by a sound one.                       *)
LEMMA OneSession ==
    ASSUME Typed, NEW s \in Sessions, NEW x, Sound(setting, s, x),
           provider' = [provider EXCEPT ![s] = x]
    PROVE  /\ provider' = [t \in Sessions |-> provider'[t]]
           /\ \A t \in Sessions : Sound(setting, t, provider'[t])
           /\ provider'[s] = x
           /\ \A t \in Sessions : t # s => provider'[t] = provider[t]
<1>1. provider'[s] = x /\ \A t \in Sessions : t # s => provider'[t] = provider[t]
  BY DEF Typed
<1>2. \A t \in Sessions : Sound(setting, t, provider'[t])
  BY <1>1 DEF Typed
<1>3. provider' = [t \in Sessions |-> provider'[t]]
  BY DEF Typed
<1> QED
  BY <1>1, <1>2, <1>3

(* What get_work may give out.                                              *)
LEMMA WorkFacts ==
    ASSUME Typed, NEW a \in Addresses, NEW want \in 0..Easiest,
           NEW entry \in WorkFor(a, want), entry.work.id <= MaxWork
    PROVE  /\ entry \in FairEntry(setting)
           /\ \/ cache[a] # None /\ entry = cache[a]
              \/ entry.work.id = made + 1
<1>1. CASE Cached(a) # None
  BY <1>1 DEF WorkFor, Cached, Typed
<1>2. CASE Cached(a) = None
  <2>1. PICK x \in get_work(want) : entry = [work |-> x, nonce |-> 0]
    BY <1>2 DEF WorkFor
  <2>2. PICK t \in setting.shares, natural \in setting.local :
           x = [id |-> made + 1, times |-> times, share |-> t,
                target |-> clip(Larger(t, IF want > 0 THEN want ELSE natural))]
    BY <2>1 DEF get_work
  <2>3. t \in Targets /\ natural \in Targets /\ times \in 0..MaxTimes /\ made \in 0..MaxWork
    BY Constants DEF Typed
  <2> DEFINE v == Larger(t, IF want > 0 THEN want ELSE natural)
  <2>a. v \in Targets /\ t <= v
    BY <2>3, Constants DEF Larger, Targets
  <2> HIDE DEF v
  <2>4. clip(v) \in Targets /\ (t <= setting.saneMax => t <= clip(v))
    BY <2>3, <2>a, Constants DEF clip, Larger, Smaller, Targets, Typed
  <2>5. made + 1 \in 1..MaxWork
    BY <2>1, <2>2, <2>3, Constants
  <2>6. x \in Work
    BY <2>2, <2>3, <2>4, <2>5 DEF Work, v
  <2>7. /\ x.share <= setting.saneMax => x.share <= x.target
        /\ x.share \in setting.shares /\ x.id = made + 1
    BY <2>2, <2>4 DEF v
  <2>8. x \in FairWork(setting)
    BY <2>6, <2>7 DEF FairWork, Typed
  <2>9. 0 \in 0..Prefixes - 1
    BY Constants
  <2> QED
    BY <2>1, <2>7, <2>8, <2>9 DEF FairEntry
<1> QED
  BY <1>1, <1>2

LEMMA LeftTyped ==
    ASSUME Typed, NEW a \in Addresses, NEW entry \in FairEntry(setting)
    PROVE  /\ Left(a, entry) \in [Addresses -> FairEntry(setting) \cup {None}]
           /\ \A b \in Addresses : b # a => Left(a, entry)[b] \in {None, cache[b]}
           /\ Left(a, entry)[a] # None =>
                 /\ Left(a, entry)[a].work = entry.work
                 /\ Left(a, entry)[a].nonce = entry.nonce + 1
<1>1. \A b \in Addresses : Cached(b) \in {None, cache[b]} /\ Cached(b) \in FairEntry(setting) \cup {None}
  BY DEF Cached, Typed
<1>2. entry.nonce \in 0..Prefixes - 1 /\ entry.work \in FairWork(setting)
  BY DEF FairEntry
<1>3. entry.nonce + 1 # Prefixes => entry.nonce + 1 \in 0..Prefixes - 1
  BY <1>2, Constants
<1> DEFINE next == [entry EXCEPT !.nonce = entry.nonce + 1]
<1>4. next.work = entry.work /\ next.nonce = entry.nonce + 1
  BY DEF FairEntry
<1>5. entry.nonce + 1 # Prefixes => next \in FairEntry(setting)
  BY <1>3 DEF FairEntry
<1> HIDE DEF next
<1>6. \A b \in Addresses : Left(a, entry)[b] = IF b # a THEN Cached(b)
         ELSE IF entry.nonce + 1 # Prefixes THEN next ELSE None
  BY DEF Left, next
<1>7. Left(a, entry) = [b \in Addresses |-> Left(a, entry)[b]]
  BY DEF Left
<1> QED
  BY <1>1, <1>4, <1>5, <1>6, <1>7

LEMMA JobTyped ==
    ASSUME Typed, NEW s \in Sessions, NEW j \in 1..MaxJobs[s], provider[s].jobs[j] # None
    PROVE  provider[s].jobs[j] \in Job /\ FairJob(setting, j, provider[s].jobs[j])
<1>1. Sound(setting, s, provider[s])
  BY DEF Typed
<1>2. provider[s].jobs \in [1..MaxJobs[s] -> Job \cup {None}]
  BY <1>1 DEF Sound, Provider
<1> QED
  BY <1>1, <1>2 DEF Sound

-----------------------------------------------------------------------------
(* Jobs that go away disturb nothing.                                       *)
LEMMA FewerJobs ==
    ASSUME Fresh, made' = made, cache' = cache,
           \A t \in Sessions : \A j \in 1..MaxJobs[t] :
              provider'[t].jobs[j] \in {None, provider[t].jobs[j]}
    PROVE  Fresh'
<1>1. \A t \in Sessions : \A j \in 1..MaxJobs[t] : provider'[t].jobs[j] # None =>
         provider'[t].jobs[j] = provider[t].jobs[j]
  OBVIOUS
<1>2. /\ \A a \in Addresses : cache'[a] # None => cache'[a].work.id <= made'
      /\ \A a, b \in Addresses :
            cache'[a] # None /\ cache'[b] # None /\ cache'[a].work.id = cache'[b].work.id => a = b
  BY DEF Fresh
<1>3. \A s \in Sessions : \A j \in 1..MaxJobs[s] :
         provider'[s].jobs[j] # None =>
            /\ provider'[s].jobs[j].work.id <= made'
            /\ \A a \in Addresses :
                  cache'[a] # None /\ cache'[a].work.id = provider'[s].jobs[j].work.id
                  => provider'[s].jobs[j].nonce < cache'[a].nonce
  BY <1>1 DEF Fresh
<1>4. \A t, u \in Sessions : \A j \in 1..MaxJobs[t], k \in 1..MaxJobs[u] :
          (/\ provider'[t].jobs[j] # None /\ provider'[u].jobs[k] # None
           /\ provider'[t].jobs[j].work.id = provider'[u].jobs[k].work.id
           /\ provider'[t].jobs[j].nonce = provider'[u].jobs[k].nonce)
          => t = u /\ j = k
  <2> SUFFICES ASSUME NEW t \in Sessions, NEW u \in Sessions,
                      NEW j \in 1..MaxJobs[t], NEW k \in 1..MaxJobs[u],
                      provider'[t].jobs[j] # None, provider'[u].jobs[k] # None,
                      provider'[t].jobs[j].work.id = provider'[u].jobs[k].work.id,
                      provider'[t].jobs[j].nonce = provider'[u].jobs[k].nonce
      PROVE  t = u /\ j = k
    OBVIOUS
  <2>1. provider'[t].jobs[j] = provider[t].jobs[j] /\ provider'[u].jobs[k] = provider[u].jobs[k]
    BY <1>1
  <2> QED
    BY <2>1 DEF Fresh
<1> QED
  BY <1>2, <1>3, <1>4 DEF Fresh

(* A job for the next prefix of a cached piece of work, or for a new one.   *)
LEMMA OneJobMore ==
    ASSUME Typed, Fresh, NEW a \in Addresses, NEW entry \in FairEntry(setting),
           \/ cache[a] # None /\ entry = cache[a]
           \/ entry.work.id = made + 1,
           made' = Larger(made, entry.work.id), cache' = Left(a, entry),
           NEW s \in Sessions, NEW c \in 1..MaxJobs[s],
           \/ provider'[s].jobs[c] = None
           \/ /\ provider'[s].jobs[c].work = entry.work
              /\ provider'[s].jobs[c].nonce = entry.nonce,
           \A t \in Sessions : \A j \in 1..MaxJobs[t] :
              (t # s \/ j # c) => provider'[t].jobs[j] \in {None, provider[t].jobs[j]}
    PROVE  Fresh'
<1>1. /\ entry.work.id \in Nat /\ entry.nonce \in Nat /\ made \in Nat
      /\ made' \in Nat /\ made <= made' /\ entry.work.id <= made'
  BY FairTypes, Constants DEF FairEntry, FairWork, Work, Typed, Larger
<1>2. /\ \A b \in Addresses : b # a => cache'[b] \in {None, cache[b]}
      /\ cache'[a] # None => cache'[a].work = entry.work /\ cache'[a].nonce = entry.nonce + 1
  BY LeftTyped
<1>3. \A b \in Addresses : cache[b] # None =>
         cache[b].work.id \in Nat /\ cache[b].nonce \in Nat /\ cache[b].work.id <= made
  BY Constants DEF Typed, Fresh, FairEntry, FairWork, Work
<1>4. \A t \in Sessions : \A j \in 1..MaxJobs[t] : provider[t].jobs[j] # None =>
         /\ provider[t].jobs[j].work.id \in Nat /\ provider[t].jobs[j].nonce \in Nat
         /\ provider[t].jobs[j].work.id <= made
  <2> SUFFICES ASSUME NEW t \in Sessions, NEW j \in 1..MaxJobs[t], provider[t].jobs[j] # None
      PROVE  /\ provider[t].jobs[j].work.id \in Nat /\ provider[t].jobs[j].nonce \in Nat
             /\ provider[t].jobs[j].work.id <= made
    OBVIOUS
  <2>1. provider[t].jobs[j] \in Job
    BY JobTyped
  <2>2. provider[t].jobs[j].work \in Work /\ provider[t].jobs[j].nonce \in 0..Prefixes - 1
    BY <2>1 DEF Job
  <2>3. provider[t].jobs[j].work.id \in 1..MaxWork
    BY <2>2 DEF Work
  <2>4. provider[t].jobs[j].work.id <= made
    BY DEF Fresh
  <2> QED
    BY <2>2, <2>3, <2>4, Constants
<1>5. \A b \in Addresses : b # a /\ cache'[b] # None => cache'[b].work.id # entry.work.id
  BY <1>1, <1>2, <1>3 DEF Fresh
<1>6. \A t \in Sessions : \A j \in 1..MaxJobs[t] :
         provider[t].jobs[j] # None /\ provider[t].jobs[j].work.id = entry.work.id =>
            provider[t].jobs[j].nonce < entry.nonce
  BY <1>1, <1>4 DEF Fresh
<1>7. \A b \in Addresses : cache'[b] # None => cache'[b].work.id <= made'
  BY <1>1, <1>2, <1>3
<1>8. \A b, d \in Addresses :
         cache'[b] # None /\ cache'[d] # None /\ cache'[b].work.id = cache'[d].work.id => b = d
  BY <1>2, <1>5 DEF Fresh
<1>9. \A t \in Sessions : \A j \in 1..MaxJobs[t] :
         provider'[t].jobs[j] # None =>
            /\ provider'[t].jobs[j].work.id <= made'
            /\ \A b \in Addresses :
                  cache'[b] # None /\ cache'[b].work.id = provider'[t].jobs[j].work.id
                  => provider'[t].jobs[j].nonce < cache'[b].nonce
  <2> SUFFICES ASSUME NEW t \in Sessions, NEW j \in 1..MaxJobs[t], provider'[t].jobs[j] # None
      PROVE  /\ provider'[t].jobs[j].work.id <= made'
             /\ \A b \in Addresses :
                  cache'[b] # None /\ cache'[b].work.id = provider'[t].jobs[j].work.id
                  => provider'[t].jobs[j].nonce < cache'[b].nonce
    OBVIOUS
  <2>1. CASE t = s /\ j = c
    BY <2>1, <1>1, <1>2, <1>5
  <2>2. CASE t # s \/ j # c
    <3>1. provider'[t].jobs[j] = provider[t].jobs[j] /\ provider[t].jobs[j] # None
      BY <2>2
    <3>2. provider[t].jobs[j].work.id <= made'
      BY <3>1, <1>1, <1>4
    <3>3. ASSUME NEW b \in Addresses, cache'[b] # None,
                 cache'[b].work.id = provider[t].jobs[j].work.id
          PROVE  provider[t].jobs[j].nonce < cache'[b].nonce
      <4>1. CASE b = a
        BY <3>1, <3>3, <4>1, <1>1, <1>2, <1>4, <1>6
      <4>2. CASE b # a
        BY <3>1, <3>3, <4>2, <1>2 DEF Fresh
      <4> QED
        BY <4>1, <4>2
    <3> QED
      BY <3>1, <3>2, <3>3
  <2> QED
    BY <2>1, <2>2
<1>11. \A t, u \in Sessions : \A j \in 1..MaxJobs[t], k \in 1..MaxJobs[u] :
          (/\ provider[t].jobs[j] # None /\ provider[u].jobs[k] # None
           /\ provider[t].jobs[j].work.id = provider[u].jobs[k].work.id
           /\ provider[t].jobs[j].nonce = provider[u].jobs[k].nonce)
          => t = u /\ j = k
  BY DEF Fresh
<1>10. \A t, u \in Sessions : \A j \in 1..MaxJobs[t], k \in 1..MaxJobs[u] :
          (/\ provider'[t].jobs[j] # None /\ provider'[u].jobs[k] # None
           /\ provider'[t].jobs[j].work.id = provider'[u].jobs[k].work.id
           /\ provider'[t].jobs[j].nonce = provider'[u].jobs[k].nonce)
          => t = u /\ j = k
  <2> SUFFICES ASSUME NEW t \in Sessions, NEW u \in Sessions,
                      NEW j \in 1..MaxJobs[t], NEW k \in 1..MaxJobs[u],
                      provider'[t].jobs[j] # None, provider'[u].jobs[k] # None,
                      provider'[t].jobs[j].work.id = provider'[u].jobs[k].work.id,
                      provider'[t].jobs[j].nonce = provider'[u].jobs[k].nonce
      PROVE  t = u /\ j = k
    OBVIOUS
  <2> DEFINE x == provider'[t].jobs[j]
             y == provider'[u].jobs[k]
  <2>1. CASE (t = s /\ j = c) /\ (u = s /\ k = c)
    BY <2>1
  <2>2. CASE (t = s /\ j = c) /\ (u # s \/ k # c)
    <3>1. x.work.id = entry.work.id /\ x.nonce = entry.nonce
      BY <2>2
    <3>2. y = provider[u].jobs[k] /\ provider[u].jobs[k] # None
      BY <2>2
    <3>3. provider[u].jobs[k].nonce = entry.nonce
      BY <3>1, <3>2
    <3>4. provider[u].jobs[k].nonce < entry.nonce
      BY <3>1, <3>2, <1>6
    <3>5. ~(entry.nonce < entry.nonce)
      BY <1>1
    <3> QED
      BY <3>3, <3>4, <3>5
  <2>3. CASE (t # s \/ j # c) /\ (u = s /\ k = c)
    <3>1. y.work.id = entry.work.id /\ y.nonce = entry.nonce
      BY <2>3
    <3>2. x = provider[t].jobs[j] /\ provider[t].jobs[j] # None
      BY <2>3
    <3>3. provider[t].jobs[j].nonce = entry.nonce
      BY <3>1, <3>2
    <3>4. provider[t].jobs[j].nonce < entry.nonce
      BY <3>1, <3>2, <1>6
    <3>5. ~(entry.nonce < entry.nonce)
      BY <1>1
    <3> QED
      BY <3>3, <3>4, <3>5
  <2>4. CASE (t # s \/ j # c) /\ (u # s \/ k # c)
    <3> HIDE DEF x, y
    <3>1. x = provider[t].jobs[j] /\ y = provider[u].jobs[k]
      BY <2>4 DEF x, y
    <3>2. /\ provider[t].jobs[j] # None /\ provider[u].jobs[k] # None
          /\ provider[t].jobs[j].work.id = provider[u].jobs[k].work.id
          /\ provider[t].jobs[j].nonce = provider[u].jobs[k].nonce
      BY <3>1 DEF x, y
    <3> QED
      BY <1>11, <3>2
  <2> QED
    BY <2>1, <2>2, <2>3, <2>4
<1> QED
  BY <1>7, <1>8, <1>9, <1>10 DEF Fresh

-----------------------------------------------------------------------------
(* Sending work to a sound session that has the jobs it had.                *)
LEMMA SendKeeps ==
    ASSUME Typed, Fresh, NEW s \in Sessions, NEW w, Sound(setting, s, w),
           w.jobs = provider[s].jobs, w.life = provider[s].life,
           SendWork(s, w), setting' = setting, times' = times
    PROVE  Typed' /\ Fresh' /\ Open' = Open
<1>1. CASE provider' = [provider EXCEPT ![s] = Kept(s, w)] /\ UNCHANGED bridge
  <2>1. /\ Sound(setting, s, Kept(s, w)) /\ Kept(s, w).life = w.life
        /\ \A j \in 1..MaxJobs[s] : Kept(s, w).jobs[j] \in {None, w.jobs[j]}
    BY KeptSound
  <2>2. /\ provider' = [t \in Sessions |-> provider'[t]]
        /\ \A t \in Sessions : Sound(setting, t, provider'[t])
        /\ provider'[s] = Kept(s, w)
        /\ \A t \in Sessions : t # s => provider'[t] = provider[t]
    BY <1>1, <2>1, OneSession
  <2>3. \A t \in Sessions : \A j \in 1..MaxJobs[t] :
           provider'[t].jobs[j] \in {None, provider[t].jobs[j]}
    BY <2>1, <2>2
  <2>4. Fresh'
    BY <1>1, <2>3, FewerJobs DEF bridge
  <2>5. Typed'
    BY <1>1, <2>2 DEF Typed, bridge
  <2>6. Open' = Open
    BY <2>1, <2>2 DEF Open
  <2> QED
    BY <2>4, <2>5, <2>6
<1>2. ASSUME w.counter < MaxJobs[s],
             NEW a \in {Address[w.user]} \cup (IF setting.workerFee THEN {PoolAddress} ELSE {}),
             NEW entry \in WorkFor(a, Want[w.user]),
             entry.work.id <= MaxWork, made' = Larger(made, entry.work.id), since' = times,
             cache' = Left(a, entry), provider' = [provider EXCEPT ![s] = Kept(s, Notified(w, entry))]
      PROVE  Typed' /\ Fresh' /\ Open' = Open
  <2> DEFINE n == Notified(w, entry)
  <2>1. w \in Provider(s) /\ w.user \in Users /\ w.counter \in 0..MaxJobs[s]
    BY DEF Sound, Provider
  <2>2. Address[w.user] \in Addresses /\ PoolAddress \in Addresses
    BY <2>1 DEF Addresses
  <2>3. a \in Addresses /\ Want[w.user] \in 0..Easiest
    BY <1>2, <2>1, <2>2, Constants
  <2>4. entry \in FairEntry(setting) /\ ((cache[a] # None /\ entry = cache[a]) \/ entry.work.id = made + 1)
    BY <1>2, <2>3, WorkFacts
  <2>5. setting \in Settings
    BY DEF Typed
  <2>6. Sound(setting, s, n) /\ n.life = w.life
    BY <1>2, <2>4, <2>5, NotifiedSound
  <2>7. PICK job : /\ n.jobs = [w.jobs EXCEPT ![w.counter + 1] = job]
                   /\ job.work = entry.work /\ job.nonce = entry.nonce
    BY <1>2, <2>4, <2>5, NotifiedSound
  <2> HIDE DEF n
  <2>8. /\ Sound(setting, s, Kept(s, n)) /\ Kept(s, n).life = n.life
        /\ \A j \in 1..MaxJobs[s] : Kept(s, n).jobs[j] \in {None, n.jobs[j]}
    BY <2>6, KeptSound
  <2>9. /\ provider' = [t \in Sessions |-> provider'[t]]
        /\ \A t \in Sessions : Sound(setting, t, provider'[t])
        /\ provider'[s] = Kept(s, n)
        /\ \A t \in Sessions : t # s => provider'[t] = provider[t]
    BY <1>2, <2>8, OneSession DEF n
  <2>10. w.counter + 1 \in 1..MaxJobs[s]
    BY <1>2, <2>1, Constants
  <2>11. DOMAIN w.jobs = 1..MaxJobs[s]
    BY <2>1 DEF Provider
  <2>12. \/ provider'[s].jobs[w.counter + 1] = None
         \/ /\ provider'[s].jobs[w.counter + 1].work = entry.work
            /\ provider'[s].jobs[w.counter + 1].nonce = entry.nonce
    BY <2>7, <2>8, <2>9, <2>10, <2>11
  <2>13. \A j \in 1..MaxJobs[s] : j # w.counter + 1 => n.jobs[j] = w.jobs[j]
    BY <2>7, <2>11
  <2>14. \A t \in Sessions : \A j \in 1..MaxJobs[t] :
            (t # s \/ j # w.counter + 1) => provider'[t].jobs[j] \in {None, provider[t].jobs[j]}
    BY <2>8, <2>9, <2>13
  <2>15. Fresh'
    BY <1>2, <2>3, <2>4, <2>10, <2>12, <2>14, OneJobMore
  <2>16. cache' \in [Addresses -> FairEntry(setting) \cup {None}]
    BY <1>2, <2>3, <2>4, LeftTyped
  <2>17. entry.work.id \in 1..MaxWork
    BY <2>4 DEF FairEntry, FairWork, Work
  <2>18. made' \in 0..MaxWork /\ since' \in 0..MaxTimes
    BY <1>2, <2>17, Constants DEF Typed, Larger
  <2>19. Typed'
    BY <2>9, <2>16, <2>18 DEF Typed
  <2>20. Open' = Open
    BY <2>6, <2>8, <2>9 DEF Open
  <2> QED
    BY <2>15, <2>19, <2>20
<1> QED
  BY <1>1, <1>2 DEF SendWork

(* A step that leaves the bridge alone and gives no session a job.          *)
LEMMA SessionKeeps ==
    ASSUME Typed, Fresh, NEW s \in Sessions, NEW x, Sound(setting, s, x),
           \A j \in 1..MaxJobs[s] : x.jobs[j] \in {None, provider[s].jobs[j]},
           provider' = [provider EXCEPT ![s] = x],
           UNCHANGED <<bridge, setting>>, times' \in 0..MaxTimes
    PROVE  /\ Typed' /\ Fresh'
           /\ provider'[s] = x /\ \A t \in Sessions : t # s => provider'[t] = provider[t]
<1>1. /\ provider' = [t \in Sessions |-> provider'[t]]
      /\ \A t \in Sessions : Sound(setting, t, provider'[t])
      /\ provider'[s] = x /\ \A t \in Sessions : t # s => provider'[t] = provider[t]
  BY OneSession
<1>2. \A t \in Sessions : \A j \in 1..MaxJobs[t] :
         provider'[t].jobs[j] \in {None, provider[t].jobs[j]}
  BY <1>1
<1>3. Fresh'
  BY <1>2, FewerJobs DEF bridge
<1>4. Typed'
  BY <1>1 DEF Typed, bridge
<1> QED
  BY <1>1, <1>3, <1>4

-----------------------------------------------------------------------------
(* What a session told and its jobs are most of what matters.               *)
LEMMA SameJobsSound ==
    ASSUME NEW s \in Sessions, NEW w, Sound(setting, s, w), NEW x \in Provider(s),
           x.told = w.told, x.sent = w.sent, x.jobs = w.jobs, x.counter = w.counter,
           x.target = w.target \/ x.target > 0, x.user \in setting.users \cup {w.user, Nobody}
    PROVE  Sound(setting, s, x)
BY DEF Sound

LEMMA ConnectionMadeIInv ==
    ASSUME IInv, NEW s \in Sessions, connectionMade(s)
    PROVE  IInv'
<1>1. Sound(setting, s, NewProvider(s)) /\ \A j \in 1..MaxJobs[s] : NewProvider(s).jobs[j] = None
  BY GoneSound
<1>2. Typed' /\ Fresh'
  BY <1>1, SessionKeeps DEF IInv, connectionMade, Typed
<1>3. Results'
  BY DEF IInv, Results, connectionMade, Busy, results
<1> QED
  BY <1>2, <1>3 DEF IInv

LEMMA SubscribeIInv ==
    ASSUME IInv, NEW s \in Sessions, rpc_subscribe(s)
    PROVE  IInv'
<1> DEFINE x == [provider[s] EXCEPT !.pending = provider[s].pending + 1]
<1>1. Sound(setting, s, provider[s]) /\ provider[s] \in Provider(s)
  BY DEF IInv, Typed, Sound
<1>2. provider' = [provider EXCEPT ![s] = x]
  BY DEF rpc_subscribe
<1>3. provider[s].pending + 1 \in 0..MaxPending
  <2>1. provider[s].pending \in 0..MaxPending /\ provider[s].pending < MaxPending
    BY <1>1 DEF rpc_subscribe, Provider
  <2> QED
    BY <2>1, Constants
<1>4. /\ x \in Provider(s) /\ x.told = provider[s].told /\ x.sent = provider[s].sent
      /\ x.counter = provider[s].counter /\ x.target = provider[s].target /\ x.user = provider[s].user
      /\ x.jobs = provider[s].jobs
  BY <1>1, <1>3 DEF Provider
<1> HIDE DEF x
<1>5. Sound(setting, s, x)
  BY <1>1, <1>4, SameJobsSound
<1> QED
  BY <1>2, <1>4, <1>5, SessionKeeps DEF IInv, Typed, Results, rpc_subscribe, Busy, results

LEMMA AuthorizeIInv ==
    ASSUME IInv, NEW s \in Sessions, NEW u \in setting.users, rpc_authorize(s, u)
    PROVE  IInv'
<1> DEFINE x == [provider[s] EXCEPT !.pending = provider[s].pending + 1, !.user = u]
<1>1. Sound(setting, s, provider[s]) /\ provider[s] \in Provider(s)
  BY DEF IInv, Typed, Sound
<1>2. provider' = [provider EXCEPT ![s] = x]
  BY DEF rpc_authorize
<1>3. provider[s].pending + 1 \in 0..MaxPending /\ u \in Users
  <2>1. provider[s].pending \in 0..MaxPending /\ provider[s].pending < MaxPending
    BY <1>1 DEF rpc_authorize, Provider
  <2>2. setting \in Settings
    BY DEF IInv, Typed
  <2> QED
    BY <2>1, <2>2, Constants
<1>4. /\ x \in Provider(s) /\ x.told = provider[s].told /\ x.sent = provider[s].sent
      /\ x.counter = provider[s].counter /\ x.target = provider[s].target /\ x.user = u
      /\ x.jobs = provider[s].jobs
  BY <1>1, <1>3 DEF Provider
<1> HIDE DEF x
<1>5. Sound(setting, s, x)
  BY <1>1, <1>4, SameJobsSound
<1> QED
  BY <1>2, <1>4, <1>5, SessionKeeps DEF IInv, Typed, Results, rpc_authorize, Busy, results

LEMMA NewWorkIInv ==
    ASSUME IInv, new_work
    PROVE  IInv'
<1>1. times' \in 0..MaxTimes /\ provider' = provider /\ UNCHANGED <<setting, bridge>>
  BY Constants DEF new_work, Announce, IInv, Typed
<1>2. Typed'
  BY <1>1 DEF IInv, Typed, bridge
<1>3. Fresh'
  BY <1>1 DEF IInv, Fresh, bridge
<1>4. Results'
  BY DEF IInv, Results, new_work, Announce, Open, results
<1> QED
  BY <1>2, <1>3, <1>4 DEF IInv

(* The steps that send work.                                                *)
LEMMA SendIInv ==
    ASSUME IInv, NEW s \in Sessions, NEW w, Sound(setting, s, w),
           w.jobs = provider[s].jobs, w.life = provider[s].life,
           SendWork(s, w), UNCHANGED <<setting, times, results>>,
           due' \subseteq due, answering' \in {None, answering}
    PROVE  IInv'
<1>1. Typed' /\ Fresh' /\ Open' = Open
  BY SendKeeps DEF IInv
<1>2. Results'
  BY <1>1 DEF IInv, Results, results
<1> QED
  BY <1>1, <1>2 DEF IInv

LEMMA SendLaterIInv ==
    ASSUME IInv, NEW s \in Sessions, send_later(s)
    PROVE  IInv'
<1> DEFINE w == [provider[s] EXCEPT !.pending = provider[s].pending - 1]
<1>1. Sound(setting, s, provider[s])
  BY DEF IInv, Typed
<1>2. provider[s].pending \in 0..MaxPending /\ provider[s].pending > 0
  BY <1>1 DEF Sound, Provider, send_later
<1>3. provider[s].pending - 1 \in 0..MaxPending
  BY <1>2, Constants
<1>4. /\ w \in Provider(s) /\ w.told = provider[s].told /\ w.sent = provider[s].sent
      /\ w.counter = provider[s].counter /\ w.target = provider[s].target /\ w.user = provider[s].user
      /\ w.jobs = provider[s].jobs /\ w.life = provider[s].life
  BY <1>1, <1>3 DEF Sound, Provider
<1>5. SendWork(s, w) /\ UNCHANGED <<setting, times, results, due, answering>>
  BY DEF send_later
<1> HIDE DEF w
<1>6. Sound(setting, s, w)
  BY <1>1, <1>4, SameJobsSound
<1> QED
  BY <1>4, <1>5, <1>6, SendIInv

LEMMA NotifyIInv ==
    ASSUME IInv, NEW s \in Sessions, notify(s)
    PROVE  IInv'
<1>1. Sound(setting, s, provider[s])
  BY DEF IInv, Typed
<1> QED
  BY <1>1, SendIInv DEF notify

(* A timer that runs out: it sends work, or only ends.                      *)
LEMMA TimerIInv ==
    ASSUME IInv, NEW s \in Sessions, NEW w, NEW x,
           Sound(setting, s, w), w.jobs = provider[s].jobs,
           Sound(setting, s, x), x.jobs = provider[s].jobs, x.life = provider[s].life, ~Busy,
           \/ SendWork(s, x)
           \/ provider' = [provider EXCEPT ![s] = Kept(s, w)] /\ UNCHANGED bridge,
           UNCHANGED <<setting, times, results, due, answering>>
    PROVE  IInv'
<1>1. CASE SendWork(s, x)
  BY <1>1, SendIInv
<1>2. CASE provider' = [provider EXCEPT ![s] = Kept(s, w)] /\ UNCHANGED bridge
  <2>1. /\ Sound(setting, s, Kept(s, w))
        /\ \A j \in 1..MaxJobs[s] : Kept(s, w).jobs[j] \in {None, provider[s].jobs[j]}
    BY KeptSound
  <2> QED
    BY <1>2, <2>1, SessionKeeps DEF IInv, Typed, Results, Busy, results
<1> QED
  BY <1>1, <1>2

LEMMA RatchetIInv ==
    ASSUME IInv, NEW s \in Sessions, ratchet_diff(s)
    PROVE  IInv'
<1> DEFINE w == [provider[s] EXCEPT !.upTimer = FALSE]
           x == [w EXCEPT !.up = @ + 1]
<1>1. Sound(setting, s, provider[s]) /\ provider[s] \in Provider(s)
  BY DEF IInv, Typed, Sound
<1>2. provider[s].up \in Nat /\ provider[s].up + 1 \in Nat
  BY <1>1 DEF Provider
<1>3. /\ w \in Provider(s) /\ w.told = provider[s].told /\ w.sent = provider[s].sent
      /\ w.counter = provider[s].counter /\ w.target = provider[s].target /\ w.user = provider[s].user
      /\ w.jobs = provider[s].jobs /\ w.life = provider[s].life
  BY <1>1 DEF Provider
<1>4. w.up + 1 \in Nat
  BY <1>1, <1>2 DEF Provider
<1>5. /\ x \in Provider(s) /\ x.told = w.told /\ x.sent = w.sent
      /\ x.counter = w.counter /\ x.target = w.target /\ x.user = w.user
      /\ x.jobs = w.jobs /\ x.life = w.life
  <2> HIDE DEF w
  <2> QED
    BY <1>3, <1>4 DEF Provider
<1>6. /\ ~Busy /\ UNCHANGED <<setting, times, results, due, answering>>
      /\ \/ SendWork(s, x)
         \/ provider' = [provider EXCEPT ![s] = Kept(s, w)] /\ UNCHANGED bridge
  BY DEF ratchet_diff
<1> HIDE DEF w, x
<1>7. Sound(setting, s, w) /\ Sound(setting, s, x)
  BY <1>1, <1>3, <1>5, SameJobsSound
<1> QED
  BY <1>3, <1>5, <1>6, <1>7, TimerIInv

LEMMA DownshiftIInv ==
    ASSUME IInv, NEW s \in Sessions, downshift_diff(s)
    PROVE  IInv'
<1> DEFINE w == [provider[s] EXCEPT !.downTimer = FALSE]
           x == [w EXCEPT !.down = @ + 1]
<1>1. Sound(setting, s, provider[s]) /\ provider[s] \in Provider(s)
  BY DEF IInv, Typed, Sound
<1>2. provider[s].down \in Nat /\ provider[s].down + 1 \in Nat
  BY <1>1 DEF Provider
<1>3. /\ w \in Provider(s) /\ w.told = provider[s].told /\ w.sent = provider[s].sent
      /\ w.counter = provider[s].counter /\ w.target = provider[s].target /\ w.user = provider[s].user
      /\ w.jobs = provider[s].jobs /\ w.life = provider[s].life
  BY <1>1 DEF Provider
<1>4. w.down + 1 \in Nat
  BY <1>1, <1>2 DEF Provider
<1>5. /\ x \in Provider(s) /\ x.told = w.told /\ x.sent = w.sent
      /\ x.counter = w.counter /\ x.target = w.target /\ x.user = w.user
      /\ x.jobs = w.jobs /\ x.life = w.life
  <2> HIDE DEF w
  <2> QED
    BY <1>3, <1>4 DEF Provider
<1>6. /\ ~Busy /\ UNCHANGED <<setting, times, results, due, answering>>
      /\ \/ SendWork(s, x)
         \/ provider' = [provider EXCEPT ![s] = Kept(s, w)] /\ UNCHANGED bridge
  BY DEF downshift_diff
<1> HIDE DEF w, x
<1>7. Sound(setting, s, w) /\ Sound(setting, s, x)
  BY <1>1, <1>3, <1>5, SameJobsSound
<1> QED
  BY <1>3, <1>5, <1>6, <1>7, TimerIInv

LEMMA ExpireIInv ==
    ASSUME IInv, NEW s \in Sessions, NEW j \in 1..MaxJobs[s], expire(s, j)
    PROVE  IInv'
<1> DEFINE jobs == [provider[s].jobs EXCEPT ![j] = None]
           x == [provider[s] EXCEPT !.jobs = jobs]
<1>1. Sound(setting, s, provider[s]) /\ provider[s] \in Provider(s)
  BY DEF IInv, Typed, Sound
<1>2. provider' = [provider EXCEPT ![s] = x]
  BY DEF expire
<1>3. jobs \in [1..MaxJobs[s] -> Job \cup {None}]
  BY <1>1 DEF Provider
<1>4. \A k \in 1..MaxJobs[s] : jobs[k] \in {None, provider[s].jobs[k]}
  BY <1>1 DEF Provider
<1> HIDE DEF jobs
<1>5. /\ x \in Provider(s) /\ x.told = provider[s].told /\ x.sent = provider[s].sent
      /\ x.counter = provider[s].counter /\ x.target = provider[s].target /\ x.user = provider[s].user
      /\ x.jobs = jobs
  BY <1>1, <1>3 DEF Provider
<1> HIDE DEF x
<1>6. Sound(setting, s, x)
  BY <1>1, <1>4, <1>5 DEF Sound
<1> QED
  BY <1>2, <1>4, <1>5, <1>6, SessionKeeps DEF IInv, Typed, Results, expire, Busy, results

(* Every submit stops the timers.                                           *)
LEMMA StoppedSound ==
    ASSUME Typed, NEW s \in Sessions
    PROVE  LET x == Stopped(provider[s]) IN
           Sound(setting, s, x) /\ x.jobs = provider[s].jobs /\ x.life = provider[s].life
<1> DEFINE x == Stopped(provider[s])
<1>1. Sound(setting, s, provider[s]) /\ provider[s] \in Provider(s)
  BY DEF Typed, Sound
<1>2. /\ x \in Provider(s) /\ x.told = provider[s].told /\ x.sent = provider[s].sent
      /\ x.counter = provider[s].counter /\ x.target = provider[s].target /\ x.user = provider[s].user
      /\ x.jobs = provider[s].jobs /\ x.life = provider[s].life
  BY <1>1 DEF Provider, Stopped
<1> HIDE DEF x
<1>3. Sound(setting, s, x)
  BY <1>1, <1>2, SameJobsSound
<1> QED
  BY <1>2, <1>3 DEF x

LEMMA UnlinkedIInv ==
    ASSUME IInv, NEW s \in Sessions, NEW j \in 1..MaxJobs[s], unlinked(s, j)
    PROVE  IInv'
<1> DEFINE x == Stopped(provider[s])
<1>1. Sound(setting, s, x) /\ x.jobs = provider[s].jobs
  BY StoppedSound DEF IInv
<1>2. provider' = [provider EXCEPT ![s] = x]
  BY DEF unlinked
<1> HIDE DEF x
<1> QED
  BY <1>1, <1>2, SessionKeeps DEF IInv, Typed, Results, unlinked, Busy, results

(* The headers of a job, and its share target, have their types.            *)
LEMMA JobFacts ==
    ASSUME NEW job \in Job, NEW x \in Solutions
    PROVE  /\ Header(job, x) \in (1..MaxWork) \X (0..Prefixes - 1) \X Solutions
           /\ job.work.share \in Targets /\ job.target \in Targets
BY DEF Job, Work, Header

LEMMA SubmitIInv ==
    ASSUME IInv, NEW s \in Sessions, NEW j \in 1..MaxJobs[s], NEW x \in Solutions,
           rpc_submit(s, j, x)
    PROVE  IInv'
<1> DEFINE w == Stopped(provider[s])
           job == provider[s].jobs[j]
<1>1. Sound(setting, s, w) /\ w.jobs = provider[s].jobs /\ w.life = provider[s].life
  BY StoppedSound DEF IInv
<1>2. provider' = [provider EXCEPT ![s] = w]
  BY DEF rpc_submit
<1>3. job # None /\ ~Busy
  BY DEF rpc_submit, Jobs
<1>4. job \in Job
  BY <1>3, JobTyped DEF IInv
<1>5. PICK crowded, best, fails \in BOOLEAN : got_response(s, job, x, crowded, best, fails)
  BY DEF rpc_submit
<1>6. /\ Header(job, x) \in (1..MaxWork) \X (0..Prefixes - 1) \X Solutions
      /\ job.work.share \in Targets
  BY <1>4, JobFacts
<1> HIDE DEF w, job
<1>7. times' \in 0..MaxTimes /\ due' \in {due, Open}
  BY <1>5, Constants DEF got_response, Announce, IInv, Typed
<1>8. /\ Typed' /\ Fresh'
      /\ provider'[s] = w /\ \A t \in Sessions : t # s => provider'[t] = provider[t]
  BY <1>1, <1>2, <1>7, SessionKeeps DEF IInv, rpc_submit
<1>9. Open' = Open
  BY <1>1, <1>8 DEF Open
<1>10. due' \subseteq Open'
  BY <1>7, <1>9 DEF IInv, Results
<1>11. /\ received' \in {received, received \cup {Header(job, x)}}
       /\ shares' \in {shares, shares \cup {Header(job, x)}}
       /\ raised' \in {raised, raised \cup (shares' \cap {Header(job, x)})}
       /\ clashes' \in {clashes, TRUE} /\ accepted' \in {accepted, accepted + 1}
       /\ answering' \in {answering, [session |-> s, share |-> job.work.share]}
  BY <1>5 DEF got_response
<1>12. /\ received' \subseteq (1..MaxWork) \X (0..Prefixes - 1) \X Solutions
       /\ shares' \subseteq (1..MaxWork) \X (0..Prefixes - 1) \X Solutions
  <2> DEFINE headers == (1..MaxWork) \X (0..Prefixes - 1) \X Solutions
             h == Header(job, x)
  <2>1. received \subseteq headers /\ shares \subseteq headers /\ h \in headers
    BY <1>6 DEF IInv, Results
  <2>2. received' \in {received, received \cup {h}} /\ shares' \in {shares, shares \cup {h}}
    BY <1>11
  <2> HIDE DEF headers, h
  <2>3. received' \subseteq headers /\ shares' \subseteq headers
    BY <2>1, <2>2
  <2> QED
    BY <2>3 DEF headers
<1>a. raised' \subseteq shares'
  BY <1>11 DEF IInv, Results
<1>13. clashes' \in BOOLEAN /\ accepted' \in Nat
  <2>1. clashes \in BOOLEAN /\ accepted \in Nat
    BY DEF IInv, Results
  <2>2. accepted + 1 \in Nat
    BY <2>1
  <2>3. TRUE \in BOOLEAN
    OBVIOUS
  <2> QED
    BY <1>11, <2>1, <2>2, <2>3, Zenon
<1>14. [session |-> s, share |-> job.work.share] \in [session : Sessions, share : Targets]
  BY <1>6
<1>15. answering' = None \/ answering' \in [session : Sessions, share : Targets]
  BY <1>11, <1>14 DEF IInv, Results
<1>16. Results'
  BY <1>10, <1>12, <1>13, <1>15, <1>a DEF Results
<1> QED
  BY <1>8, <1>16 DEF IInv

LEMMA AnswerIInv ==
    ASSUME IInv, answer
    PROVE  IInv'
<1> DEFINE s == answering.session
           w == [provider[s] EXCEPT !.sampled = TRUE]
<1>1. answering # None /\ answering' = None /\ due = {} /\ UNCHANGED <<setting, times, results, due>>
  BY DEF answer
<1>2. s \in Sessions /\ answering.share \in Targets
  BY <1>1 DEF IInv, Results
<1>3. Sound(setting, s, provider[s]) /\ provider[s] \in Provider(s)
  BY <1>2 DEF IInv, Typed, Sound
<1>4. /\ w \in Provider(s) /\ w.told = provider[s].told /\ w.sent = provider[s].sent
      /\ w.counter = provider[s].counter /\ w.target = provider[s].target /\ w.user = provider[s].user
      /\ w.jobs = provider[s].jobs /\ w.life = provider[s].life
  BY <1>3 DEF Provider
<1>5. \/ UNCHANGED <<provider, bridge>>
      \/ provider' = [provider EXCEPT ![s] = w] /\ UNCHANGED bridge
      \/ \E t \in Targets : SendWork(s, Vardiff(w, answering.share, t))
  BY Zenon DEF answer
<1> HIDE DEF s, w
<1>6. Sound(setting, s, w)
  BY <1>2, <1>3, <1>4, SameJobsSound
<1>7. CASE UNCHANGED <<provider, bridge>>
  <2>1. Typed'
    BY <1>1, <1>7 DEF IInv, Typed, bridge
  <2>2. Fresh'
    BY <1>7 DEF IInv, Fresh, bridge
  <2>3. Results'
    BY <1>1, <1>7 DEF IInv, Results, results
  <2> QED
    BY <2>1, <2>2, <2>3 DEF IInv
<1>8. CASE provider' = [provider EXCEPT ![s] = w] /\ UNCHANGED bridge
  <2>1. Typed' /\ Fresh'
    BY <1>1, <1>2, <1>4, <1>6, <1>8, SessionKeeps DEF IInv, Typed
  <2> QED
    BY <1>1, <2>1 DEF IInv, Results, results
<1>9. ASSUME NEW t \in Targets, SendWork(s, Vardiff(w, answering.share, t))
      PROVE  IInv'
  <2> DEFINE x == Vardiff(w, answering.share, t)
  <2>1. Larger(answering.share, t) \in 0..Easiest /\ Larger(answering.share, t) > 0
    BY <1>2, Constants DEF Larger, Targets
  <2>2. /\ x \in Provider(s) /\ x.told = w.told /\ x.sent = w.sent /\ x.counter = w.counter
        /\ x.target > 0 /\ x.user = w.user /\ x.jobs = w.jobs /\ x.life = w.life
    BY <1>4, <2>1 DEF Provider, Vardiff
  <2> HIDE DEF x
  <2>3. Sound(setting, s, x)
    BY <1>2, <1>6, <2>2, SameJobsSound
  <2>4. SendWork(s, x)
    BY <1>9 DEF x
  <2> QED
    BY <1>1, <1>2, <1>4, <2>2, <2>3, <2>4, SendIInv
<1> QED
  BY <1>5, <1>7, <1>8, <1>9

LEMMA CloseIInv ==
    ASSUME IInv, NEW s \in Sessions, close(s)
    PROVE  IInv'
<1> DEFINE w == [provider[s] EXCEPT !.life = "closed", !.upTimer = FALSE, !.downTimer = FALSE]
<1>1. Sound(setting, s, provider[s]) /\ provider[s] \in Provider(s)
  BY DEF IInv, Typed, Sound
<1>2. /\ w \in Provider(s) /\ w.told = provider[s].told /\ w.sent = provider[s].sent
      /\ w.counter = provider[s].counter /\ w.target = provider[s].target /\ w.user = provider[s].user
      /\ w.jobs = provider[s].jobs
  BY <1>1 DEF Provider
<1>3. provider' = [provider EXCEPT ![s] = Kept(s, w)]
  BY DEF close
<1> HIDE DEF w
<1>4. /\ Sound(setting, s, Kept(s, w))
      /\ \A j \in 1..MaxJobs[s] : Kept(s, w).jobs[j] \in {None, provider[s].jobs[j]}
  BY <1>1, <1>2, SameJobsSound, KeptSound
<1> QED
  BY <1>3, <1>4, SessionKeeps DEF IInv, Typed, Results, close, Busy, results

LEMMA InitIInv == Init => IInv
<1> SUFFICES ASSUME Init PROVE IInv
  OBVIOUS
<1>1. \A s \in Sessions :
         /\ Sound(setting, s, provider[s])
         /\ \A j \in 1..MaxJobs[s] : provider[s].jobs[j] = None
  BY GoneSound DEF Init
<1>2. cache \in [Addresses -> FairEntry(setting) \cup {None}] /\ \A a \in Addresses : cache[a] = None
  BY DEF Init
<1>3. Typed
  BY <1>1, <1>2, Constants DEF Init, Typed
<1>4. Results
  BY DEF Init, Results
<1>5. Fresh
  BY <1>1, <1>2 DEF Fresh
<1> QED
  BY <1>3, <1>4, <1>5 DEF IInv

LEMMA NextIInv == IInv /\ [Next]_vars => IInv'
<1> SUFFICES ASSUME IInv, [Next]_vars PROVE IInv'
  OBVIOUS
<1>1. CASE UNCHANGED vars
  <2>1. Typed'
    BY <1>1 DEF IInv, Typed, vars, bridge
  <2>2. Results'
    BY <1>1 DEF IInv, Results, Open, vars, results
  <2>3. Fresh'
    BY <1>1 DEF IInv, Fresh, vars, bridge
  <2> QED
    BY <2>1, <2>2, <2>3 DEF IInv
<1>2. CASE new_work
  BY <1>2, NewWorkIInv
<1>3. CASE answer
  BY <1>3, AnswerIInv
<1>4. ASSUME NEW s \in Sessions, Session(s)
      PROVE  IInv'
  <2>1. CASE connectionMade(s)
    BY <2>1, ConnectionMadeIInv
  <2>2. CASE rpc_subscribe(s)
    BY <2>2, SubscribeIInv
  <2>3. CASE close(s)
    BY <2>3, CloseIInv
  <2>4. ASSUME NEW u \in setting.users, rpc_authorize(s, u)
        PROVE  IInv'
    BY <2>4, AuthorizeIInv
  <2>5. CASE send_later(s)
    BY <2>5, SendLaterIInv
  <2>6. CASE notify(s)
    BY <2>6, NotifyIInv
  <2>7. CASE ratchet_diff(s)
    BY <2>7, RatchetIInv
  <2>8. CASE downshift_diff(s)
    BY <2>8, DownshiftIInv
  <2>9. ASSUME NEW j \in 1..MaxJobs[s], expire(s, j)
        PROVE  IInv'
    BY <2>9, ExpireIInv
  <2>10. ASSUME NEW j \in 1..MaxJobs[s], unlinked(s, j)
         PROVE  IInv'
    BY <2>10, UnlinkedIInv
  <2>11. ASSUME NEW j \in 1..MaxJobs[s], NEW x \in Solutions, rpc_submit(s, j, x)
         PROVE  IInv'
    BY <2>11, SubmitIInv
  <2> QED
    BY <1>4, <2>1, <2>2, <2>3, <2>4, <2>5, <2>6, <2>7, <2>8, <2>9, <2>10, <2>11 DEF Session
<1> QED
  BY <1>1, <1>2, <1>3, <1>4 DEF Next

-----------------------------------------------------------------------------
(* What is credited and what is added change with a submit only.            *)
LEMMA SubmitCredited ==
    ASSUME IInv, Credited, NEW s \in Sessions, NEW j \in 1..MaxJobs[s], NEW x \in Solutions,
           rpc_submit(s, j, x)
    PROVE  Credited'
<1> DEFINE job == provider[s].jobs[j]
           h == Header(job, x)
<1>1. job # None
  BY DEF rpc_submit, Jobs
<1>2. job \in Job /\ FairJob(setting, j, job)
  BY <1>1, JobTyped DEF IInv
<1>3. job.work.share \in Targets /\ job.target \in Targets /\ Pow[x] \in Nat
  BY <1>2, JobFacts, Constants
<1>4. PICK crowded, best, fails \in BOOLEAN : got_response(s, job, x, crowded, best, fails)
  BY DEF rpc_submit
<1>5. Unforced /\ IsShare(job, x) => Meets(job, x)
  BY <1>2, <1>3 DEF FairJob, Unasked, Unforced, IsShare, Meets, Targets
<1>u. Unforced' = Unforced
  BY DEF rpc_submit, Unforced
<1> DEFINE adds == IsShare(job, x) /\ (job.work.times = times \/ ~crowded)
<1> HIDE DEF job
<1>6. CASE adds /\ h \in shares
  <2>1. h \notin received
    BY <1>6 DEF IsShare
  <2>2. Unforced => raised # {}
    BY <1>6, <2>1 DEF Credited
  <2>3. UNCHANGED <<received, shares, raised, accepted>>
    BY <1>4, <1>6 DEF got_response
  <2> QED
    BY <2>2, <2>3, <1>u DEF Credited
<1>7. CASE adds /\ h \notin shares /\ job.work.times = times /\ fails
  <2>1. /\ shares' = shares \cup {h} /\ raised' = raised \cup {h}
        /\ UNCHANGED <<received, accepted>>
    BY <1>4, <1>7 DEF got_response
  <2> QED
    BY <2>1, <1>u DEF Credited
<1>8. CASE ~(adds /\ h \in shares) /\ ~(adds /\ job.work.times = times /\ fails)
  <2>1. /\ shares' = IF adds THEN shares \cup {h} ELSE shares
        /\ IF Meets(job, x) THEN received' = received \cup {h} /\ accepted' = accepted + 1
           ELSE received' = received /\ accepted' = accepted
        /\ clashes' = clashes /\ raised' = raised
    BY <1>4, <1>8 DEF got_response
  <2>2. /\ Unforced' => shares' \subseteq received' \cup raised'
        /\ clashes' /\ Unforced' => raised' # {}
    BY <1>5, <1>u, <2>1 DEF Credited
  <2>3. CASE Meets(job, x)
    <3>1. h \notin received
      BY <2>3 DEF Meets
    <3>2. /\ IsFiniteSet(received \cup {h})
          /\ Cardinality(received \cup {h}) = Cardinality(received) + 1
      BY <3>1, FS_AddElement DEF Credited
    <3> QED
      BY <2>1, <2>2, <2>3, <3>2 DEF Credited
  <2>4. CASE ~Meets(job, x)
    BY <2>1, <2>2, <2>4 DEF Credited
  <2> QED
    BY <2>3, <2>4
<1> QED
  BY <1>6, <1>7, <1>8

LEMMA NextCredited == IInv /\ Credited /\ [Next]_vars => Credited'
<1> SUFFICES ASSUME IInv, Credited, [Next]_vars PROVE Credited'
  OBVIOUS
<1>1. CASE UNCHANGED <<setting, results>>
  BY <1>1 DEF Credited, results, Unforced
<1>2. ASSUME NEW s \in Sessions, NEW j \in 1..MaxJobs[s], NEW x \in Solutions, rpc_submit(s, j, x)
      PROVE  Credited'
  BY <1>2, SubmitCredited
<1> QED
  BY <1>1, <1>2
  DEF Next, Session, vars, new_work, answer, connectionMade, rpc_subscribe, close, rpc_authorize,
      send_later, notify, ratchet_diff, downshift_diff, expire, unlinked

LEMMA InductiveInvariant == Spec => []IInv
<1>1. Init => IInv
  BY InitIInv
<1>2. IInv /\ [Next]_vars => IInv'
  BY NextIInv
<1> QED
  BY <1>1, <1>2, PTL DEF Spec

-----------------------------------------------------------------------------
(* The type invariant, with what the jobs, timers and caches of any number  *)
(* of sessions hold.                                                        *)
THEOREM TypeCorrect == Spec => []TypeOK
<1>1. IInv => TypeOK
  <2> SUFFICES ASSUME IInv PROVE TypeOK
    OBVIOUS
  <2>1. \A s \in Sessions : provider[s] \in Provider(s)
    BY DEF IInv, Typed, Sound
  <2>2. \A s \in Sessions :
           LET w == provider[s] IN
           /\ w.life \in {"open", "closed"} /\ w.user \in Users
           /\ {w.target, w.sent, w.told} \subseteq 0..Easiest
           /\ w.counter \in 0..MaxJobs[s] /\ w.pending \in 0..MaxPending
           /\ {w.fixed, w.sampled, w.upTimer, w.downTimer} \subseteq BOOLEAN
           /\ w.up \in Nat /\ w.down \in Nat
           /\ \A j \in 1..MaxJobs[s] : w.jobs[j] \in Job \cup {None}
    BY <2>1 DEF Provider
  <2>3. cache \in [Addresses -> Entry \cup {None}]
    BY FairTypes DEF IInv, Typed
  <2> QED
    BY <2>2, <2>3 DEF IInv, Typed, Results, TypeOK
<1> QED
  BY <1>1, InductiveInvariant, PTL

(* The jobs there are.                                                      *)
LEMMA JobIdFacts ==
    ASSUME NEW i \in JobId
    PROVE  /\ i = <<i[1], i[2]>> /\ i[1] \in Sessions /\ i[2] \in 1..MaxJobs[i[1]]
           /\ provider[i[1]].jobs[i[2]] # None
<1>1. PICK s \in Sessions : i \in {<<s, j>> : j \in Jobs(s)}
  BY DEF JobId
<1>2. PICK j \in Jobs(s) : i = <<s, j>>
  BY <1>1
<1> QED
  BY <1>2 DEF Jobs

(* However many workers of however many addresses a node has, whatever work *)
(* comes and however many prefixes there are, nobody's job repeats another. *)
THEOREM WorkIsSplit == Spec => []NoSharedWork
<1>1. IInv => NoSharedWork
  <2> SUFFICES ASSUME IInv, NEW i \in JobId, NEW k \in JobId, Space(i) = Space(k)
      PROVE  i = k
    BY DEF NoSharedWork
  <2>1. /\ i = <<i[1], i[2]>> /\ i[1] \in Sessions /\ i[2] \in 1..MaxJobs[i[1]]
        /\ k = <<k[1], k[2]>> /\ k[1] \in Sessions /\ k[2] \in 1..MaxJobs[k[1]]
        /\ provider[i[1]].jobs[i[2]] # None /\ provider[k[1]].jobs[k[2]] # None
    BY JobIdFacts
  <2>2. /\ provider[i[1]].jobs[i[2]].work.id = provider[k[1]].jobs[k[2]].work.id
        /\ provider[i[1]].jobs[i[2]].nonce = provider[k[1]].jobs[k[2]].nonce
    BY DEF Space
  <2>3. i[1] = k[1] /\ i[2] = k[2]
    BY <2>1, <2>2 DEF IInv, Fresh
  <2> QED
    BY <2>1, <2>3
<1> QED
  BY <1>1, InductiveInvariant, PTL

(* What every job of every session is worth to the lemmas below.            *)
LEMMA JobsFair ==
    ASSUME IInv, NEW i \in JobId
    PROVE  FairJob(setting, i[2], provider[i[1]].jobs[i[2]])
BY JobIdFacts, JobTyped DEF IInv

(* set_difficulty may be left out when it repeats the last one: whatever     *)
(* moves the target, the miner was told what its job is judged by.          *)
THEOREM JudgementAnnounced == Spec => []JudgedAsTold
<1>1. IInv => JudgedAsTold
  BY JobsFair DEF JudgedAsTold, FairJob
<1> QED
  BY <1>1, InductiveInvariant, PTL

(* Whatever the settings, vardiff and the work do, a miner that did not ask  *)
(* for a difficulty submits everything that would be a share, except for    *)
(* the first job of a connection on a net whose sane range ends below the   *)
(* share target.                                                            *)
THEOREM SharesSubmitted == Spec => []NoShareWithheld
<1>1. IInv => NoShareWithheld
  BY JobsFair DEF NoShareWithheld, FairJob
<1> QED
  BY <1>1, InductiveInvariant, PTL

(* Every header is credited once; where nobody asks for a difficulty every  *)
(* share that was added has been credited, unless think raised under it, and *)
(* then only is one added again.                                            *)
THEOREM EveryShareCredited == Spec => []SharesCredited
<1>1. Init => Credited
  BY FS_EmptySet DEF Init, Credited
<1>2. IInv /\ Credited /\ [Next]_vars => Credited'
  BY NextCredited
<1>3. Credited => SharesCredited
  BY DEF Credited, SharesCredited
<1> QED
  BY <1>1, <1>2, <1>3, InductiveInvariant, PTL DEF Spec
=============================================================================
