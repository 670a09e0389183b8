# p2poolBCH in TLA+

p2poolBCH is a decentralised mining pool.  Every node keeps a chain of *shares*
(blocks of a low difficulty), exchanges them with its peers, and hands its miners
work that extends the share it judges best; a share's payouts are computed from the
window of shares below it.  Everything runs in one Twisted reactor thread, so a
handler is atomic up to the points where it waits for a Deferred or is called back
by one, and a model's action is one handler from one such point to the next.

This directory holds TLA+ models of the parts whose correctness depends on the order
in which things happen, the TLC runs that check them on small instances, and proofs
for every instance where TLAPS reaches.

## Inventory

Paths are relative to `src/`.

| Part | State | Operations | Talks to | What is hard | What makes it correct |
|---|---|---|---|---|---|
| Share forest `p2pool/util/forest.py` | items, `reverse`, `heads`, `tails`; per view: deltas, reverse deltas, references | add, remove, get_last, get_delta, is_child_of | every user of shares; views follow the `remove_special` events | incremental repair of three indexes; memoised walks kept valid through removals | indexes and answers equal what a full walk computes |
| Share tracker `p2pool/data.py` 473-878 | `verified`, `naughty`, `punish` | attempt_verify, check, think, score | forest, node | arrival order, boundaries of the window, early exits | never trips its own assertions, never blames a good share, finds every chain |
| Node `p2pool/node.py` | best_share_var, desired_var, known_txs_var, mining txs | handle_shares, set_best_share, clean_tracker, download loop | tracker, peers, work | download loop waits across reactor turns while the tracker changes | the best share is there, the payout window stays verified, downloads end |
| Share chain peers `p2pool/p2p.py` 56-535 | handshake state, remembered txs and their size, timers | handshake, shares, sharereq, remember_tx, forget_tx, losing_tx, bestblock, ping | node, peer factories | both sides account for the same memory; losing_tx with a 20 s cache | a transaction referred to is one the other side still has |
| Peer factories and Node `p2pool/p2p.py` 537-787 | connections, attempts, bans, addr_store | connect, got_conn, lost_conn, think, ban, forgive | peers, bootstrap | duplicate connections, limits, backoff | limits hold, every attempt is cleaned up |
| Work `p2pool/work.py` | connected workers, silent workers, my shares, recent pseudoshares | get_work, submit (got_response), worker events | node, stratum, notifier, web | several sockets of one worker; work made for an old best share | one worker is one worker; a found block is submitted; a share is added once |
| Stratum `p2pool/bitcoin/stratum.py` | per connection: user, jobs (handler_map), vardiff, timers | subscribe, authorize, submit, notify, ping | work | job id counter, handlers kept 300 s, timers that outlive the connection | a submit is judged by the job and target it was made for |
| Getwork `p2pool/bitcoin/worker_interface.py` | cache of work and nonces, merkle root to handler | get_work, getwork | work | cache across new work, nonce exhaustion | no two miners get the same work |
| Notifier `p2pool/bitcoin/notifier.py` | pending connect and disconnect timers, flap history | worker events, timers, prune | work, telegram bots | timers race with events | alerts follow the worker's real state |
| Deferred utilities `p2pool/util/deferral.py` | outstanding requests and timers | request, response, timeout, cancel, respond_all | peers, bitcoin p2p, stratum RPC | late and duplicate answers, ids reused | every Deferred fires once |
| Variable, Event `p2pool/util/variable.py` | watchers, value | set, watch, happened | everything | watchers that change what they watch | a watcher sees every transition |
| ExpiringDict `p2pool/util/expiring_dict.py` | dict and expiry list | get, set, delete, expire | stratum, getwork, known txs cache | list and dict must agree | an entry lives its time and no longer |
| Headers and height `p2pool/bitcoin/height_tracker.py`, `p2pool/bitcoin/helper.py` | header tracker, requested ranges, getwork caches | new block, requests, heights | bitcoind | asynchronous requests | a height is relative to the best block |
| bitcoind peer `p2pool/bitcoin/p2p.py` | handshake, ReplyMatchers | get_block, get_block_header, inv | node | answers that never come | waiting requests fail on disconnect |
| Broadcaster `p2pool/bitcoin/broadcaster.py` | peer database and its file, connections, pending, backoff | refresh, connect, drop, broadcast, stop | bitcoind, blocks | overlapping refreshes, factories that reconnect by themselves, restarts | no socket is forgotten, limits hold, peers survive restarts |
| Share store `p2pool/data.py` 976-1078, `p2pool/main.py` | files of shares and verified hashes | load, add, forget, check_remove | tracker | crash between and inside writes | what was saved and is still wanted can be read back, and no file stays for nothing |
| Payouts `p2pool/util/skiplist.py`, `p2pool/data.py` | lazily made jumps with random lengths, forgotten with their shares | get_cumulative_weights, generate_transaction, get_expected_payouts | tracker, check, web | the answer decides whether a share is valid, and is computed along a path that differs from node to node | every node computes the same payouts |
| RPC server `p2pool/util/jsonrpc.py`, framing `p2pool/util/p2protocol.py`, `datachunker.py`, `pack.py` | buffered bytes | parse, dispatch, format | peers, miners | fragmentation | framing is independent of chunking |
| Encodings `p2pool/bitcoin/data.py`, `script.py`, `sha256.py`, `segwit_addr.py`, `cash_addr.py`, `getwork.py` | none | conversions | everything | numeric edges | inverse conversions |
| Main, web, graphs, telegram bots, scripts | statistics, subscriptions | start-up, HTTP pages, chat commands | everything | file writes | statistics agree with events |
| SOAPpy, wstools, nattraverso, fpconst, litecoin_scrypt, web-static, networks, dev, contrib | | | | | vendored code, assets, constants |

## Modules

| Module | Models | Extends |
|---|---|---|
| `ForestWalk` | hashes, parent links, the items of a tracker and the walk down a chain, for the three modules above it | |
| `Forest` | `Tracker` with exact walks: the abstract specification of the forest | `ForestWalk` |
| `ForestCache` | `Tracker` and its default view with the path-compressed cache | `Forest` |
| `ForestProofs` | theorems about `Forest` and `ForestCache` | `ForestCache`, TLAPS |
| `OkayTracker` | `OkayTracker` (attempt_verify, check, think, best_descendent) and the node's `set_best_share`, `handle_shares`, `clean_tracker`, `download_shares` | `ForestWalk` |
| `TrackerProofs` | theorems about `OkayTracker` | `ForestProofs`, `OkayTracker` |
| `Workers` | stratum sessions, connected and silent workers, the notifier's timers and flap history | |
| `WorkersProofs` | theorems about `Workers` | `Workers`, TLAPS |
| `TxMemory` | the transactions one peer remembers for another one | |
| `Peers` | connections, factories, `Node.peers`, bans | |
| `PeersProofs` | theorems about `Peers`, and about `TxMemory` and `Requests`, which run over its connections; among them the safety part of the refinement of `Promises` | `Peers`, `TxMemory`, `Requests`, TLAPS |
| `Mining` | get_work, the work cache, stratum jobs, difficulty and its timers, got_response | |
| `MiningProofs` | theorems about `Mining` | `Mining`, TLAPS |
| `Broadcaster` | `NetworkBroadcaster`: the peer database, its file, connections, attempts, backoff, the adaptive refresh, stop and crashes | |
| `BroadcasterProofs` | theorems about `Broadcaster` | `Broadcaster`, TLAPS |
| `Promises` | what a caller of `get_shares` relies on: the abstract specification of requests | |
| `Requests` | `GenericDeferrer` together with the connections that hold one and all its callers | |
| `ShareStore` | `ShareStore` and what `main.py` does with it, with crashes | |
| `ShareStoreProofs` | theorems about `ShareStore` | `ShareStore`, TLAPS |
| `Payouts` | the skip list, `WeightsSkipList`, and the amounts a coinbase pays | `ForestWalk` |
| `PayoutsProofs` | theorems about `Payouts` | `Payouts`, TLAPS |
| `MC*` | instances for TLC | the module of the same name |

The modules compose by layers, not by one product of everything.  The forest is a
promise kept by `ForestCache` (`ImplementsForest`); `OkayTracker` and `Payouts` use it as
walks over sets of hashes.  `Requests` is a composition: the life of every connection, its
table of requests, and the three programs that wait for answers, one of which is the
download loop that `OkayTracker` has as one step.  It keeps the promise of `Promises`
(`INSTANCE Promises WITH open <- waiting, up <- Listed`): Deferreds that wait, and peers
that are listed, are all a caller sees.
`OkayTracker` decides when there is new work, which `Mining` receives as an action that
may happen at any time; `Workers` and `Mining` look at the same stratum sessions from two
sides (who is there, what it works on) and share no state in the code either; `Peers`
decides whether there is a connection, over which `TxMemory` and `Requests` run.
`ShareStore` saves what the tracker has and takes the tracker as external.

Definitions whose comment says "mutant of X" are variants of X with a plausible mistake.
They are used by no specification; each shows that a property notices the mistake.

## How the models correspond to the code

### Forest (`ForestWalk`, `Forest`, `ForestCache`)

A share is a number and `prev` gives its parent, which has a smaller number: a hash
commits to its parent, so links have no cycles.  `items`, `reverse`, `heads` and `tails`
are the attributes of `Tracker` (forest.py 224-346).  `add(h)` and the four branches of
`remove` (`RemoveLone`, `RemoveHead`, `RemoveTail`, `RemoveBranch`) make the incremental
repairs of the code, and an item between two others cannot be removed.

`Forest` answers `get_last` and `is_child_of` by a walk.  `ForestCache` has `_deltas`,
`_reverse_deltas`, `_delta_refs` and `_reverse_delta_refs` as `deltas`, `members`, `refs`
and `refOf`.  Each question rewrites them with `_set_delta`, as `get_delta_to_last` does,
and each removal repairs them in the order of the events (`remove_special` and
`remove_special2` before the items change, `removed` after).  A delta keeps its height;
its work and weights add up in the same way.  The subset views (`SubsetTracker`,
`get_delta_to_last` over `verified`) are walks in `OkayTracker`.

### Share tracker and node (`OkayTracker`)

State: `items` and `verified` are the two trackers, `naughty` the attribute of the
shares, `best` and `desired` the two variables of the node, `blamed` the shares whose
senders the last call told off, `failed` the exception that ended it.  One call of
`think` (data.py 731-864) is one operator over a record of this state, with the loops of
the code as functions over the index of the loop; the order of heads is any order, as
that of a Python dictionary.  `set_best_share` (node.py 325-343) assigns the variables
unless `think` raised.  `clean_tracker` (node.py 348-395) calls `think`, eats old heads,
drops what lies below the window and calls `set_best_share`.  `handle_shares`,
`new_work` and `download_shares` are what starts them.

Every share is one unit of work, so work is height.  The `kind` of a share stands for
what the code finds out about it: `check` refuses it (`invalid`), it claims more than the
block's fees (`excessive`: naughty, and so are its children), its transactions exceed a
block (`heavy`: punished while it is best), or it solves a block.  Time appears as what
it enables: any head may be old at any `clean_tracker`.  The limit on the timestamp of
desired shares, the estimate of the hash rate that breaks ties, and the peers a request
goes to are left out.

### Workers and alerts (`Workers`)

`connectionMade`, `rpc_authorize` and `connectionLost` are the stratum session
(stratum.py), which may authorize more than once and by different names; `conn_count` and
`silent` are kept by the watchers and the sweep of
`WorkerBridge` (work.py 118-245), and `pendingConnect`, `pendingDisconnect`, `flaps` and
`flapping` by `LocalEventPusher` (notifier.py).  `fire_connect` and `fire_disconnect` are
its timers.  The rolling window is a number of flaps that may shrink whenever the code
prunes it.  `told` is what someone who reads every alert believes.

### Transactions (`TxMemory`)

One direction of one connection.  The sender has `mining_txs_var`, `remote_tx_hashes` and
`remote_remembered_txs_size`; the receiver `known_txs_var`, `remembered_txs`,
`remembered_txs_size` and `known_txs_cache`, split in what its last run of
`forget_old_txs` dropped (`young`) and the one before (`old`).  Messages travel in two
queues.  Every handler of p2p.py 205-515 that touches this state is an action, with the
ways it ends the connection as `verdict`; `connect` is the handshake.

`RoundTripOver` is the timing assumption: a message and its answer take less than the 10 s
between two runs of `forget_old_txs` (node.py 302-319), so nothing sent in ignorance of a
run is on its way at the next one.  The code caches for 20 s and relies on the same.
`next_peer_lost` is what the loss of another connection does to this one; see the
findings.

### Connections (`Peers`)

A connection has an end at the node that dials and one at the node that accepts; `phase`
is how far each got.  `think` is `ClientFactory._think`, `made`, `accept` and `refuse` are
`connectionMade` and the two `buildProtocol`, `clientConnectionFailed`, `timeout`,
`connectionLost` and `connectionFails` the ways it ends.  `dataReceived` reads a chunk of
several messages; `packetReceived` handles one of them, and while a chunk is being
handled nothing else happens at that node (`Busy`), as in a reactor turn.
`handle_version` lists the peer, drops a duplicate, or bans (p2p.py 149-256).  A version
message carries the nonce of the node; all other messages are one.  Addresses, shares
and transactions are left out.

### Mining (`Mining`)

`get_work` makes a piece of work with the two targets the rest depends on, the second
clipped to the net's sane range (`clip`, work.py:654);
`CachingWorkerBridge` is `since` and `cache`, which `WorkFor` reads and `Left` rewrites
(worker_interface.py 109-145).  `provider[s]` is the state of a
`StratumRPCMiningProvider`.  `SendWork` is `_send_work` (stratum.py 654-815): the target
by `NewTarget`, `set_difficulty` unless it was the last sent, the job, and the timers.
It is called by `send_later` (subscribe and authorize, `callLater(0)`), `notify` (new
work), `ratchet_diff`, `downshift_diff` and `answer` (vardiff).  `rpc_submit` calls
`got_response` (work.py 691-857) in the same turn: a share found on time may change the
best share, and then every session is notified (`due`) before the submit is answered
(`answering`).  When `set_best_share` raises, which `think` may, the share stays in the
tracker and nothing else is done about the submit (`raised`).  A target is a small number, larger is easier.  Environment settings are a
record `setting` chosen once.  Blocks, merged mining, statistics and latency are left out.

### Broadcaster (`Broadcaster`)

`peer_db`, `connections`, `pending`, `attempts`, `failures`, `coind_peers`, `discovery` and
`stopping` are the attributes of `NetworkBroadcaster` (`failures` is the entry of
`connection_failures`, with its backoff still `on` or `over`), `file` is what
`_save_peer_database` last wrote.  `link` is what the factory and the socket of an address
do, which the broadcaster sees only through callbacks.  `_adaptive_refresh` runs every 5 s
and may start a call of getpeerinfo while others are under way (`asking`); the two ways
such a call ends both go on to `refresh_connections`, which drops dead entries, protects
the local one, computes the slots and starts attempts.  `connects` and `connect_fails` end
an attempt; `connection_lost` and `reconnects` are the factory, which tries again by
itself; `handle_addr_message` is discovery; `broadcast_block` refreshes if there are too
few.  `start` loads the file or begins the bootstrap.  `stop` disconnects, and its save
does nothing.  `crash` ends the process anywhere.

Which candidates come first, a matter of scores, is any choice.  Statistics, health
reports, port and IPv6 filters and the block that is sent are left out.

### Requests (`Promises`, `Requests`)

`map` is the attribute of every connection's `GenericDeferrer` (deferral.py 92-134),
`timer` its `callLater`s and `waiting` the Deferreds that have not fired.  `Settle`
removes, cancels and fires; the caller that is woken runs before the code behind
`callback` or `errback` goes on, so its next request is part of the same action: `Go` for
`download_shares` (node.py 104-136), `NextPing` for the page that pings a peer several
times, nothing for `handle_share_hashes`.  A request that `times_out` disconnects only after
the caller has gone on, who may thus ask the closing connection again.  `respond_all` stands
for all of `connectionLost`: it takes the peer from `Node.peers` and then pops until the map
is empty, so that the pings a failed ping is followed by are registered and failed as well,
until none is `left`.  `HandleSharesRaises` is an exception out of `handle_shares`: the
download loop calls it outside its `try` (node.py:136) and is `dead` after that.  (Where one module of proofs extends several specifications, the
initial states, steps and handlers of one have a prefix or another name: `RInit`, `MInit`,
`TInit`, `times_out`.)  A `closing` connection still handles what it has read.

### Share store (`ShareStore`)

A file has the lines that can be read (`readable`), a `size`, and may end inside a line
(`open`) which may be complete but for its end (`loose`).  `known` and `desired` are the
two dictionaries of data.py 976-1078.  `_add_line` appends to the last file or to a new
one; `Forget` is `forget_share` or `forget_verified_share` with `check_remove`.  `start`,
`started` and `forget_or_watch` follow main.py: load, start everything else, forget what
the tracker did not take, then watch its removals.  `save_shares` and `add_next` are the
minute's save, line by line, so that a `crash` may come between two lines and
`crash_writing` inside one.  `tracker_adds`, `tracker_verifies`, `best_changes` and
`tracker_removes` stand for the tracker.

A crash is that of the process: what was written to a file stays there.  A file is full
after `Capacity` lines rather than 10 MB.

### Payouts (`Payouts`)

`skips` is `SkipList.skips`, `pos`, `sum` and `updates` are the locals of `__call__`
(skiplist.py 22-60) and `Round` is one turn of its loop, with the length of a new entry
thrown from 1 to `MaxLevel`.  A delta is a function on columns (shares, total weight,
donated weight, weight by address); `get_delta`, `combine_deltas`, `apply_delta` and
`judge` are those of `WeightsSkipList`, with the share that is counted in part.
`generate_transaction` and `get_expected_payouts` give the arguments of their calls and
`Amounts` the rounding of each: the 199/200 and 1/200 of a share, the rest that goes to
the donation address.  `Dests` are those that get a part, `Paying` the `MaxDests` largest
of them, which are all that a coinbase has room for (4000, data.py:285), and with each set
of addresses that may be left out comes an answer.  `add` and `remove` change the tracker between calls; `removed`
makes the skip list forget (forget_item).

An address is an element of a small set, and the weights list is kept as its sum; the LRU
cache in front repeats answers to equal questions and is left out.

## Runs

| Run | Instance | Shows |
|---|---|---|
| `forest_cache` | every forest of 4 hashes, any order of add, remove and questions | cached answers equal walks (`AnswersExact`), heads and tails equal what a walk computes (`HeadsExact`, `TailsExact`), no assertion of the module fails (`AssertionsHold`), and the whole implements `Forest` (`ImplementsForest`) |
| `okay_tracker` | 6 shares in four forests, at most one unusual share; CHAIN_LENGTH 2, batches of 2, fork depth 1, 1 head kept, no drop slack | `think` never trips an assertion or blames a good share, the best share is there and never naughty, no checkable head is overlooked, windows are verified, or what they lack is requested, and stay so; and where no share is unusual, requests for parents end with a best share whose window is verified (`CatchesUp`) |
| `workers` | 2 workers, 2 sockets, two authorizes per connection, by one name or two, counts up to 2, thresholds 2 and 1 | no entry is dropped under a live socket, what the reader was told is so once no timer is pending, alerts are new, and the reader is not wrong for ever |
| `tx_memory` | 2 transactions of sizes 1 and 2 in a memory of 3, `remote_tx_hashes` of 1, blocks of at most one, 3 messages on their way | nobody who follows the protocol is accused but by a message that fills the memory exactly, the two sides agree on what is remembered and on its size, and what a share may refer to is known |
| `tx_memory_unwatched` | the same with both of size 2, and the receiver loses another peer | the finding below |
| `peers` | two nodes that dial each other, one also itself; 2 attempts, 1 incoming connection, 2 failures | one connection per pair, exact counts, agreement when nothing is on its way |
| `peers_meet` | one node dials another; 2 connections at a time, 2 failures | liveness: once failures end, they become and stay peers |
| `mining` | two workers of one address, 2 prefixes, 2 pieces of work, targets 1 and 2, jobs 2 and 1; nodes with default settings, with escalating difficulty, with one raised by every job, with a minimum, and on a net whose sane range ends below the share target | no header is worked on twice, jobs are judged by what was announced, no share is withheld, every share is credited and no header twice |
| `broadcaster` | 3 addresses, one of which only the daemon knows; max_peers 3, min_peers 2, 2 attempts at a time and before an address is given up, 2 calls of getpeerinfo at a time; the other two addresses are symmetric | every socket is pending or has an entry, a saved address is known after every restart |
| `requests` | 2 peers, pages of 3 pings | a lost connection leaves nobody behind, the loop is asking exactly when it has a request, and until an exception ends it never rests while something is desired, and the whole implements `Promises`, its liveness included |
| `share_store` | 2 shares, 4 lines in up to 3 files of 2 | what is saved survives but for the torn line and the one behind it, a line is in one file, no file is kept for what the tracker has dropped |
| `payouts` | 4 shares in a chain or two branches, REAL_CHAIN_LENGTH 3, levels up to 3, light and heavy shares of two addresses that donate nothing, half or all, a third address for the finder, room for two destinations, a desired weight that ends inside a share and one that is never reached | the answer is what the chain decides, no assertion of the skip list fails, the coinbase pays the subsidy, less only what belongs to destinations it has no room for |

Why these bounds reach the interesting cases.  Four hashes give forks at the root and
above it, a tail with several branches and chains joined in the middle, which is all the
four branches of `remove` and the merge in `add` distinguish; a cached walk of more than
two jumps also occurs.  Six shares with a window of 2 let a chain be longer than
`2 * CHAIN_LENGTH`, so that shares are dropped below it, with a fork beside it; a batch of
2 makes one call of `think` stop before it is done.  Two transactions that fill the memory
together reach the limit, where the two ends disagree, and in `tx_memory_unwatched`, where
they do not fit, the refusals of the sender.  Two sockets that each authorize twice under
two names move from one entry to another and leave one behind.  A connection that lingers at one end while the other
one redials needs `Lives` 2; two crossing dials need one each.  Two prefixes let the cache
run out between two sessions; one change of the work suffices to make a job stale and a
share late.  Three addresses and room for two make a candidate wait for a slot while a
connection is lost and another attempt is under way; two calls of getpeerinfo at a time
overlap.  Two peers are a connection that closes and another one to turn to, and of three
pings one fails, one is registered by the failure of the first, and one by that of the
second.  Two shares have four lines, which fill two files, and a third file is begun when
one of the earlier ones has been removed or torn.  Four shares with levels up to three
have jumps over one and two others, measured in one call and used, or broken off, in the
next.

Bounds that only cut behaviour short are `MaxAuthorize`, `MaxCount`, `MaxFlight`, `Lives`, `MaxInbox`,
`MaxFailures`, `MaxTimes`, `MaxWork`, `MaxPending`, `MaxJobs`, `credits` of a setting,
`MaxAsking`, `Files` and `MaxLevel`; each stands in the guard of the action it cuts.  In
`Requests`, `Pings` is the number of pings a page sends, and one page at a time shows a
peer.  `Capacity`, `MaxDests` and the constants of `OkayTracker` are small values of numbers the code has.

### Fairness

- `okay_tracker`: strong fairness of `download_shares(t)`.  The loop (node.py 104-136)
  picks a desired hash at random and asks a random peer; a hash that is desired again and
  again is picked and answered in the end.  `CatchesUp` speaks of behaviours in which all
  shares are `ok` and, from some time on, no head is eaten for its age: a download that
  takes longer than shares live need not end.
- `workers`: weak fairness of the two timers.  The reactor fires them when they are due.
- `peers_meet`: strong fairness of a connection's progress, of `think` (a loop that never
  ends) and of the end of a ban (a deadline).  Strong, because a turn for another socket
  makes a node `Busy` in between; the reactor serves every ready socket in each round.

- `requests`: weak fairness of `times_out` and `wakes`, which the reactor fires when they are
  due, and of `respond_all` for a connection that was aborted, which it reports.  No
  answer is assumed to come.

No other run assumes fairness.

## Theorems

All proofs are for every value of the constants that meets the module's `ASSUME`s.

**`ForestProofs`** (any number of hashes, any acyclic links).  The inductive invariant is
`ReverseExact`, `HeadsExact` and `TailsExact` together: `remove` decides by `reverse`
whether a parent becomes a head, and moves the heads that `tails` names.  `LastMap` is a
recursive function; `LastMapExists` and `LastMapWalks` show that it satisfies its equation,
and what an added or removed hash does to every walk (`LastInAdd` and its like) is shown
by looking at the least hash where two walks would differ.  `IndexesExact` is the
invariant; `TypeCorrect`, `HeadsCorrect` and `TailsCorrect` follow from it.

The cache has an invariant besides: `Sound`, that the tables of the view agree, and
`ExactJumps`, that what an item jumps to is met on its way down.  `Sound` says that every
ref is filed under the tail it ends at (`Filed`) and measures the way from its head to that
tail (`Measured`), that the delta of an item measures the way to the head of its ref
(`Live`), and that a ref's members are the items that use it, of which there is one at
least (`Counted`, `Inhabited`).  A walk makes jumps while it goes, and shortens those it
has followed, so each is carried through a walk (`Path`, `PointAtEnd`) and through
`remove`, which moves refs up (`MoveRef`).  So whatever walks came before, and whatever
they left in the cache, the next answer is the exact one.  `CacheCorrect` is the invariant
with the one above, `CacheAnswers` is `AnswersExact`, `CacheAsserts` is `AssertionsHold`,
and `CacheRefines` is the refinement `ImplementsForest`.

**`TrackerProofs`** (any number of hashes, any acyclic links, any kinds of shares, any
`CHAIN_LENGTH`, `VerifyBatch` and other settings, any order and batching of arrivals).  A
call of `think` is a fold over heads of a fold over shares, on a record.  The library cannot
be instantiated with such an operator, so each loop has a lemma that its fold is the last of
a sequence of records, each made of the one before (`FoldExists`), and the properties are
carried along the sequence.  The invariant, `TInv`, holds between two calls: only items
are verified, only valid shares are (`Sane`), and the properties below.  Within a call:

- The first loop looks at shares no deeper than a check allows (`BatchFacts`), so no
  assertion of `attempt_verify` fails, and what it lists as bad is invalid.  When it is done
  with a head, the head is invalid, verified or cannot be checked yet (`Settled`), and so is
  what each listed share sits on (`AllFollowed`, `HeadSearched`).
- The second loop takes away listed shares only (`Clears`), none of which is verified, so
  its assertion holds too.  A head that comes to light is what a listed share sat on, so no
  head that is left was overlooked (`NothingOverlooked`).
- The third loop only verifies and requests, and does not make new heads or spoil the
  window of a head that it was done with (`WindowStays`, `HeadExtended`, `HeadsExtended`).
  Where it stops above a missing parent, it has requested that parent, for as long as the
  window lacked a share when it began (`WindowReached`).
- The choice ends at a share of the tracker that is not naughty, or a block
  (`AfterPunishingFacts`, `ChosenFacts`).

`ThinkAsserts`, `BlameIsJust`, `BestIsPresent`, `NaughtyIsNotMined` and `WindowIsVerified`
follow.  `HeadsAreVerified` (`NoHeadOverlooked`) assumes `ShortRuns`: no chain has
`VerifyBatch` invalid shares in a row.  A head is only walked down that far, so with a
longer run the share that comes to light below it is a head that waits for the next call;
the shares of the run's instance meet the assumption, having one unusual share at most.
`WindowIsKept` is the action property `WindowKept`.  What `clean_tracker` eats is closed
upwards, so a chain whose head stays loses nothing to it (`WalkUneaten`), and a pass over
the tails takes the lowest share, and only of chains that are at least
`2 * CHAIN_LENGTH + DropSlack` high (`PassKeeps`, `DroppedKeeps`).

**`WorkersProofs`** (any finite set of sockets, any users, any thresholds, any number of
authorize calls).  The invariant joins types, `TimersAgree` and a form of `ReaderKnows`
that also says what the reader knows while a timer is pending: with a connect alert
pending it does not think the worker present, with a disconnect alert pending not absent.
Without that a timer could repeat an alert.  It gives `PendingAgrees` and, as an action
property, `AlertsAreNews`.  `CountNeverLow` says that a worker's count
is never below the number of its live sockets (`NeverUndercounts`), so that its entry is
not deleted under one of them; `CountedOnce` says which sessions have authorized, and
`Renamed` how a session's name moves it from one cardinality to another.  The two
together give `AlertsAreTrue` (`ReaderKnows`): a worker last said to be gone has neither an
entry nor a live socket, one last said to be there has an entry.  That the entry of a
worker said to be there has a live socket is not so (see the observations).

**`PeersProofs`** (any nodes, any dials, any limits).  `PeersExact` and `CountsExact` are
made inductive by `Staged` (what the flags of an end are in each phase) and `DialsOnce`
(at most one connection between two nodes in one direction is past `none` at the dialling
end): without the second an attempt that ends would take another one's entry with it.
`CountsExact` for `serverConns` is a cardinality, for which each action adds or removes
one end.  `IInvariant`, `PeersCorrect`, `CountsCorrect`.  `PeersAgree` is
`AgreeWhenQuiet`: that the two ends agree when nothing is on the way needs to know what is
on the way while they do not, which is `Awaited` (an end that has not heard of the other's
version or loss still has it in its inbox) and `Inboxes` (what an inbox may hold in each
phase of its two ends).

The same module proves three theorems about `TxMemory` (any transactions of any sizes).  What the two ends of a connection remember is related
by the messages between them: `Flow` gives, for each prefix of what is on the way, what the
receiver will remember when it has read that far, up to what the sender accounts for;
`Told` does so for the notices the other way: what the sender takes for known, and will
when it has heard them, is known, or still cached while a losing notice is on its way.
`ViewIsSound` is `ViewSound`.  `MemoryIsSame` (`SameMemory`) assumes
`TemplatesFit`: a whole block template fits the memory, which the code asserts
(p2p.py:245).  The bitcoincash and bitcoinsv networks allow blocks larger than
`max_remembered_txs_size`, so there it is an assumption about the blocks, and without it
the assertion leaves the two ends apart (see the observations).  `NeverAccusedWatched`
(`WatchedNeverAccused`) has the same assumption; the one message that it excepts is one
that makes what is remembered take exactly the limit (p2p.py:500).

Last, it proves three theorems about `Requests` (any peers, any number of pings).  The types,
`OpenExact` (requests, timers and waiting callers agree), `NobodyOrphaned`, `LoopAlive` and
`OneEach` (nobody waits twice for the same thing) are one invariant: that a connection
which is lost frees its waiters needs that they are in its map, and that the loop goes on
with the right peers needs that it waits for one at a time.  `NoOrphans` and
`LoopStaysAlive` follow, the latter with the loop's end by an exception.  `ImplementsPromises`
is `RSpec => P!Safe`: each action maps to a turn of `Promises` (an answer, a connection, a
disconnection that fires all that is open to the peer) or leaves it alone.

**`MiningProofs`** (any sessions, users, targets, prefixes and settings).  The invariant
is the types, with what a session's state says of itself (`Sound`: the announced target
is the last sent, jobs are numbered up to the counter, unless the user asked for a
difficulty the target is no harder than a share of the work), `FairEntry` for the cache,
`Results`, and `Fresh`: a cached piece of work with nonce n has been given to nobody with
a nonce of n or above, and no two jobs share both.  `TypeCorrect`, `WorkIsSplit`,
`JudgementAnnounced` and `SharesSubmitted` follow from it, the latter with the exception of
the first job on a net whose sane range ends below the share target.  `EveryShareCredited`
(`SharesCredited`) has an invariant of its own, `Credited`: `accepted` counts the headers
received, and a share in the tracker has been received, or `think` raised under it, where
no job is harder than a share (`Unforced`: nobody asks for a difficulty and the share
targets are sane); only without that, or after such an exception, is a share added twice
(see the observations).

**`BroadcasterProofs`** (any finite set of addresses, any limits from the module's
`ASSUME`).  `IInv` joins the types, `SocketsExact`, `LocalKept`, `RecordsAgree` and
`SavedKnown` with `Phased` (nothing dials or is connected before the broadcaster runs, and
the local entry is there when it does) and `Hopeful` (an address that is being dialled has
failed fewer than `MaxAttempts` times): without the last an attempt under way could fail
once too often.  It gives `SocketsAccounted`, `SavedAddressesKnown`, `LocalNodeKept` and
`FailureRecordsAgree`.  `ConnectionsBounded` says by how much `max_peers` may be exceeded
(`WithinLimits`: never more than `MaxPeers - 2 + MaxConcurrent` entries and attempts, local
one included) and rests on `Slots`: the sizes of the set that is kept and of the set that
is chosen add up.

**`ShareStoreProofs`** (any shares, any capacity, any number of files).  The invariant adds
what the phases mean (`Loaded`: what can be read is known, while the process is up;
`Current`: nothing the tracker dropped is kept or added), that what is desired is what was
saved (`Wanted`), that only the last file is continued after a torn line
(`OnlyLastContinued`), and `LostFew`: at most two lines are known and cannot be read, and
none before the torn line is continued.  Without the last two `SavedSurvives` would not be
inductive.  `EachLineInOneFile` rests on a line being written only when no file knows it.

**`PayoutsProofs`** (any chains, any contents, any dice).  The invariant says of every jump
of `skips`, and of every one in `updates`, that its delta is the difference of two sums
along the chain (`JumpsExact`); that the levels of an entry have no gaps; and that a call
in progress has added up the shares from its start to `pos` and has not yet enough.
`Sums` and `Ways` are recursive functions; `LastMapExists` and its kind show that they
satisfy their equations.  `PayoutsDecided` follows: whatever path is taken, the answer is
the one that the chain and the question decide, and neither assertion nor lookup fails.
`CoinbaseAddsUp` is `PayoutsAddUp`, for any finite set of addresses: the weights of an
answer, the donation's included, sum to its total (`Balanced`), hence the rounded-down
amounts sum to no more than the subsidy, and what is left over goes to the donation
script: no amount is negative and none of the subsidy is lost, unless there are more
destinations than `MaxDests`, of which the largest are paid (`LeavesOut`, `CutPays`).  Sums
over addresses are taken apart by one address at a time (`OverAddresses`).

Only model-checked: liveness (`CatchesUp` of `OkayTracker`, `ReaderSettles` of `Workers`,
`Meet` of `Peers`, and the part of `KeepsPromises` that says that requests end): temporal
reasoning with fairness is outside what the prover does.  Every safety property of a passing run, and every action property, is a theorem, the
ones named above under the hypotheses named there.

## Findings

- `tx_memory_unwatched`: `watch_id2` is assigned twice in `handle_version` (p2p.py:231 and
  250), and the callbacks that end the watches read the last value: a peer that is lost
  ends another peer's watch on `known_txs_var`, which is then not told `losing_tx` and is
  disconnected for what it refers to.

## Observations without a run

Met while modelling; each is either outside the instances or a matter of reading.

- `check` passes a parent's punishment on only if the parent was checked before the child
  (data.py:543), and `think` checks heads first: a child that arrives with its naughty
  parent goes unpunished.  This concerns shares below version 34.
- A silent worker whose last socket closes loses its flag without `worker_active_again`
  (work.py:173); if it returns within the grace period the reader goes on taking it for
  silent, though TELEGRAM_BOT.md:308 promises an alert.
- After a duplicate is detected the rest of the chunk is still handled with `connected2`
  unset, so a peer that greeted at once is banned for a "first message" that was not
  (p2p.py:89).
- The broadcaster may have more connections than `max_peers`, which
  broadcaster.py:140 calls the total including the local node: the slots of a refresh
  leave attempts under way out of account (broadcaster.py:668).  The bound that does hold
  is `MaxPeers - 2 + MaxConcurrent`: 21 entries with the defaults, where `max_peers` is 20.
  No run states a bound.
- Its `stop` sets `stopping` before the last save, which then returns at once
  (broadcaster.py:218, 1045): what was learned since the periodic save is lost.
- A line torn by a crash takes the next one appended with it, since the store does not end
  it first (data.py:1026); `Durable` allows for both.
- `forget_item` is not needed for the answers of the skip list: a jump leads along links
  that never change.  It bounds the memory.
- `DeferredCacher` wakes those who wait for a value before it stores the value
  (deferral.py:174): each of them calls the function again.
- Authorize twice on one socket (stratum.py:468-481, which says that it happens):
  `worker_connected` is fired by each call and `worker_disconnected` once, so conn_count is
  not "the number of live TCP sockets per username" (web.py:395, work.py:125-127): it is
  too high, the entry outlives the socket, and no disconnect alert is sent for the worker.
- The sender of transactions allows a memory of exactly the limit (p2p.py:245, 254, 385),
  the receiver bans at it (p2p.py:500).  If a whole block template does not fit, the
  assertion at p2p.py:245 leaves its size counted and nothing sent.
- Where the net's `SANE_TARGET_RANGE` ends below the share target, the final clip of
  get_work (work.py:654) makes the first job of a connection harder than a share, against
  what the lines above it are for: the miner withholds shares until its next job.
  litecoin_testnet's range ends at about 2^239 and its share target may go up to 2^256/20.
- When `think` raises in the turn of a submit (work.py:796), the share is in the tracker,
  the header is not recorded and the miner gets no answer; sending it again makes
  `tracker.add` raise "item already present".  The same comes of a difficulty fixed by the
  username, harder than a share: the share is added, the submit is rejected and its header
  not recorded (work.py:763-857).
- An exception of `handle_shares` ends `download_shares` for the rest of the run: the call
  is outside the `try` (node.py:136), and `think` may raise (below).
- The third loop of `think` does not check one share that `attempt_verify` would take
  (data.py:775 has `last_height - 1 - CHAIN_LENGTH`, `attempt_verify` needs a height above
  `CHAIN_LENGTH`); `WindowVerified` holds because the parent below it is requested.
- With more than 4000 destinations the coinbase leaves out the smallest (data.py:285) and
  pays their amounts to nobody, the donation script included.
- The work cache is per address and ignores the difficulty a worker asks for
  (worker_interface.py:129): the first target of one worker may come from another one's.
- A rejected first submit stops the no-submit timers, as the comment at stratum.py:857
  says, but the next job starts them again, since no accepted share was recorded.
- `think` raises KeyError if a bad share is listed under two heads, or if the first share
  of a chain is punished; best and desired then keep their old values.  It steps down from
  a punished share and `best_descendent` may climb back on a share not verified yet
  (data.py:795-846).  `clean_tracker` tells nobody of the bad shares its first `think` finds.
- `desired_conns` may be exceeded: all attempts under way may succeed.  Two nodes that
  dial each other at once may drop both connections.  A node that dials itself bans its
  own address.
- `worker_disconnected`'s branch for a worker that is already gone is never taken.
- By reading only: `VariableDict.remove` names undefined variables (variable.py:99-103);
  `fragment` does not end on one item that is too long (p2p.py:20-25); the download loop's
  bare `except` takes a mere disconnect for misbehaviour (node.py:128); `_getwork` calls
  the cached handler with three arguments, which takes four (worker_interface.py:67,139);
  the addresses of peers are written in place (main.py:306), so that a crash may leave half
  a file, which is then not read; the Telegram bot keeps its conversations in memory only
  and writes its subscriptions in place.

## Not modelled

- Vendored code (SOAPpy, wstools, nattraverso, fpconst, litecoin_scrypt, web-static), the
  networks (constants), packaging and scripts.
- Encodings, hashes, scripts and addresses, message framing and the RPC parser: sequential
  conversions without state, which unit tests reach.
- Start-up, the web pages, graphs and statistics: reading, or writing of files nobody
  depends on.  The Telegram bots are separate programs; the node tells them what `Workers`
  models.
- Headers and heights, the helper's caches, the bitcoind peer: clients of bitcoind whose
  answers stand in `OkayTracker` as facts.  A request for headers that stays unanswered
  (height_tracker.py:78) blocks its like for up to a minute, which no model has.
- Addresses between peers (`addr_store`, getaddrs, addrs, addrme), bestblock headers, ban
  scores.
- Retargeting, the choice of transactions of a share, desired versions, `DeferredCacher`,
  `ReplyMatcher`, `ExpiringDict`'s list, the getwork front, version rolling, extranonce1.

## Plan

What is left, by what it would add:

1. `HeightTracker` and the caches of helper.py with bitcoind as environment: requests that
   are never answered, and the minute after which they are made again.
2. `DeferredCacher` with several callers, against an abstract cache, and `ExpiringDict`.
3. Retargeting as operators over a chain of times and targets, compared with a reference.
4. Addresses between peers, and the addresses `think` of a factory dials.
