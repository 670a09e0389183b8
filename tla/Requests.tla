------------------------------ MODULE Requests ------------------------------
(***************************************************************************)
(* Requests for shares: get_shares of every connection, a GenericDeferrer    *)
(* (util/deferral.py), and who waits for its Deferreds: the download loop and *)
(* handle_share_hashes (node.py), and the pings of the web page (p2p.py,      *)
(* web.py).                                                                 *)
(*                                                                         *)
(* A Deferred that fires runs its caller at once, before the code behind     *)
(* callback or errback, so one action holds both.  An id is a random number  *)
(* of 256 bits and never comes twice; a reply with an id that is not in map  *)
(* is ignored and left out.                                                 *)
(***************************************************************************)
EXTENDS Naturals

CONSTANTS
    Peer,
    Pings            \* bound: pings of one peer for one page

ASSUME RequestsAssumption == Pings \in Nat \ {0}

(* A Deferred is named by who waits for it and whom he asked; turn tells it   *)
(* from the one he waited for before.                                       *)
Deferred == [who : {"download", "hashes", "ping"}, peer : Peer, turn : {0, 1}]

VARIABLES
    link,            \* "gone", "listed" in Node.peers, or "closing": listed and aborted
    map,             \* of a connection's GenericDeferrer
    timer,           \* Deferreds whose callLater is pending
    waiting,         \* Deferreds that have not fired
    left,            \* pings the page will send when the present one is done
    loop,            \* download_shares: "idle", "sleep", "asking" or "dead"
    wanted           \* desired_var is not empty

requests == <<map, timer, waiting>>
rvars == <<link, requests, left, loop, wanted>>

Listed == {p \in Peer : link[p] # "gone"}          \* Node.peers
Of(who, S) == {d \in S : d.who = who}

(* The Deferred of who's next request to p.                                 *)
New(who, p) ==
    LET first == [who |-> who, peer |-> p, turn |-> 0]
    IN {[first EXCEPT !.turn = IF first \in waiting THEN 1 ELSE 0]}

-----------------------------------------------------------------------------
(* done is popped from map, its timers are cancelled and its Deferreds fire; *)
(* those of new are registered.                                             *)
Settle(done, new) ==
    /\ map' = [p \in Peer |-> (map[p] \ done) \cup {d \in new : d.peer = p}]
    /\ timer' = (timer \ done) \cup new
    /\ waiting' = (waiting \ done) \cup new

WaitWithoutPeers(peers, desired, done) ==          \* mutant of Go
    \/ /\ (~desired \/ peers = {}) /\ loop' = "idle" /\ Settle(done, {})
    \/ /\ desired /\ loop' = "asking"
       /\ \E p \in peers : Settle(done, New("download", p))

(* The download loop goes on with this list of peers: it sleeps, waits for   *)
(* desired_var, or asks one of them.                                        *)
Go(peers, desired, done) ==
    \/ /\ ~desired /\ loop' = "idle" /\ Settle(done, {})
    \/ /\ desired /\ peers = {} /\ loop' = "sleep" /\ Settle(done, {})
    \/ /\ desired /\ loop' = "asking"
       /\ \E p \in peers : Settle(done, New("download", p))

(* The page sends its next ping; a lost connection fails it at once.        *)
NextPing(p, done) ==
    IF left[p] > 0
    THEN left' = [left EXCEPT ![p] = @ - 1] /\ Settle(done, New("ping", p))
    ELSE left' = left /\ Settle(done, {})

Closing(p) == [link EXCEPT ![p] = IF @ = "gone" THEN @ ELSE "closing"]

-----------------------------------------------------------------------------
(* handle_version; the peer is asked for its best share if that is new.     *)
got_conn(p) ==
    /\ link[p] = "gone"
    /\ link' = [link EXCEPT ![p] = "listed"]
    /\ \/ Settle({}, {})
       \/ Settle({}, New("hashes", p))
    /\ UNCHANGED <<left, loop, wanted>>

do_ping(p) ==
    /\ link[p] # "gone"
    /\ Of("ping", map[p]) = {}    \* bound: one page at a time
    /\ left' = [left EXCEPT ![p] = Pings - 1]
    /\ Settle({}, New("ping", p))
    /\ UNCHANGED <<link, loop, wanted>>

(* desired_var is set; the loop may be waiting for that.                    *)
SetDesired(w, done) ==
    /\ wanted' = w
    /\ IF loop = "idle" /\ w THEN Go(Listed, w, done)
       ELSE Settle(done, {}) /\ UNCHANGED loop

desired_changed ==
    /\ SetDesired(~wanted, {})
    /\ UNCHANGED <<link, left>>

wakes ==
    /\ loop = "sleep"
    /\ Go(Listed, wanted, {})
    /\ UNCHANGED <<link, left, wanted>>

(* handle_sharereply.  What follows a disconnect in the same chunk is still  *)
(* handled.  handle_shares calls set_best_share, and when think raises there *)
(* desired_var stays as it is: the generator of the loop, which calls        *)
(* handle_shares outside its try, ends for good; handle_share_hashes is done *)
(* anyway.                                                                  *)
HandleSharesRaises(s) ==
    /\ s.who # "ping"
    /\ Settle({s}, {})
    /\ loop' = IF s.who = "download" THEN "dead" ELSE loop
    /\ UNCHANGED <<link, left, wanted>>

SharesCome(p, s) ==
    \/ HandleSharesRaises(s)
    \/ \E w \in BOOLEAN :
       CASE s.who = "download" -> /\ wanted' = w
                                  /\ Go(Listed, w, {s})
                                  /\ UNCHANGED <<link, left>>
         [] s.who = "hashes" -> SetDesired(w, {s}) /\ UNCHANGED <<link, left>>
         [] OTHER -> NextPing(p, {s}) /\ UNCHANGED <<link, loop, wanted>>

NoSharesCome(p, s) ==
    CASE s.who = "download" -> /\ loop' = "sleep" /\ Settle({s}, {})
                               /\ UNCHANGED <<link, left, wanted>>
      [] s.who = "hashes" -> Settle({s}, {}) /\ UNCHANGED <<link, left, loop, wanted>>
      [] OTHER -> NextPing(p, {s}) /\ UNCHANGED <<link, loop, wanted>>

(* Result "too long" is an error to the caller, who calls badPeerHappened.   *)
ErrorComes(p, s) ==
    CASE s.who = "download" -> /\ Go(Listed, wanted, {s})
                               /\ link' = Closing(p)
                               /\ UNCHANGED <<left, wanted>>
      [] s.who = "hashes" -> /\ Settle({s}, {}) /\ link' = Closing(p)
                             /\ UNCHANGED <<left, loop, wanted>>
      [] OTHER -> NextPing(p, {s}) /\ UNCHANGED <<link, loop, wanted>>

sharereply(p, s) ==
    /\ s \in map[p] /\ link[p] # "gone"
    /\ SharesCome(p, s) \/ NoSharesCome(p, s) \/ ErrorComes(p, s)

(* A message that cannot be handled, silence, a failed handshake.           *)
abort(p) ==
    /\ link[p] = "listed" /\ link' = Closing(p)
    /\ UNCHANGED <<requests, left, loop, wanted>>

(* The timer pops the request and fires it, the caller goes on, perhaps with *)
(* a new request to the same peer, and only then on_timeout disconnects.     *)
times_out(p, s) ==
    /\ s \in timer /\ s \in map[p]
    /\ link' = Closing(p)
    /\ CASE s.who = "download" -> Go(Listed, wanted, {s}) /\ UNCHANGED <<left, wanted>>
         [] s.who = "hashes" -> Settle({s}, {}) /\ UNCHANGED <<left, loop, wanted>>
         [] OTHER -> NextPing(p, {s}) /\ UNCHANGED <<loop, wanted>>

(* mutant: takes what is in map when it begins, and not what comes then     *)
FailSnapshot(p) ==
    /\ link[p] # "gone"
    /\ link' = [link EXCEPT ![p] = "gone"]
    /\ CASE Of("download", map[p]) # {} ->
              Go(Listed \ {p}, wanted, map[p]) /\ left' = [left EXCEPT ![p] = 0]
         [] Of("ping", map[p]) # {} ->
              NextPing(p, map[p]) /\ UNCHANGED loop
         [] OTHER -> Settle(map[p], {}) /\ UNCHANGED <<left, loop>>
    /\ UNCHANGED wanted

(* mutant: before the peer leaves Node.peers                                *)
FailFirst(p) ==
    /\ link[p] # "gone"
    /\ link' = [link EXCEPT ![p] = "gone"]
    /\ left' = [left EXCEPT ![p] = 0]
    /\ IF Of("download", map[p]) # {}
       THEN Go(Listed, wanted, map[p])
       ELSE Settle(map[p], {}) /\ UNCHANGED loop
    /\ UNCHANGED wanted

(* connectionLost: the peer leaves Node.peers and then respond_all pops      *)
(* until map is empty; the pings that follow a failed one are registered     *)
(* and failed as well.                                                      *)
respond_all(p) ==
    /\ link[p] # "gone"
    /\ link' = [link EXCEPT ![p] = "gone"]
    /\ left' = [left EXCEPT ![p] = 0]
    /\ IF Of("download", map[p]) # {}
       THEN Go(Listed \ {p}, wanted, map[p])
       ELSE Settle(map[p], {}) /\ UNCHANGED loop
    /\ UNCHANGED wanted

RInit ==
    /\ link = [p \in Peer |-> "gone"] /\ map = [p \in Peer |-> {}] /\ timer = {}
    /\ waiting = {} /\ left = [p \in Peer |-> 0]
    /\ loop = "idle" /\ wanted = FALSE

RNext ==
    \/ desired_changed \/ wakes
    \/ \E p \in Peer :
          \/ got_conn(p) \/ do_ping(p) \/ abort(p) \/ respond_all(p)
          \/ \E s \in Deferred : sharereply(p, s) \/ times_out(p, s)

RSpec == RInit /\ [][RNext]_rvars

(* The reactor fires its timers and reports an aborted connection.          *)
RFairSpec ==
    /\ RSpec
    /\ WF_rvars(wakes)
    /\ \A p \in Peer :
          /\ WF_rvars(link[p] = "closing" /\ respond_all(p))
          /\ \A s \in Deferred : WF_rvars(times_out(p, s))

-----------------------------------------------------------------------------
RTypeOK ==
    /\ link \in [Peer -> {"gone", "listed", "closing"}]
    /\ map \in [Peer -> SUBSET Deferred] /\ timer \subseteq Deferred
    /\ waiting \subseteq Deferred /\ left \in [Peer -> 0..(Pings - 1)]
    /\ loop \in {"idle", "sleep", "asking", "dead"} /\ wanted \in BOOLEAN

(* Nobody waits for a connection that is gone: what callers ask anew while   *)
(* respond_all fails their requests is failed, or goes to another peer.      *)
NobodyOrphaned == \A p \in Peer : link[p] = "gone" => map[p] = {} /\ left[p] = 0

(* download_shares is in one place: it is asking exactly when one request is *)
(* its own, whatever ended the one before, and it never rests while         *)
(* something is desired.  Only an exception of handle_shares ends it.       *)
LoopAlive ==
    /\ \A d, e \in Of("download", waiting) : d = e
    /\ loop = "asking" <=> Of("download", waiting) # {}
    /\ loop = "idle" => ~wanted

(* Every Deferred fires once, not later than its connection is lost.        *)
P == INSTANCE Promises WITH open <- waiting, up <- Listed
KeepsPromises == P!Spec
=============================================================================
