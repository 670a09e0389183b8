---------------------------- MODULE Broadcaster ----------------------------
(***************************************************************************)
(* NetworkBroadcaster (bitcoin/broadcaster.py): the peer database and its    *)
(* file, the connections that a found block is sent through, the attempts    *)
(* under way, backoff, and the loops that maintain them.                     *)
(*                                                                         *)
(* An address is one that passes the port filter and is no IPv6 address.     *)
(* What the scores decide, which candidates come first, is any choice.  The  *)
(* factory of a connection reconnects by itself once the handshake is done,  *)
(* whatever stopTrying was called before: resetDelay in handle_verack        *)
(* (bitcoin/p2p.py) sets continueTrying again.                               *)
(***************************************************************************)
EXTENDS Naturals, FiniteSets

CONSTANTS
    Local,           \* the address of the local node
    Daemon,          \* addresses the local node may be connected to
    Heard,           \* addresses that peers tell of
    MaxPeers, MinPeers, MaxConcurrent, PerCycle, MaxAttempts,
    MaxAsking        \* bound: calls of getpeerinfo under way

Remote == Daemon \cup Heard

ASSUME BroadcasterAssumption ==
    /\ IsFiniteSet(Remote) /\ Local \notin Remote
    /\ MaxPeers \in Nat \ {0, 1} /\ MinPeers \in Nat \ {0}
    /\ MaxConcurrent \in Nat \ {0} /\ PerCycle \in Nat /\ MaxAttempts \in Nat \ {0}
    /\ MaxAsking \in Nat

VARIABLES
    phase,           \* "down", "bootstrapping" or "running"
    stopping,
    file,            \* the saved addresses; {} before the first save
    peer_db,
    connections,     \* addresses with an entry, the protected one included
    pending,         \* pending_connections
    attempts,        \* connection_attempts, 0 when there is no entry
    failures,        \* connection_failures: "none", or the backoff is "on" or "over"
    coind_peers,
    since,           \* last_coind_refresh: under a minute (0), half an hour (1), longer (2)
    asking,          \* _refresh_peers_from_coind under way
    discovery,       \* discovery_enabled
    link,            \* of a factory: "none", "dialing", "up", "lost" or reconnected "again"
    localUp          \* local_factory.conn.value is not None

memory == <<peer_db, connections, pending, attempts, failures, coind_peers, since,
            asking, discovery, link>>
vars == <<phase, stopping, file, memory, localUp>>

Running == phase = "running"
Least(m, n) == IF m <= n THEN m ELSE n

-----------------------------------------------------------------------------
(* refresh_connections, with the database db and the daemon's peers.        *)
Dead == {a \in connections \ {Local} : link[a] # "up"}
Kept == (connections \ Dead) \cup {Local}

AtCapacity == Cardinality(Kept) >= MaxPeers - 1

Candidates(db, coind) ==
    {a \in db \ (Kept \cup pending \cup coind) :
        failures[a] # "on" /\ attempts[a] < MaxAttempts}

Slots ==
    IF AtCapacity \/ Cardinality(pending) >= MaxConcurrent THEN 0
    ELSE Least(MaxConcurrent - Cardinality(pending),
               Least(PerCycle, MaxPeers - Cardinality(Kept)))

Chosen(candidates) ==
    {new \in SUBSET candidates :
        Cardinality(new) = Least(Slots, Cardinality(candidates))}

(* A pruned factory stops trying and its connector is disconnected.         *)
RelinkedOnly(new) ==                                        \* mutant of Relinked
    [a \in Remote |-> IF a \in new THEN "dialing" ELSE link[a]]
Relinked(new) ==
    [a \in Remote |-> IF a \in new THEN "dialing"
                      ELSE IF a \in Dead THEN "none" ELSE link[a]]

refresh_connections(db, coind) ==
    \/ /\ stopping
       /\ UNCHANGED <<connections, pending, discovery, link>>
    \/ /\ ~stopping
       /\ connections' = Kept
       /\ discovery' = ~AtCapacity
       /\ \E new \in Chosen(Candidates(db \ {Local}, coind)) :
             /\ pending' = pending \cup new
             /\ link' = Relinked(new)

-----------------------------------------------------------------------------
(* _adaptive_refresh, every 5 s whether or not the last call is done.       *)
Active == {a \in connections : IF a = Local THEN localUp ELSE link[a] \in {"up", "again"}}
TooFew == Cardinality(Active) < MinPeers

_ask == asking < MaxAsking /\ asking' = asking + 1

_adaptive_refresh ==
    /\ Running /\ ~stopping
    /\ \/ /\ IF TooFew THEN since > 0 ELSE since = 2
          /\ _ask
          /\ UNCHANGED <<connections, pending, discovery, link>>
       \/ /\ TooFew /\ since = 0
          /\ refresh_connections(peer_db, coind_peers)
          /\ UNCHANGED asking
    /\ UNCHANGED <<phase, stopping, file, peer_db, attempts, failures, coind_peers,
                   since, localUp>>

(* What follows the answer, and an error of the call.                       *)
_refresh_peers_from_coind(answer) ==
    /\ asking > 0 /\ asking' = asking - 1
    /\ coind_peers' = answer /\ since' = 0
    /\ peer_db' = peer_db \cup answer
    /\ failures' = [a \in Remote |->
                       IF a \in answer \ peer_db THEN "none" ELSE failures[a]]
    /\ refresh_connections(peer_db', answer)
    /\ UNCHANGED <<phase, stopping, file, attempts, localUp>>

refresh_error ==
    /\ asking > 0 /\ asking' = asking - 1
    /\ refresh_connections(peer_db, coind_peers)
    /\ UNCHANGED <<phase, stopping, file, peer_db, attempts, failures, coind_peers,
                   since, localUp>>

time_passes ==
    /\ since < 2 /\ since' = since + 1
    /\ UNCHANGED <<phase, stopping, file, peer_db, connections, pending, attempts,
                   failures, coind_peers, asking, discovery, link, localUp>>

backoff_ends(a) ==
    /\ failures[a] = "on"
    /\ failures' = [failures EXCEPT ![a] = "over"]
    /\ UNCHANGED <<phase, stopping, file, peer_db, connections, pending, attempts,
                   coind_peers, since, asking, discovery, link, localUp>>

-----------------------------------------------------------------------------
(* _connect_to_peer, once the handshake is done.                            *)
_record_connection_success(a) ==
    /\ failures' = [failures EXCEPT ![a] = "none"]
    /\ attempts' = [attempts EXCEPT ![a] = 0]
    /\ pending' = pending \ {a}

connects(a) ==
    /\ link[a] = "dialing"
    /\ link' = [link EXCEPT ![a] = "up"]
    /\ connections' = connections \cup {a}
    /\ _record_connection_success(a)
    /\ UNCHANGED <<phase, stopping, file, peer_db, coind_peers, since, asking,
                   discovery, localUp>>

(* No handshake in 15 s: refused, lost or silent.                           *)
connect_fails(a) ==
    /\ link[a] = "dialing"
    /\ link' = [link EXCEPT ![a] = "none"]
    /\ failures' = [failures EXCEPT ![a] = "on"]
    /\ attempts' = [attempts EXCEPT ![a] = @ + 1]
    /\ pending' = pending \ {a}
    /\ UNCHANGED <<phase, stopping, file, peer_db, connections, coind_peers, since,
                   asking, discovery, localUp>>

SetLink(a, old, new) ==
    /\ link[a] \in old
    /\ link' = [link EXCEPT ![a] = new]
    /\ UNCHANGED <<phase, stopping, file, peer_db, connections, pending, attempts,
                   failures, coind_peers, since, asking, discovery, localUp>>
connection_lost(a) == SetLink(a, {"up", "again"}, "lost")
reconnects(a) == SetLink(a, {"lost"}, "again")

local_changes ==
    /\ localUp' = ~localUp
    /\ UNCHANGED <<phase, stopping, file, memory>>

(* Only the protocol of the first handshake is hooked.                      *)
handle_addr_message(a, told) ==
    /\ link[a] = "up"
    /\ peer_db' = peer_db \cup {told}
    /\ UNCHANGED <<phase, stopping, file, connections, pending, attempts, failures,
                   coind_peers, since, asking, discovery, link, localUp>>

(* work.py has the broadcaster once start is done, so it is bootstrapped.   *)
EnsurePeers ==
    IF Cardinality(connections) < MinPeers
    THEN refresh_connections(peer_db, coind_peers)
    ELSE UNCHANGED <<connections, pending, discovery, link>>

broadcast_block ==
    /\ Running
    /\ EnsurePeers
    /\ UNCHANGED <<phase, stopping, file, peer_db, attempts, failures, coind_peers,
                   since, asking, localUp>>

-----------------------------------------------------------------------------
Init ==
    /\ phase = "down" /\ stopping = FALSE /\ file = {} /\ localUp = TRUE
    /\ peer_db = {} /\ connections = {} /\ pending = {} /\ coind_peers = {}
    /\ attempts = [a \in Remote |-> 0] /\ failures = [a \in Remote |-> "none"]
    /\ since = 2 /\ asking = 0 /\ discovery = TRUE /\ link = [a \in Remote |-> "none"]

(* start: the file is there once a bootstrap was saved, and says so.        *)
LoadNothing(saved) == {Local}                  \* mutant of _load_peer_database
_load_peer_database(saved) == saved

start ==
    /\ phase = "down"
    /\ IF file # {}
       THEN /\ phase' = "running"
            /\ peer_db' = _load_peer_database(file)
            /\ UNCHANGED connections
       ELSE /\ phase' = "bootstrapping"
            /\ peer_db' = {Local}
            /\ connections' = {Local}
    /\ UNCHANGED <<stopping, file, pending, attempts, failures, coind_peers, since,
                   asking, discovery, link, localUp>>

(* bootstrap_from_coind, when getpeerinfo is answered; {} stands for an error. *)
bootstrap_from_coind(answer) ==
    /\ phase = "bootstrapping" /\ phase' = "running"
    /\ peer_db' = peer_db \cup answer
    /\ refresh_connections(peer_db', coind_peers)
    /\ UNCHANGED <<stopping, file, attempts, failures, coind_peers, since, asking, localUp>>

_save_peer_database ==
    /\ Running /\ ~stopping
    /\ file' = peer_db
    /\ UNCHANGED <<phase, stopping, memory, localUp>>

(* stop: its _save_peer_database returns at once.  Attempts go on.          *)
Disconnected == connections \ {Local}

stop ==
    /\ Running /\ ~stopping /\ stopping' = TRUE
    /\ connections' = connections \ Disconnected
    /\ link' = [a \in Remote |-> IF a \in Disconnected THEN "none" ELSE link[a]]
    /\ UNCHANGED <<phase, file, peer_db, pending, attempts, failures, coind_peers,
                   since, asking, discovery, localUp>>

(* The process ends, at any time.                                           *)
crash ==
    /\ phase # "down" /\ phase' = "down" /\ stopping' = FALSE
    /\ peer_db' = {} /\ connections' = {} /\ pending' = {} /\ coind_peers' = {}
    /\ attempts' = [a \in Remote |-> 0] /\ failures' = [a \in Remote |-> "none"]
    /\ since' = 2 /\ asking' = 0 /\ discovery' = TRUE /\ link' = [a \in Remote |-> "none"]
    /\ UNCHANGED <<file, localUp>>

Next ==
    \/ start \/ _save_peer_database \/ stop \/ crash
    \/ _adaptive_refresh \/ refresh_error \/ time_passes \/ local_changes \/ broadcast_block
    \/ \E answer \in SUBSET Daemon :
          bootstrap_from_coind(answer) \/ _refresh_peers_from_coind(answer)
    \/ \E a \in Remote :
          \/ connects(a) \/ connect_fails(a) \/ connection_lost(a) \/ reconnects(a)
          \/ backoff_ends(a)
          \/ \E told \in Heard : handle_addr_message(a, told)

Spec == Init /\ [][Next]_vars

-----------------------------------------------------------------------------
TypeOK ==
    /\ phase \in {"down", "bootstrapping", "running"} /\ stopping \in BOOLEAN
    /\ file \subseteq Remote \cup {Local} /\ peer_db \subseteq Remote \cup {Local}
    /\ connections \subseteq Remote \cup {Local} /\ pending \subseteq Remote
    /\ attempts \in [Remote -> Nat]
    /\ failures \in [Remote -> {"none", "on", "over"}]
    /\ coind_peers \subseteq Remote /\ since \in 0..2 /\ asking \in Nat
    /\ discovery \in BOOLEAN /\ localUp \in BOOLEAN
    /\ link \in [Remote -> {"none", "dialing", "up", "lost", "again"}]

(* No socket is left to itself, although factories reconnect unasked and     *)
(* attempts outlive stop: whatever dials is pending, whatever was connected  *)
(* has an entry, through which it is pruned or disconnected.                 *)
SocketsExact ==
    /\ pending = {a \in Remote : link[a] = "dialing"}
    /\ connections \ {Local} = {a \in Remote : link[a] \in {"up", "lost", "again"}}

(* "LOCAL NODE CONNECTION IS SACRED": where there is any connection, there   *)
(* is the local one.                                                        *)
LocalKept == connections # {} \/ pending # {} => Local \in connections

(* The two records of failures tell the same story, of addresses in the      *)
(* database only, and who failed MaxAttempts times is not dialled again.     *)
RecordsAgree ==
    /\ \A a \in Remote :
          /\ attempts[a] > 0 <=> failures[a] # "none"
          /\ attempts[a] > 0 \/ a \in connections \cup pending => a \in peer_db
          /\ attempts[a] <= MaxAttempts
    /\ connections \cap Remote \subseteq {a \in Remote : attempts[a] = 0}

(* "Peers survive restarts": an address that was saved is known whenever the *)
(* broadcaster runs.                                                        *)
SavedKnown == Running => file \subseteq peer_db
=============================================================================
