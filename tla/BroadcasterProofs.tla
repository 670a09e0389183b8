-------------------------- MODULE BroadcasterProofs --------------------------
(***************************************************************************)
(* The broadcaster's sockets, records and limits, for any addresses and any *)
(* values of its settings.                                                  *)
(***************************************************************************)
EXTENDS Broadcaster, FiniteSetTheorems, TLAPS

(* Nothing survives in memory while the process is down, and nothing is      *)
(* asked or dialled before the bootstrap is done.                            *)
Phased ==
    /\ phase = "down" => /\ connections = {} /\ peer_db = {} /\ ~stopping
                         /\ \A a \in Remote : attempts[a] = 0
    /\ phase # "running" => asking = 0 /\ \A a \in Remote : link[a] = "none"
    /\ phase = "bootstrapping" => file = {} /\ Local \in connections

(* Whoever is dialled has an attempt left.                                   *)
Hopeful == \A a \in pending : attempts[a] < MaxAttempts

(* What the properties need to be inductive.                                 *)
IInv == TypeOK /\ SocketsExact /\ LocalKept /\ RecordsAgree /\ SavedKnown /\ Phased /\ Hopeful

(* What refresh_connections does: nothing, or it prunes and dials new.       *)
Refreshed(db, new) ==
    /\ new \subseteq (db \cap Remote) \ (Kept \cup pending)
    /\ \A a \in new : attempts[a] < MaxAttempts
    /\ connections' = Kept /\ pending' = pending \cup new /\ link' = Relinked(new)
    /\ discovery' \in BOOLEAN

Unrefreshed == UNCHANGED <<connections, pending, discovery, link>>

LEMMA RefreshChoice ==
    ASSUME TypeOK, NEW db \in SUBSET (Remote \cup {Local}), NEW coind,
           refresh_connections(db, coind)
    PROVE  Unrefreshed \/ \E new : Refreshed(db, new)
<1>1. CASE stopping
  BY <1>1 DEF refresh_connections, Unrefreshed
<1>2. CASE ~stopping
  <2>1. PICK new \in Chosen(Candidates(db \ {Local}, coind)) :
           pending' = pending \cup new /\ link' = Relinked(new)
    BY <1>2 DEF refresh_connections
  <2>2. new \subseteq Candidates(db \ {Local}, coind)
    BY <2>1 DEF Chosen
  <2>3. new \subseteq (db \cap Remote) \ (Kept \cup pending) /\ \A a \in new : attempts[a] < MaxAttempts
    BY <2>2 DEF Candidates
  <2>4. connections' = Kept /\ discovery' \in BOOLEAN
    BY <1>2 DEF refresh_connections, AtCapacity
  <2> QED BY <2>1, <2>3, <2>4 DEF Refreshed
<1> QED BY <1>1, <1>2

(* The parts of the invariant that a refresh disturbs.                       *)
LEMMA RefreshKeeps ==
    ASSUME IInv, NEW db \in SUBSET (Remote \cup {Local}), NEW coind,
           refresh_connections(db, coind),
           db \subseteq peer_db', peer_db \subseteq peer_db', attempts' = attempts
    PROVE  /\ connections' \in SUBSET (Remote \cup {Local}) /\ pending' \in SUBSET Remote
           /\ discovery' \in BOOLEAN
           /\ link' \in [Remote -> {"none", "dialing", "up", "lost", "again"}]
           /\ SocketsExact' /\ LocalKept' /\ Hopeful'
           /\ \A a \in Remote : a \in connections' \cup pending' => a \in peer_db'
           /\ connections' \cap Remote \subseteq {a \in Remote : attempts[a] = 0}
           /\ (phase = "bootstrapping" => Local \in connections')
<1> USE BroadcasterAssumption DEF IInv
<1>1. CASE Unrefreshed
  BY <1>1 DEF Unrefreshed, SocketsExact, LocalKept, Hopeful, RecordsAgree, Phased, TypeOK
<1>2. ASSUME NEW new, Refreshed(db, new) PROVE
           /\ connections' \in SUBSET (Remote \cup {Local}) /\ pending' \in SUBSET Remote
           /\ discovery' \in BOOLEAN
           /\ link' \in [Remote -> {"none", "dialing", "up", "lost", "again"}]
           /\ SocketsExact' /\ LocalKept' /\ Hopeful'
           /\ \A a \in Remote : a \in connections' \cup pending' => a \in peer_db'
           /\ connections' \cap Remote \subseteq {a \in Remote : attempts[a] = 0}
           /\ (phase = "bootstrapping" => Local \in connections')
  <2>1. /\ new \subseteq Remote /\ new \subseteq peer_db' /\ new \cap Kept = {} /\ new \cap pending = {}
        /\ \A a \in new : attempts[a] < MaxAttempts
        /\ connections' = Kept /\ pending' = pending \cup new /\ link' = Relinked(new)
        /\ discovery' \in BOOLEAN
    BY <1>2 DEF Refreshed
  <2>2. Kept \subseteq connections \cup {Local} /\ Local \in Kept
    BY DEF Kept, Dead
  <2>3. connections' \in SUBSET (Remote \cup {Local}) /\ pending' \in SUBSET Remote
    BY <2>1, <2>2 DEF TypeOK
  <2>4. link' \in [Remote -> {"none", "dialing", "up", "lost", "again"}]
    BY <2>1 DEF Relinked, TypeOK
  <2>5. SocketsExact'
    <3>1. \A a \in Remote : (a \in pending') <=> (link'[a] = "dialing")
      BY <2>1 DEF Relinked, SocketsExact, Dead, TypeOK
    <3>2. \A a \in Remote : (a \in connections') <=> (link'[a] \in {"up", "lost", "again"})
      BY <2>1 DEF Relinked, SocketsExact, Dead, Kept, TypeOK
    <3> QED BY <3>1, <3>2, <2>3 DEF SocketsExact
  <2>6. LocalKept'
    BY <2>1, <2>2 DEF LocalKept
  <2>7. Hopeful'
    BY <2>1 DEF Hopeful
  <2>8. \A a \in Remote : a \in connections' \cup pending' => a \in peer_db'
    BY <2>1, <2>2 DEF RecordsAgree
  <2>9. connections' \cap Remote \subseteq {a \in Remote : attempts[a] = 0}
    BY <2>1, <2>2 DEF RecordsAgree
  <2> QED BY <2>1, <2>2, <2>3, <2>4, <2>5, <2>6, <2>7, <2>8, <2>9
<1> QED BY <1>1, <1>2, RefreshChoice
-----------------------------------------------------------------------------
LEMMA InitIInv == Init => IInv
<1> USE BroadcasterAssumption
<1> SUFFICES ASSUME Init PROVE IInv
  OBVIOUS
<1>1. TypeOK
  <2>1. attempts \in [Remote -> Nat]
    BY DEF Init
  <2>2. failures \in [Remote -> {"none", "on", "over"}]
    BY DEF Init
  <2>3. link \in [Remote -> {"none", "dialing", "up", "lost", "again"}]
    BY DEF Init
  <2>4. stopping \in BOOLEAN /\ discovery \in BOOLEAN /\ localUp \in BOOLEAN
    BY DEF Init
  <2>5. /\ phase \in {"down", "bootstrapping", "running"}
        /\ file \subseteq Remote \cup {Local} /\ peer_db \subseteq Remote \cup {Local}
        /\ connections \subseteq Remote \cup {Local} /\ pending \subseteq Remote
        /\ coind_peers \subseteq Remote
    BY DEF Init
  <2>6. since \in 0..2 /\ asking \in Nat
    BY DEF Init
  <2> QED BY <2>1, <2>2, <2>3, <2>4, <2>5, <2>6 DEF TypeOK
<1>2. SocketsExact
  <2>1. \A a \in Remote : link[a] = "none"
    BY DEF Init
  <2> QED BY <2>1 DEF Init, SocketsExact
<1>3. LocalKept /\ SavedKnown /\ Phased /\ Hopeful
  BY DEF Init, LocalKept, SavedKnown, Phased, Hopeful, Running
<1>4. RecordsAgree
  <2>1. \A a \in Remote : attempts[a] = 0 /\ failures[a] = "none"
    BY DEF Init
  <2> QED BY <2>1 DEF Init, RecordsAgree
<1> QED BY <1>1, <1>2, <1>3, <1>4 DEF IInv

(* A step that refreshes, with what else it does to the database, to failures *)
(* and to phase.                                                            *)
LEMMA RefreshStep ==
    ASSUME IInv, NEW db \in SUBSET (Remote \cup {Local}), NEW coind,
           refresh_connections(db, coind),
           db \subseteq peer_db', peer_db \subseteq peer_db',
           peer_db' \subseteq Remote \cup {Local}, attempts' = attempts,
           failures' \in [Remote -> {"none", "on", "over"}],
           \A a \in Remote : failures'[a] # "none" <=> failures[a] # "none",
           phase # "down", phase' = "running", coind_peers' \subseteq Remote,
           since' \in 0..2, asking' \in Nat,
           UNCHANGED <<stopping, file, localUp>>
    PROVE  IInv'
<1>1. /\ connections' \in SUBSET (Remote \cup {Local}) /\ pending' \in SUBSET Remote
      /\ discovery' \in BOOLEAN
      /\ link' \in [Remote -> {"none", "dialing", "up", "lost", "again"}]
      /\ SocketsExact' /\ LocalKept' /\ Hopeful'
      /\ \A a \in Remote : a \in connections' \cup pending' => a \in peer_db'
      /\ connections' \cap Remote \subseteq {a \in Remote : attempts[a] = 0}
  BY RefreshKeeps
<1>2. TypeOK'
  BY <1>1 DEF IInv, TypeOK
<1>3. RecordsAgree'
  BY <1>1 DEF IInv, RecordsAgree
<1>4. SavedKnown'
  BY DEF IInv, SavedKnown, Running, Phased, TypeOK
<1>5. Phased'
  BY DEF Phased
<1> QED BY <1>1, <1>2, <1>3, <1>4, <1>5 DEF IInv

LEMMA NextIInv == IInv /\ [Next]_vars => IInv'
<1> SUFFICES ASSUME IInv, [Next]_vars PROVE IInv'
  OBVIOUS
<1> USE BroadcasterAssumption DEF IInv
<1>1. CASE start
  <2>1. TypeOK'
    BY <1>1 DEF start, TypeOK, _load_peer_database, Remote
  <2>2. SocketsExact' /\ LocalKept' /\ Hopeful' /\ SavedKnown'
    BY <1>1 DEF start, SocketsExact, LocalKept, Hopeful, SavedKnown, Phased, Running,
                _load_peer_database, TypeOK, Remote
  <2>3. RecordsAgree' /\ Phased'
    BY <1>1 DEF start, RecordsAgree, Phased, SocketsExact, TypeOK, Remote
  <2> QED BY <2>1, <2>2, <2>3
<1>2. CASE _save_peer_database
  BY <1>2 DEF _save_peer_database, memory, TypeOK, SocketsExact, LocalKept, Hopeful,
              SavedKnown, RecordsAgree, Phased, Running
<1>3. CASE stop
  <2>1. TypeOK' /\ Hopeful' /\ SavedKnown' /\ Phased'
    BY <1>3 DEF stop, TypeOK, Hopeful, SavedKnown, Phased, Running, Disconnected
  <2>2. SocketsExact'
    BY <1>3 DEF stop, TypeOK, SocketsExact, Disconnected
  <2>3. LocalKept' /\ RecordsAgree'
    BY <1>3 DEF stop, TypeOK, LocalKept, RecordsAgree, Disconnected
  <2> QED BY <2>1, <2>2, <2>3
<1>4. CASE crash
  <2>1. TypeOK'
    <3>1. attempts' \in [Remote -> Nat]
      BY <1>4 DEF crash
    <3>2. failures' \in [Remote -> {"none", "on", "over"}]
      BY <1>4 DEF crash
    <3>3. link' \in [Remote -> {"none", "dialing", "up", "lost", "again"}]
      BY <1>4 DEF crash
    <3>4. stopping' \in BOOLEAN /\ discovery' \in BOOLEAN /\ localUp' \in BOOLEAN
      BY <1>4 DEF crash, TypeOK
    <3>5. /\ phase' \in {"down", "bootstrapping", "running"}
          /\ file' \subseteq Remote \cup {Local} /\ peer_db' \subseteq Remote \cup {Local}
          /\ connections' \subseteq Remote \cup {Local} /\ pending' \subseteq Remote
          /\ coind_peers' \subseteq Remote
      BY <1>4 DEF crash, TypeOK
    <3>6. since' \in 0..2 /\ asking' \in Nat
      BY <1>4 DEF crash
    <3> QED BY <3>1, <3>2, <3>3, <3>4, <3>5, <3>6 DEF TypeOK
  <2>2. SocketsExact'
    <3>1. \A a \in Remote : link'[a] = "none"
      BY <1>4 DEF crash
    <3> QED BY <1>4, <3>1 DEF crash, SocketsExact
  <2>3. LocalKept' /\ SavedKnown' /\ Phased' /\ Hopeful'
    BY <1>4 DEF crash, LocalKept, SavedKnown, Phased, Hopeful, Running
  <2>4. RecordsAgree'
    <3>1. \A a \in Remote : attempts'[a] = 0 /\ failures'[a] = "none"
      BY <1>4 DEF crash
    <3> QED BY <1>4, <3>1 DEF crash, RecordsAgree
  <2> QED BY <2>1, <2>2, <2>3, <2>4
<1>5. CASE _adaptive_refresh
  <2>1. CASE /\ _ask /\ UNCHANGED <<connections, pending, discovery, link>>
    BY <1>5, <2>1 DEF _adaptive_refresh, _ask, TypeOK, SocketsExact, LocalKept, Hopeful,
                      SavedKnown, RecordsAgree, Phased, Running
  <2>2. CASE refresh_connections(peer_db, coind_peers) /\ UNCHANGED asking
    <3>1. peer_db \in SUBSET (Remote \cup {Local}) /\ peer_db' = peer_db
      BY <1>5 DEF _adaptive_refresh, TypeOK
    <3> QED BY <1>5, <2>2, <3>1, RefreshStep DEF _adaptive_refresh, TypeOK, Running
  <2> QED BY <1>5, <2>1, <2>2 DEF _adaptive_refresh
<1>6. CASE refresh_error
  <2>1. /\ peer_db \in SUBSET (Remote \cup {Local}) /\ peer_db' = peer_db /\ asking' \in Nat
    BY <1>6 DEF refresh_error, TypeOK
  <2>2. phase = "running"
    BY <1>6 DEF refresh_error, Phased, TypeOK
  <2> QED BY <1>6, <2>1, <2>2, RefreshStep DEF refresh_error, TypeOK
<1>7. CASE time_passes
  BY <1>7 DEF time_passes, TypeOK, SocketsExact, LocalKept, Hopeful,
              SavedKnown, RecordsAgree, Phased, Running
<1>8. CASE local_changes
  BY <1>8 DEF local_changes, memory, TypeOK, SocketsExact, LocalKept, Hopeful,
              SavedKnown, RecordsAgree, Phased, Running
<1>9. CASE broadcast_block
  <2>1. CASE UNCHANGED <<connections, pending, discovery, link>>
    BY <1>9, <2>1 DEF broadcast_block, TypeOK, SocketsExact, LocalKept, Hopeful,
              SavedKnown, RecordsAgree, Phased, Running
  <2>2. CASE refresh_connections(peer_db, coind_peers)
    <3>1. peer_db \in SUBSET (Remote \cup {Local}) /\ peer_db' = peer_db
      BY <1>9 DEF broadcast_block, TypeOK
    <3> QED BY <1>9, <2>2, <3>1, RefreshStep DEF broadcast_block, TypeOK, Running
  <2> QED BY <1>9, <2>1, <2>2 DEF broadcast_block, EnsurePeers
<1>10. ASSUME NEW answer \in SUBSET Daemon, bootstrap_from_coind(answer) PROVE IInv'
  <2>1. /\ peer_db' \in SUBSET (Remote \cup {Local}) /\ peer_db \subseteq peer_db'
    BY <1>10 DEF bootstrap_from_coind, TypeOK, Remote
  <2> QED BY <1>10, <2>1, RefreshStep DEF bootstrap_from_coind, TypeOK
<1>11. ASSUME NEW answer \in SUBSET Daemon, _refresh_peers_from_coind(answer) PROVE IInv'
  <2>1. /\ peer_db' \in SUBSET (Remote \cup {Local}) /\ peer_db \subseteq peer_db'
        /\ answer \subseteq Remote
    BY <1>11 DEF _refresh_peers_from_coind, TypeOK, Remote
  <2>2. phase = "running" /\ asking' \in Nat
    BY <1>11 DEF _refresh_peers_from_coind, Phased, TypeOK
  <2>3. failures' \in [Remote -> {"none", "on", "over"}]
    BY <1>11 DEF _refresh_peers_from_coind, TypeOK
  <2>4. \A a \in Remote : failures'[a] # "none" <=> failures[a] # "none"
    BY <1>11 DEF _refresh_peers_from_coind, TypeOK, RecordsAgree
  <2>5. /\ refresh_connections(peer_db', answer) /\ attempts' = attempts
        /\ phase' = phase /\ coind_peers' \subseteq Remote /\ since' \in 0..2
        /\ UNCHANGED <<stopping, file, localUp>>
    BY <1>11, <2>1 DEF _refresh_peers_from_coind
  <2> QED BY <2>1, <2>2, <2>3, <2>4, <2>5, RefreshStep
<1>12. ASSUME NEW a \in Remote, connects(a) PROVE IInv'
  <2> USE <1>12 DEF connects, _record_connection_success
  <2>1. a \in pending /\ a # Local
    BY DEF SocketsExact
  <2>2. TypeOK' /\ Hopeful' /\ SavedKnown' /\ Phased'
    BY DEF TypeOK, Hopeful, SavedKnown, Phased, Running
  <2>3. SocketsExact' /\ LocalKept'
    BY <2>1 DEF TypeOK, SocketsExact, LocalKept
  <2>4. RecordsAgree'
    BY <2>1 DEF TypeOK, RecordsAgree
  <2> QED BY <2>2, <2>3, <2>4
<1>13. ASSUME NEW a \in Remote, connect_fails(a) PROVE IInv'
  <2> USE <1>13 DEF connect_fails
  <2>1. a \in pending /\ a \notin connections /\ a # Local
    BY DEF SocketsExact
  <2>2. TypeOK' /\ Hopeful' /\ SavedKnown' /\ Phased'
    BY DEF TypeOK, Hopeful, SavedKnown, Phased, Running
  <2>3. SocketsExact' /\ LocalKept'
    BY <2>1 DEF TypeOK, SocketsExact, LocalKept
  <2>4. RecordsAgree'
    BY <2>1 DEF TypeOK, RecordsAgree, Hopeful
  <2> QED BY <2>2, <2>3, <2>4
<1>14. ASSUME NEW a \in Remote, connection_lost(a) \/ reconnects(a) PROVE IInv'
  BY <1>14 DEF connection_lost, reconnects, SetLink, TypeOK, SocketsExact, LocalKept,
               Hopeful, SavedKnown, RecordsAgree, Phased, Running
<1>15. ASSUME NEW a \in Remote, backoff_ends(a) PROVE IInv'
  BY <1>15 DEF backoff_ends, TypeOK, SocketsExact, LocalKept, Hopeful, SavedKnown,
               RecordsAgree, Phased, Running
<1>16. ASSUME NEW a \in Remote, NEW told \in Heard, handle_addr_message(a, told) PROVE IInv'
  BY <1>16 DEF handle_addr_message, TypeOK, SocketsExact, LocalKept, Hopeful, SavedKnown,
               RecordsAgree, Phased, Running, Remote
<1>17. CASE UNCHANGED vars
  BY <1>17 DEF vars, memory, TypeOK, SocketsExact, LocalKept, Hopeful, SavedKnown,
               RecordsAgree, Phased, Running
<1> QED
  BY <1>1, <1>2, <1>3, <1>4, <1>5, <1>6, <1>7, <1>8, <1>9, <1>10, <1>11, <1>12, <1>13,
     <1>14, <1>15, <1>16, <1>17 DEF Next

LEMMA Inductive == Spec => []IInv
BY InitIInv, NextIInv, PTL DEF Spec

(* No socket is left to itself: a factory that reconnects by itself still has *)
(* an entry, and an attempt that outlives stop is still pending.             *)
THEOREM SocketsAccounted == Spec => []SocketsExact
BY Inductive, PTL DEF IInv

(* Where there is any connection there is the local one.                     *)
THEOREM LocalNodeKept == Spec => []LocalKept
BY Inductive, PTL DEF IInv

(* The counter of attempts and the backoff table agree, and nobody is dialled *)
(* more than MaxAttempts times in a row.                                    *)
THEOREM FailureRecordsAgree == Spec => []RecordsAgree
BY Inductive, PTL DEF IInv

(* What was saved is known whenever the broadcaster runs, over any crashes.  *)
THEOREM SavedAddressesKnown == Spec => []SavedKnown
BY Inductive, PTL DEF IInv
-----------------------------------------------------------------------------
LEMMA FiniteParts ==
    ASSUME NEW S \in SUBSET (Remote \cup {Local})
    PROVE  IsFiniteSet(S) /\ Cardinality(S) \in Nat
<1>1. IsFiniteSet(Remote \cup {Local})
  BY BroadcasterAssumption, FS_AddElement
<1> QED BY <1>1, FS_Subset, FS_CardinalityType

LEMMA UnionBound ==
    ASSUME NEW S \in SUBSET (Remote \cup {Local}), NEW T \in SUBSET (Remote \cup {Local})
    PROVE  Cardinality(S \cup T) <= Cardinality(S) + Cardinality(T)
<1>1. /\ IsFiniteSet(S) /\ IsFiniteSet(T) /\ Cardinality(S) \in Nat /\ Cardinality(T) \in Nat
      /\ Cardinality(S \cap T) \in Nat
  BY FiniteParts
<1>2. Cardinality(S \cup T) = Cardinality(S) + Cardinality(T) - Cardinality(S \cap T)
  BY <1>1, FS_Union
<1> QED BY <1>1, <1>2

LEMMA Fewer ==
    ASSUME NEW S \in SUBSET (Remote \cup {Local}), NEW T \in SUBSET S
    PROVE  Cardinality(T) <= Cardinality(S)
BY FiniteParts, FS_Subset

(* Slots are few enough, and none are left near capacity.                    *)
LEMMA NewBounded ==
    ASSUME TypeOK, NEW C \in SUBSET Remote, NEW new \in Chosen(C),
           Cardinality(pending) <= MaxConcurrent
    PROVE  /\ Cardinality(pending) + Cardinality(new) <= MaxConcurrent
           /\ new = {} \/ Cardinality(Kept) <= MaxPeers - 2
<1> USE BroadcasterAssumption
<1>1. /\ new \in SUBSET (Remote \cup {Local}) /\ pending \in SUBSET (Remote \cup {Local})
      /\ Kept \in SUBSET (Remote \cup {Local}) /\ C \in SUBSET (Remote \cup {Local})
  BY DEF Chosen, Kept, TypeOK
<1>2. /\ Cardinality(new) \in Nat /\ Cardinality(pending) \in Nat /\ Cardinality(C) \in Nat
      /\ Cardinality(Kept) \in Nat /\ IsFiniteSet(new)
  BY <1>1, FiniteParts
<1>3. Cardinality(new) = Least(Slots, Cardinality(C))
  BY DEF Chosen
<1>4. CASE AtCapacity \/ Cardinality(pending) >= MaxConcurrent
  <2>1. Cardinality(new) = 0
    BY <1>2, <1>3, <1>4 DEF Slots, Least
  <2> QED BY <2>1, <1>2, FS_EmptySet
<1>5. CASE ~(AtCapacity \/ Cardinality(pending) >= MaxConcurrent)
  <2>1. /\ Slots <= MaxConcurrent - Cardinality(pending) /\ Slots \in Int
    BY <1>2, <1>5 DEF Slots, Least, AtCapacity
  <2>2. Cardinality(Kept) <= MaxPeers - 2
    BY <1>2, <1>5 DEF AtCapacity
  <2>3. Cardinality(new) <= Slots
    BY <1>2, <1>3, <2>1 DEF Least
  <2> QED BY <1>2, <2>1, <2>2, <2>3
<1> QED BY <1>4, <1>5

(* Slots are counted from max_peers without the attempts under way, so that  *)
(* these may bring the connections above it: with the defaults, 20 and 3, to *)
(* 21 entries.                                                              *)
WithinLimits ==
    /\ Cardinality(pending) <= MaxConcurrent
    /\ Cardinality(connections \cup pending) <= MaxPeers - 2 + MaxConcurrent

LEMMA RefreshLimits ==
    ASSUME IInv, WithinLimits, NEW db \in SUBSET (Remote \cup {Local}), NEW coind,
           refresh_connections(db, coind)
    PROVE  WithinLimits'
<1> USE BroadcasterAssumption
<1>1. CASE stopping
  BY <1>1 DEF refresh_connections, WithinLimits
<1>2. CASE ~stopping
  <2>1. PICK new \in Chosen(Candidates(db \ {Local}, coind)) : pending' = pending \cup new
    BY <1>2 DEF refresh_connections
  <2>2. connections' = Kept /\ Candidates(db \ {Local}, coind) \in SUBSET Remote
    BY <1>2 DEF refresh_connections, Candidates
  <2>3. /\ new \in SUBSET Remote /\ pending \in SUBSET Remote
        /\ Kept \in SUBSET (Remote \cup {Local}) /\ connections \in SUBSET (Remote \cup {Local})
    BY <2>1, <2>2 DEF Chosen, Kept, IInv, TypeOK
  <2>4. /\ Cardinality(pending) + Cardinality(new) <= MaxConcurrent
        /\ new = {} \/ Cardinality(Kept) <= MaxPeers - 2
    BY <2>1, <2>2, NewBounded DEF IInv, WithinLimits
  <2>5. /\ Cardinality(new) \in Nat /\ Cardinality(pending) \in Nat /\ Cardinality(Kept) \in Nat
        /\ Cardinality(pending') \in Nat /\ Cardinality(Kept \cup pending') \in Nat
    BY <2>1, <2>3, FiniteParts
  <2>6. Cardinality(pending') <= MaxConcurrent
    <3>1. Cardinality(pending \cup new) <= Cardinality(pending) + Cardinality(new)
      BY <2>3, UnionBound
    <3> QED BY <2>1, <2>4, <2>5, <3>1
  <2>7. Cardinality(Kept \cup pending') <= MaxPeers - 2 + MaxConcurrent
    <3>1. CASE Cardinality(Kept) <= MaxPeers - 2
      <4>1. pending' \in SUBSET (Remote \cup {Local})
        BY <2>1, <2>3
      <4>2. Cardinality(Kept \cup pending') <= Cardinality(Kept) + Cardinality(pending')
        BY <2>3, <4>1, UnionBound
      <4> QED BY <2>5, <2>6, <3>1, <4>2
    <3>2. CASE new = {} /\ connections = {} /\ pending = {}
      <4>1. Kept \cup pending' = {Local}
        BY <2>1, <3>2 DEF Kept, Dead
      <4>2. Cardinality({Local}) = 1
        BY FS_Singleton
      <4> QED BY <4>1, <4>2
    <3>3. CASE new = {} /\ Local \in connections
      <4>1. Kept \cup pending' \in SUBSET (connections \cup pending)
        BY <2>1, <3>3 DEF Kept, Dead
      <4>2. connections \cup pending \in SUBSET (Remote \cup {Local})
        BY <2>3
      <4>3. Cardinality(connections \cup pending) \in Nat
        BY <4>2, FiniteParts
      <4>4. Cardinality(Kept \cup pending') <= Cardinality(connections \cup pending)
        BY <4>1, <4>2, Fewer
      <4> QED BY <2>5, <4>3, <4>4 DEF WithinLimits
    <3> QED BY <2>4, <3>1, <3>2, <3>3 DEF IInv, LocalKept
  <2> QED BY <2>2, <2>6, <2>7 DEF WithinLimits
<1> QED BY <1>1, <1>2

(* What connects or is given up was pending or connected before.             *)
LEMMA ShrinkLimits ==
    ASSUME IInv, WithinLimits, pending' \subseteq pending,
           connections' \cup pending' \subseteq connections \cup pending
    PROVE  WithinLimits'
<1>1. /\ pending \in SUBSET (Remote \cup {Local})
      /\ connections \cup pending \in SUBSET (Remote \cup {Local})
  BY DEF IInv, TypeOK
<1>2. /\ Cardinality(pending) \in Nat /\ Cardinality(pending') \in Nat
      /\ Cardinality(connections \cup pending) \in Nat
      /\ Cardinality(connections' \cup pending') \in Nat
  BY <1>1, FiniteParts
<1>3. /\ Cardinality(pending') <= Cardinality(pending)
      /\ Cardinality(connections' \cup pending') <= Cardinality(connections \cup pending)
  BY <1>1, Fewer
<1> QED BY <1>2, <1>3, BroadcasterAssumption DEF WithinLimits

LEMMA NextLimits == IInv /\ WithinLimits /\ [Next]_vars => WithinLimits'
<1> SUFFICES ASSUME IInv, WithinLimits, [Next]_vars PROVE WithinLimits'
  OBVIOUS
<1>1. CASE start
  <2>1. pending = {} /\ pending' = {} /\ connections' \subseteq {Local}
    BY <1>1 DEF start, IInv, Phased, SocketsExact
  <2>2. connections' \cup pending' \subseteq {Local}
    BY <2>1
  <2>3. Cardinality(pending') = 0 /\ Cardinality({Local}) = 1
    BY <2>1, FS_EmptySet, FS_Singleton
  <2>4. /\ Cardinality(connections' \cup pending') <= Cardinality({Local})
        /\ Cardinality(connections' \cup pending') \in Nat
    BY <2>2, Fewer, FiniteParts
  <2> QED BY <2>3, <2>4, BroadcasterAssumption DEF WithinLimits
<1>2. CASE stop \/ crash
  BY <1>2, ShrinkLimits DEF stop, crash, Disconnected
<1>3. CASE _save_peer_database \/ time_passes \/ local_changes \/ UNCHANGED vars
  BY <1>3, ShrinkLimits DEF _save_peer_database, time_passes, local_changes, vars, memory
<1>4. CASE _adaptive_refresh
  BY <1>4, ShrinkLimits, RefreshLimits DEF _adaptive_refresh, IInv, TypeOK
<1>5. CASE refresh_error \/ broadcast_block
  BY <1>5, ShrinkLimits, RefreshLimits DEF refresh_error, broadcast_block, EnsurePeers,
                                           IInv, TypeOK
<1>6. ASSUME NEW answer \in SUBSET Daemon,
             bootstrap_from_coind(answer) \/ _refresh_peers_from_coind(answer)
      PROVE WithinLimits'
  <2>1. PICK db \in SUBSET (Remote \cup {Local}) : refresh_connections(db, coind_peers)
                                              \/ refresh_connections(db, answer)
    BY <1>6 DEF bootstrap_from_coind, _refresh_peers_from_coind, IInv, TypeOK, Remote
  <2> QED BY <2>1, RefreshLimits
<1>7. ASSUME NEW a \in Remote, connects(a) \/ connect_fails(a) PROVE WithinLimits'
  <2>1. a \in pending
    BY <1>7 DEF connects, connect_fails, IInv, SocketsExact
  <2> QED BY <1>7, <2>1, ShrinkLimits DEF connects, connect_fails, _record_connection_success
<1>8. ASSUME NEW a \in Remote, connection_lost(a) \/ reconnects(a) \/ backoff_ends(a)
      PROVE WithinLimits'
  BY <1>8, ShrinkLimits DEF connection_lost, reconnects, SetLink, backoff_ends
<1>9. ASSUME NEW a \in Remote, NEW told \in Heard, handle_addr_message(a, told)
      PROVE WithinLimits'
  BY <1>9, ShrinkLimits DEF handle_addr_message
<1> QED
  BY <1>1, <1>2, <1>3, <1>4, <1>5, <1>6, <1>7, <1>8, <1>9 DEF Next

(* How far overlapping refreshes and attempts can overshoot: attempts stay   *)
(* within their limit, but connections, the local one included, exceed       *)
(* max_peers by up to max_concurrent_connections - 2.                        *)
THEOREM ConnectionsBounded == Spec => []WithinLimits
<1>1. Init => WithinLimits
  <2>1. Init => Cardinality(pending) = 0 /\ Cardinality(connections \cup pending) = 0
    <3>1. Init => pending = {} /\ connections \cup pending = {}
      BY DEF Init
    <3> QED BY <3>1, FS_EmptySet
  <2> QED BY <2>1, BroadcasterAssumption DEF WithinLimits
<1> QED BY <1>1, Inductive, NextLimits, PTL DEF Spec
=============================================================================
