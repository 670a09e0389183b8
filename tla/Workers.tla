------------------------------ MODULE Workers -------------------------------
(***************************************************************************)
(* Who is connected, and what the operator is told about it: stratum        *)
(* sessions (p2pool/bitcoin/stratum.py), the reference count per username   *)
(* and the silence check of WorkerBridge (p2pool/work.py), and the alerts   *)
(* of LocalEventPusher (p2pool/bitcoin/notifier.py) with its two timers per *)
(* worker and its rolling count of flaps.                                   *)
(*                                                                         *)
(* Time is what it enables: a timer that is armed may fire, a worker may    *)
(* have been silent for long or not, flaps may leave the rolling window.    *)
(* Addresses, latencies and payloads are left out, and an alert that is     *)
(* pushed is read, in the order it was pushed.                              *)
(***************************************************************************)
EXTENDS Integers, FiniteSets

CONSTANTS
    Users,           \* the usernames miners authorize with
    Sockets,
    MaxAuthorize,    \* bound: calls of authorize in one connection
    MaxCount,        \* bound: a conn_count
    FlapThreshold,   \* flaps in the window that raise the alert (5)
    FlapClear        \* the alert is withdrawn below so many (2)

ASSUME WorkersAssumption ==
    /\ IsFiniteSet(Sockets) /\ Users \cap {"closed", "new"} = {}
    /\ MaxAuthorize \in Nat \ {0} /\ MaxCount \in Nat \ {0}
    /\ FlapThreshold \in Nat \ {0} /\ FlapClear \in Nat \ {0}
    /\ FlapClear <= FlapThreshold

VARIABLES
    session,           \* socket -> its username, "new" before authorize
    authorizes,        \* socket -> calls of authorize in this connection
    conn_count,        \* user -> conn_count, 0 without an entry
    silent,            \* _silent_workers
    pendingConnect,    \* users in _pending_connect
    pendingDisconnect, \* users in _pending_disconnect
    flaps,             \* user -> flaps in the rolling window
    flapping,          \* _flapping
    alerts,            \* what the last step pushed, <<type, user>>
    told               \* user -> what the reader was last told of it

pusher == <<pendingConnect, pendingDisconnect, flaps, flapping>>
reader == <<alerts, told>>
vars == <<session, authorizes, conn_count, silent, pusher, reader>>

Connected == {u \in Users : conn_count[u] > 0}     \* connected_workers
Sessions(u) == {s \in Sockets : session[s] = u}    \* live, last authorized as u

-----------------------------------------------------------------------------
(* LocalEventPusher._push, and what whoever reads the alerts concludes: a   *)
(* flapping alert replaces the single ones, so it leaves open whether the   *)
(* worker is there.                                                         *)
Of(type, S) == {u \in Users : <<type, u>> \in S}

push(S) ==
    /\ alerts' = S
    /\ told' = [u \in Users |->
           IF u \in Of("worker_flapping", S) THEN "open"
           ELSE IF u \in Of("worker_connected", S) THEN "present"
           ELSE IF u \in Of("worker_disconnected", S) THEN "absent"
           ELSE told[u]]

(* _record_flap: old flaps leave the window, the new one is in it.          *)
record_flap(u, otherwise) ==
    \E n \in 1..FlapThreshold :
       /\ n <= flaps[u] + 1
       /\ flaps' = [flaps EXCEPT ![u] = n]
       /\ IF n = FlapThreshold /\ u \notin flapping
          THEN /\ flapping' = flapping \cup {u}
               /\ push({<<"worker_flapping", u>>})
          ELSE /\ UNCHANGED flapping
               /\ push(IF u \in flapping THEN {} ELSE otherwise)

on_worker_connected(u) ==
    IF u \in pendingDisconnect
    THEN /\ pendingDisconnect' = pendingDisconnect \ {u}
         /\ record_flap(u, {}) /\ UNCHANGED pendingConnect
    ELSE /\ pendingConnect' = IF u \in flapping THEN pendingConnect
                              ELSE pendingConnect \cup {u}
         /\ push({}) /\ UNCHANGED <<pendingDisconnect, flaps, flapping>>

DisconnectedKeepsConnect(u) ==         \* mutant of on_worker_disconnected
    /\ pendingDisconnect' = pendingDisconnect \cup {u}
    /\ push({}) /\ UNCHANGED <<pendingConnect, flaps, flapping>>

on_worker_disconnected(u) ==
    IF u \in pendingConnect
    THEN /\ pendingConnect' = pendingConnect \ {u}
         /\ record_flap(u, {}) /\ UNCHANGED pendingDisconnect
    ELSE /\ pendingDisconnect' = pendingDisconnect \cup {u}
         /\ push({}) /\ UNCHANGED <<pendingConnect, flaps, flapping>>

(* The two timers.                                                          *)
fire_connect(u) ==
    /\ u \in pendingConnect
    /\ pendingConnect' = pendingConnect \ {u}
    /\ push({<<"worker_connected", u>>})
    /\ UNCHANGED <<session, authorizes, conn_count, silent,
                   pendingDisconnect, flaps, flapping>>

FireForgetsFlap(u) ==                  \* mutant of fire_disconnect
    /\ u \in pendingDisconnect
    /\ pendingDisconnect' = pendingDisconnect \ {u}
    /\ push({<<"worker_disconnected", u>>})
    /\ UNCHANGED <<session, authorizes, conn_count, silent,
                   pendingConnect, flaps, flapping>>

fire_disconnect(u) ==
    /\ u \in pendingDisconnect
    /\ pendingDisconnect' = pendingDisconnect \ {u}
    /\ record_flap(u, {<<"worker_disconnected", u>>})
    /\ UNCHANGED <<session, authorizes, conn_count, silent, pendingConnect>>

(* _prune_flap_state: the sweep that lets old flaps go.                     *)
prune_flap_state ==
    \E f \in [Users -> 0..FlapThreshold] :
       LET cleared == {u \in flapping : f[u] < FlapClear} IN
       /\ \A u \in Users : f[u] <= flaps[u]
       /\ flaps' = f
       /\ flapping' = flapping \ cleared
       /\ push({<<"worker_stable", u>> : u \in cleared})
       /\ UNCHANGED <<session, authorizes, conn_count, silent,
                      pendingConnect, pendingDisconnect>>

-----------------------------------------------------------------------------
(* WorkerBridge's watchers of the events of the single sockets.             *)
NoAlert == push({}) /\ UNCHANGED pusher

worker_connected(u) ==
    /\ conn_count' = [conn_count EXCEPT ![u] = @ + 1]
    /\ UNCHANGED silent
    /\ IF u \in Connected THEN NoAlert ELSE on_worker_connected(u)

DropAtFirst(u) ==                      \* mutant of worker_disconnected
    /\ u \in Connected
    /\ conn_count' = [conn_count EXCEPT ![u] = 0]
    /\ silent' = silent \ {u}
    /\ on_worker_disconnected(u)

worker_disconnected(u) ==
    \/ /\ conn_count[u] = 0
       /\ UNCHANGED <<conn_count, silent>> /\ NoAlert
    \/ /\ conn_count[u] = 1
       /\ conn_count' = [conn_count EXCEPT ![u] = 0]
       /\ silent' = silent \ {u}
       /\ on_worker_disconnected(u)
    \/ /\ conn_count[u] > 1
       /\ conn_count' = [conn_count EXCEPT ![u] = @ - 1]
       /\ UNCHANGED silent /\ NoAlert

(* StratumProtocol and its session.  authorize may be called again, with    *)
(* the same username or another one, and counts each time.                  *)
connectionMade(s) ==
    /\ session[s] = "closed"
    /\ session' = [session EXCEPT ![s] = "new"]
    /\ authorizes' = [authorizes EXCEPT ![s] = 0]
    /\ NoAlert /\ UNCHANGED <<conn_count, silent>>

rpc_authorize(s, u) ==
    /\ session[s] # "closed"
    /\ authorizes[s] < MaxAuthorize /\ conn_count[u] < MaxCount
    /\ session' = [session EXCEPT ![s] = u]
    /\ authorizes' = [authorizes EXCEPT ![s] = @ + 1]
    /\ worker_connected(u)

connectionLost(s) ==
    /\ session[s] # "closed"
    /\ session' = [session EXCEPT ![s] = "closed"]
    /\ UNCHANGED authorizes
    /\ IF session[s] = "new"
       THEN NoAlert /\ UNCHANGED <<conn_count, silent>>
       ELSE worker_disconnected(session[s])

(* The sweep: a worker that is connected has or has not sent a submit in    *)
(* the last SILENT_THRESHOLD.                                               *)
check_silent_workers ==
    /\ silent' \in SUBSET Connected
    /\ push({<<"worker_silent", u>> : u \in silent' \ silent}
               \cup {<<"worker_active_again", u>> : u \in silent \ silent'})
    /\ UNCHANGED <<session, authorizes, conn_count, pusher>>

-----------------------------------------------------------------------------
Init ==
    /\ session = [s \in Sockets |-> "closed"]
    /\ authorizes = [s \in Sockets |-> 0]
    /\ conn_count = [u \in Users |-> 0]
    /\ flaps = [u \in Users |-> 0]
    /\ silent = {} /\ flapping = {}
    /\ pendingConnect = {} /\ pendingDisconnect = {}
    /\ alerts = {} /\ told = [u \in Users |-> "absent"]

Next ==
    \/ \E s \in Sockets : connectionMade(s) \/ connectionLost(s)
    \/ \E s \in Sockets, u \in Users : rpc_authorize(s, u)
    \/ \E u \in Users : fire_connect(u) \/ fire_disconnect(u)
    \/ prune_flap_state
    \/ check_silent_workers

Spec == Init /\ [][Next]_vars

(* Timers that are armed fire, as the reactor runs them.                    *)
FairSpec == Spec /\ \A u \in Users : WF_vars(fire_connect(u)) /\ WF_vars(fire_disconnect(u))

-----------------------------------------------------------------------------
(* What is kept about a worker ends with its entry in connected_workers.    *)
TypeOK ==
    /\ session \in [Sockets -> Users \cup {"closed", "new"}]
    /\ authorizes \in [Sockets -> 0..MaxAuthorize]
    /\ conn_count \in [Users -> Nat]
    /\ silent \subseteq Connected
    /\ pendingConnect \subseteq Users /\ pendingDisconnect \subseteq Users
    /\ flaps \in [Users -> 0..FlapThreshold] /\ flapping \subseteq Users
    /\ told \in [Users -> {"present", "absent", "open"}]

(* An entry is not dropped under a live socket of its worker: conn_count    *)
(* (work.py:148-174) is at least the number of sockets that go by the name, *)
(* in whatever order several of them authorize, once or again, and close.   *)
(* It may be more: stratum.py:478 counts every authorize of a connection,   *)
(* and its end takes one back.                                              *)
NeverUndercounts == \A u \in Users : conn_count[u] >= Cardinality(Sessions(u))

(* A connect alert waits only for a worker that is connected and not        *)
(* flapping, a disconnect alert only for one that is gone: no event leaves  *)
(* a timer behind that belongs to an earlier state of the worker.           *)
TimersAgree ==
    /\ pendingConnect \subseteq Connected \ flapping
    /\ pendingDisconnect \cap Connected = {}

(* The reader of the alerts is never wrong for long.  Once no timer is      *)
(* pending for a worker, one last said to be gone has no entry and no live  *)
(* socket, and one last said to be there has an entry in connected_workers  *)
(* (which a socket that authorized twice leaves behind, see the README).    *)
ReaderKnows ==
    \A u \in Users \ (pendingConnect \cup pendingDisconnect) :
       /\ told[u] = "present" => u \in Connected
       /\ told[u] = "absent" => u \notin Connected /\ Sessions(u) = {}

(* Nobody is told the same twice: a worker is announced only if it is there *)
(* and was not known to be, its end only if it is gone and was not known    *)
(* to be, and while it flaps it is not mentioned at all.                    *)
News ==
    \A u \in Users :
       /\ <<"worker_connected", u>> \in alerts'
            => told[u] # "present" /\ u \in Connected' /\ u \notin flapping
       /\ <<"worker_disconnected", u>> \in alerts'
            => told[u] # "absent" /\ u \notin Connected' /\ u \notin flapping
AlertsAlternate == [][News]_vars

(* A worker that stays is announced, or the reader knows it flaps; one that *)
(* stays away is not taken to be there.                                     *)
ReaderSettles ==
    \A u \in Users :
       /\ <>[](u \in Connected) => <>[](told[u] # "absent")
       /\ <>[](u \notin Connected) => <>[](told[u] # "present")

=============================================================================
