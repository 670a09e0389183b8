------------------------------- MODULE Peers -------------------------------
(***************************************************************************)
(* The life of the connections between p2pool nodes (p2pool/p2p.py): dialled *)
(* by ClientFactory, accepted by ServerFactory, introduced with a version    *)
(* message, listed in Node.peers, dropped when a second one leads to the     *)
(* same node, lost, and the bans.                                           *)
(*                                                                         *)
(* All nodes follow the protocol.  A node is its nonce and its host, each in *)
(* an address block (_host_to_ident) of its own.  Every message after the    *)
(* version message is "other".  A reactor turn reads a chunk, which may hold *)
(* several messages, and handles all of them.                               *)
(***************************************************************************)
EXTENDS Integers, Sequences, FiniteSets, FiniteSetsExt

CONSTANTS
    Node,
    Dials,           \* who has whom in its addr_store
    Lives,           \* bound: connections between the same two at a time
    DesiredConns, MaxAttempts, MaxConns,
    MaxInbox,        \* bound: messages on their way to one end
    MaxFailures      \* bound: connections that fail or time out

ASSUME PeersAssumption ==
    /\ IsFiniteSet(Node) /\ Dials \subseteq Node \X Node /\ Lives \in Nat \ {0}
    /\ DesiredConns \in Nat /\ MaxAttempts \in Nat /\ MaxConns \in Nat
    /\ MaxInbox \in Nat \ {0} /\ MaxFailures \in Nat

Conn == Dials \X (1..Lives)
End == Conn \X {"out", "in"}
Dialer(e) == e[1][1][1]
Target(e) == e[1][1][2]
IsOut(e) == e[2] = "out"
Here(e) == IF IsOut(e) THEN Dialer(e) ELSE Target(e)
There(e) == IF IsOut(e) THEN Target(e) ELSE Dialer(e)
Opposite(e) == <<e[1], IF IsOut(e) THEN "in" ELSE "out">>
Ends(n) == {e \in End : Here(e) = n}

VARIABLES
    phase,        \* of an end: "none", "dialing", "backlog" (not yet accepted),
                  \* "made" or, after disconnect, "aborted"
    seen,         \* other_version is set
    connected2,
    inbox,        \* what is on its way to an end
    chunk,        \* how much of it the current turn has read
    peers,        \* Node.peers, as the set of its ends
    attempts,     \* of ClientFactory
    clientConns, serverConns,     \* conns of the two factories
    banned,       \* Node.bans that are not over
    failures

ends == <<phase, seen, connected2, inbox, chunk>>
node == <<peers, attempts, clientConns, serverConns, banned>>
vars == <<ends, node, failures>>

Alive(e) == phase[e] \in {"made", "aborted"}
Busy(n) == \E e \in Ends(n) : chunk[e] > 0
Incoming(n) == SumFunction(serverConns[n])

-----------------------------------------------------------------------------
(* What an end writes arrives unless the other one is gone.                 *)
Sent(e, message) ==
    IF phase[Opposite(e)] = "none" THEN inbox
    ELSE [inbox EXCEPT ![Opposite(e)] = Append(@, message)]

(* ClientFactory._think, once a second.                                     *)
think(n, m) ==
    /\ ~Busy(n) /\ <<n, m>> \in Dials
    /\ Cardinality(clientConns[n]) < DesiredConns
    /\ Cardinality(attempts[n]) < MaxAttempts
    /\ m \notin attempts[n] /\ m \notin banned[n]
    /\ \E e \in End :
          /\ IsOut(e) /\ Here(e) = n /\ There(e) = m
          /\ phase[e] = "none" /\ phase[Opposite(e)] = "none"
          /\ phase' = [phase EXCEPT ![e] = "dialing"]
    /\ attempts' = [attempts EXCEPT ![n] = @ \cup {m}]
    /\ UNCHANGED <<seen, connected2, inbox, chunk, peers, clientConns, serverConns,
                   banned, failures>>

clientConnectionFailed(e) ==
    /\ ~Busy(Here(e)) /\ phase[e] = "dialing"
    /\ failures < MaxFailures /\ failures' = failures + 1
    /\ phase' = [phase EXCEPT ![e] = "none"]
    /\ attempts' = [attempts EXCEPT ![Here(e)] = @ \ {There(e)}]
    /\ UNCHANGED <<seen, connected2, inbox, chunk, peers, clientConns, serverConns, banned>>

(* connectionMade of the end that dialled: it sends its version.            *)
made(e) ==
    /\ ~Busy(Here(e)) /\ phase[e] = "dialing"
    /\ phase' = [phase EXCEPT ![e] = "made", ![Opposite(e)] = "backlog"]
    /\ inbox' = [inbox EXCEPT ![Opposite(e)] = <<"version">>]
    /\ UNCHANGED <<seen, connected2, chunk, node, failures>>

(* buildProtocol of the server and, if there is room and no ban,            *)
(* connectionMade there.                                                    *)
MayBuild(e) ==
    /\ Incoming(Here(e)) < MaxConns
    /\ serverConns[Here(e)][There(e)] < 3
    /\ There(e) \notin banned[Here(e)]

accept(e) ==
    /\ ~Busy(Here(e)) /\ phase[e] = "backlog"
    /\ MayBuild(e)
    /\ phase' = [phase EXCEPT ![e] = "made"]
    /\ inbox' = Sent(e, "version")
    /\ serverConns' = [serverConns EXCEPT ![Here(e)][There(e)] = @ + 1]
    /\ UNCHANGED <<seen, connected2, chunk, peers, attempts, clientConns, banned, failures>>

refuse(e) ==
    /\ ~Busy(Here(e)) /\ phase[e] = "backlog"
    /\ ~MayBuild(e)
    /\ phase' = [phase EXCEPT ![e] = "none"]
    /\ inbox' = [inbox EXCEPT ![e] = <<>>]
    /\ UNCHANGED <<seen, connected2, chunk, node, failures>>

-----------------------------------------------------------------------------
(* disconnect aborts the connection; the rest of the chunk is handled still, *)
(* for neither the protocol's connected nor its disconnecting tells of it.   *)
KeepOpen(e) == UNCHANGED phase         \* mutant of disconnect
disconnect(e) == phase' = [phase EXCEPT ![e] = "aborted"]

badPeerHappened(e) ==
    /\ disconnect(e)
    /\ banned' = [banned EXCEPT ![Here(e)] = @ \cup {There(e)}]
    /\ UNCHANGED <<seen, connected2, peers, clientConns>>

NobodyKnown(e) == FALSE                \* mutant of KnownNonce
KnownNonce(e) == There(e) \in {There(p) : p \in peers[Here(e)]}

handle_version(e) ==
    \/ /\ seen[e] \/ There(e) = Here(e)     \* a second version, or from itself
       /\ badPeerHappened(e)
    \/ /\ ~seen[e] /\ There(e) # Here(e)
       /\ KnownNonce(e)
       /\ disconnect(e)
       /\ seen' = [seen EXCEPT ![e] = TRUE]
       /\ UNCHANGED <<connected2, peers, clientConns, banned>>
    \/ /\ ~seen[e] /\ There(e) # Here(e)
       /\ ~KnownNonce(e)
       /\ seen' = [seen EXCEPT ![e] = TRUE]
       /\ connected2' = [connected2 EXCEPT ![e] = TRUE]
       /\ peers' = [peers EXCEPT ![Here(e)] = @ \cup {e}]
       /\ clientConns' = [clientConns EXCEPT ![Here(e)] =
                              IF IsOut(e) THEN @ \cup {e} ELSE @]
       /\ UNCHANGED <<phase, banned>>

(* Whoever accepts a version goes on with ping, have_tx, getaddrs...        *)
Greeting(e) == connected2'[e] /\ ~connected2[e]

HandleIfConnected(e) ==
    IF connected2[e] THEN UNCHANGED <<phase, seen, connected2, peers, clientConns, banned>>
    ELSE badPeerHappened(e)

packetReceived(e) ==
    /\ chunk[e] > 0
    /\ chunk' = [chunk EXCEPT ![e] = @ - 1]
    /\ IF Head(inbox[e]) = "version" THEN handle_version(e) ELSE HandleIfConnected(e)
    /\ inbox' = [(IF Greeting(e) THEN Sent(e, "other") ELSE inbox)
                    EXCEPT ![e] = Tail(@)]
    /\ UNCHANGED <<attempts, serverConns, failures>>

(* A chunk is what has arrived.                                             *)
dataReceived(e) ==
    /\ ~Busy(Here(e)) /\ phase[e] = "made"
    /\ \E k \in 1..Len(inbox[e]) : chunk' = [chunk EXCEPT ![e] = k]
    /\ UNCHANGED <<phase, seen, connected2, inbox, node, failures>>

(* Pings and advertisements.                                                *)
send_other(e) ==
    /\ ~Busy(Here(e)) /\ phase[e] = "made" /\ connected2[e]
    /\ Len(inbox[Opposite(e)]) < MaxInbox /\ phase[Opposite(e)] # "none"
    /\ inbox' = Sent(e, "other")
    /\ UNCHANGED <<phase, seen, connected2, chunk, node, failures>>

(* _connect_timeout after 10 s, _timeout after 100 s of silence.            *)
timeout(e) ==
    /\ ~Busy(Here(e)) /\ phase[e] = "made"
    /\ failures < MaxFailures /\ failures' = failures + 1
    /\ disconnect(e)
    /\ UNCHANGED <<seen, connected2, inbox, chunk, node>>

-----------------------------------------------------------------------------
LoseKeepsAttempt(e) ==                \* mutant of Lose
    LET n == Here(e) IN
    /\ phase' = [phase EXCEPT ![e] = "none"]
    /\ seen' = [seen EXCEPT ![e] = FALSE]
    /\ connected2' = [connected2 EXCEPT ![e] = FALSE]
    /\ inbox' = [inbox EXCEPT ![e] = <<>>]
    /\ peers' = [peers EXCEPT ![n] = IF connected2[e] THEN @ \ {e} ELSE @]
    /\ clientConns' = [clientConns EXCEPT ![n] = @ \ {e}]
    /\ IF IsOut(e)
       THEN /\ attempts' = [attempts EXCEPT ![n] =
                                IF connected2[e] THEN @ \ {There(e)} ELSE @]
            /\ UNCHANGED serverConns
       ELSE /\ serverConns' = [serverConns EXCEPT ![n][There(e)] = @ - 1]
            /\ UNCHANGED attempts
    /\ UNCHANGED <<chunk, banned>>

(* connectionLost of the protocol and of its factory.                       *)
Lose(e) ==
    LET n == Here(e) IN
    /\ phase' = [phase EXCEPT ![e] = "none"]
    /\ seen' = [seen EXCEPT ![e] = FALSE]
    /\ connected2' = [connected2 EXCEPT ![e] = FALSE]
    /\ inbox' = [inbox EXCEPT ![e] = <<>>]
    /\ peers' = [peers EXCEPT ![n] = IF connected2[e] THEN @ \ {e} ELSE @]
    /\ clientConns' = [clientConns EXCEPT ![n] = @ \ {e}]
    /\ IF IsOut(e)
       THEN /\ attempts' = [attempts EXCEPT ![n] = @ \ {There(e)}]
            /\ UNCHANGED serverConns
       ELSE /\ serverConns' = [serverConns EXCEPT ![n][There(e)] = @ - 1]
            /\ UNCHANGED attempts
    /\ UNCHANGED <<chunk, banned>>

connectionLost(e) ==
    /\ ~Busy(Here(e)) /\ Alive(e)
    /\ phase[e] = "aborted" \/ phase[Opposite(e)] = "none"
    /\ Lose(e)
    /\ UNCHANGED failures

connectionFails(e) ==
    /\ ~Busy(Here(e)) /\ Alive(e)
    /\ failures < MaxFailures /\ failures' = failures + 1
    /\ Lose(e)

ban_ends(n, m) ==
    /\ ~Busy(n) /\ m \in banned[n]
    /\ banned' = [banned EXCEPT ![n] = @ \ {m}]
    /\ UNCHANGED <<ends, peers, attempts, clientConns, serverConns, failures>>

Init ==
    /\ phase = [e \in End |-> "none"] /\ inbox = [e \in End |-> <<>>]
    /\ seen = [e \in End |-> FALSE] /\ connected2 = [e \in End |-> FALSE]
    /\ chunk = [e \in End |-> 0] /\ failures = 0
    /\ peers = [n \in Node |-> {}] /\ attempts = [n \in Node |-> {}]
    /\ clientConns = [n \in Node |-> {}]
    /\ serverConns = [n \in Node |-> [m \in Node |-> 0]]
    /\ banned = [n \in Node |-> {}]

Progress(e) == made(e) \/ accept(e) \/ refuse(e) \/ packetReceived(e)
               \/ dataReceived(e) \/ connectionLost(e)

Next ==
    \/ \E n, m \in Node : think(n, m) \/ ban_ends(n, m)
    \/ \E e \in End : \/ clientConnectionFailed(e) \/ made(e) \/ accept(e) \/ refuse(e)
                      \/ packetReceived(e) \/ dataReceived(e) \/ connectionLost(e)
                      \/ send_other(e) \/ timeout(e) \/ connectionFails(e)

Spec == Init /\ [][Next]_vars

(* A reactor turn serves every socket that is ready, _think runs again and  *)
(* again, bans end.  Strong fairness: a turn on another socket makes a node *)
(* Busy in between.                                                         *)
FairSpec == /\ Spec
            /\ \A e \in End : SF_vars(Progress(e))
            /\ \A n, m \in Node : SF_vars(think(n, m)) /\ SF_vars(ban_ends(n, m))

-----------------------------------------------------------------------------
TypeOK ==
    /\ phase \in [End -> {"none", "dialing", "backlog", "made", "aborted"}]
    /\ seen \in [End -> BOOLEAN] /\ connected2 \in [End -> BOOLEAN]
    /\ \A e \in End : chunk[e] \in 0..Len(inbox[e])
    /\ peers \in [Node -> SUBSET End] /\ clientConns \in [Node -> SUBSET End]
    /\ attempts \in [Node -> SUBSET Node] /\ banned \in [Node -> SUBSET Node]
    /\ serverConns \in [Node -> [Node -> 0..3]]

(* Node.peers lists exactly the connections that were introduced and not    *)
(* lost, at most one to a node and none to itself: got_conn and lost_conn   *)
(* raise none of their ValueErrors.                                         *)
PeersExact ==
    \A n \in Node :
       /\ peers[n] = {e \in Ends(n) : connected2[e]}
       /\ \A p, q \in peers[n] : There(p) = There(q) => p = q
       /\ \A p \in peers[n] : There(p) # n /\ Alive(p)

(* The factories count every connection once, whichever way it ends, so     *)
(* slots and attempts are neither leaked nor given twice.                   *)
CountsExact ==
    \A n \in Node :
       /\ attempts[n] = {There(e) : e \in {x \in Ends(n) : IsOut(x) /\ phase[x] # "none"}}
       /\ clientConns[n] = {e \in peers[n] : IsOut(e)}
       /\ \A m \in Node :
             serverConns[n][m] = Cardinality({e \in Ends(n) :
                                     ~IsOut(e) /\ There(e) = m /\ Alive(e)})

(* Once nothing is on its way, two nodes list each other through the same   *)
(* connection or not at all.                                                *)
Quiet == \A e \in End :
            /\ phase[e] \in {"none", "made"} /\ inbox[e] = <<>>
            /\ phase[e] = "made" => phase[Opposite(e)] = "made"
AgreeWhenQuiet ==
    Quiet => \A e \in End : connected2[e] <=> connected2[Opposite(e)]

(* When connections stop failing, a node that dials another one gets and    *)
(* keeps it as a peer.                                                      *)
Meet == \A d \in Dials : <>[](\E e \in peers[d[1]] : There(e) = d[2])
=============================================================================
