------------------------------ MODULE TxMemory ------------------------------
(***************************************************************************)
(* The transactions two peers remember for each other (p2pool/p2p.py).      *)
(* Shares below version 34 name the transactions of their block by hash, so *)
(* a peer keeps the transactions the other one mines on: the sender tells   *)
(* it with remember_tx and forget_tx, by hash where have_tx said that the   *)
(* peer knows it, and accounts for the memory it takes there.  losing_tx    *)
(* races with all of it, which known_txs_cache is to make up for.           *)
(*                                                                         *)
(* One direction of one connection: the other is the same with the roles    *)
(* exchanged.  A transaction is its hash.  A message that fragment splits   *)
(* is one message here, and one without content is not sent.                *)
(***************************************************************************)
EXTENDS Integers, Sequences, FiniteSets, SequencesExt

CONSTANTS
    Txs,
    Size,            \* tx -> 100 + its packed size
    MaxSize,         \* max_remembered_txs_size
    MaxRemote,       \* how many hashes remote_tx_hashes keeps (10000)
    Templates,       \* the sets of transactions blocks are made of
    MaxFlight        \* bound: messages on their way, in either direction

ASSUME TxMemoryAssumption ==
    /\ IsFiniteSet(Txs) /\ Size \in [Txs -> Nat \ {0}] /\ MaxSize \in Nat
    /\ MaxRemote \in Nat /\ Templates \subseteq SUBSET Txs /\ {} \in Templates
    /\ MaxFlight \in Nat \ {0}

VARIABLES
    mining,      \* the sender's mining_txs_var
    remoteHas,   \* its remote_tx_hashes
    remoteSize,  \* its remote_remembered_txs_size
    known,       \* the receiver's known_txs_var
    remembered,  \* its remembered_txs
    size,        \* its remembered_txs_size
    young, old,  \* its known_txs_cache: what the last forget_old_txs dropped,
                 \* and the one before that
    watching,    \* update_remote_view_of_my_known_txs watches its known_txs_var
    toPeer,      \* remember, forget and shares messages on their way
    toSender,    \* have and losing messages on their way
    verdict      \* "connected", or how the connection ended

sender == <<mining, remoteHas, remoteSize>>
receiver == <<known, remembered, size, young, old, watching>>
mvars == <<sender, receiver, toPeer, toSender, verdict>>

-----------------------------------------------------------------------------
Total(S) == SumFunctionOnSet(Size, S)
Connected == verdict = "connected"

(* late: the sender had not heard of the last losing_tx when it sent this.  *)
Message(type, hashes, txs) ==
    [type |-> type, hashes |-> hashes, txs |-> txs,
     late |-> \E i \in DOMAIN toSender : toSender[i].type = "losing"]
Remember(hashes, txs) ==
    IF hashes \cup txs = {} THEN <<>> ELSE <<Message("remember", hashes, txs)>>
Forget(hashes) == IF hashes = {} THEN <<>> ELSE <<Message("forget", hashes, {})>>
Notice(type, hashes) ==
    IF hashes = {} THEN <<>> ELSE <<[type |-> type, hashes |-> hashes]>>

Send(messages) ==
    /\ toPeer' = toPeer \o messages
    /\ Len(toPeer') <= MaxFlight
    /\ UNCHANGED <<receiver, toSender, verdict>>

Tell(notices) ==
    /\ toSender' = toSender \o notices
    /\ Len(toSender') <= MaxFlight

-----------------------------------------------------------------------------
(* update_remote_view_of_my_mining_txs: what is no longer mined is          *)
(* forgotten, then what is new is remembered.  If it does not fit, the      *)
(* assertion leaves the size counted and nothing sent.                      *)
ForgetNothing(after) ==                \* mutant of update_remote_view
    LET added == after \ mining
    IN /\ remoteSize' = remoteSize + Total(added)
       /\ Send(Remember(added \cap remoteHas, added \ remoteHas))

update_remote_view(after) ==
    LET removed == mining \ after
        added == after \ mining
        counted == remoteSize - Total(removed) + Total(added)
    IN /\ remoteSize' = counted
       /\ Send(Forget(removed) \o
               (IF counted <= MaxSize
                THEN Remember(added \cap remoteHas, added \ remoteHas)
                ELSE <<>>))

new_mining_txs(after) ==
    /\ Connected /\ after # mining
    /\ mining' = after
    /\ update_remote_view(after)
    /\ UNCHANGED remoteHas

(* sendShares: transactions the peer may not have travel before the shares  *)
(* and are forgotten behind them, unless it remembers them as mined.        *)
HashesToSend(S) == (S \ remoteHas) \ mining

sendShares(S) ==
    /\ Connected
    /\ remoteSize + Total(HashesToSend(S)) <= MaxSize     \* else ValueError
    /\ Send(Remember({}, HashesToSend(S))
              \o <<Message("shares", S, {})>> \o Forget(HashesToSend(S)))
    /\ UNCHANGED sender

(* handle_have_tx and handle_losing_tx.                                     *)
HearHaveOnly(notice) ==                \* mutant of hear
    IF notice.type = "have"
    THEN \E keep \in SUBSET (remoteHas \cup notice.hashes) :
            /\ remoteHas' = keep
            /\ keep = remoteHas \cup notice.hashes \/ Cardinality(keep) = MaxRemote
            /\ Cardinality(keep) <= MaxRemote
    ELSE UNCHANGED remoteHas

hear(notice) ==
    IF notice.type = "have"
    THEN \E keep \in SUBSET (remoteHas \cup notice.hashes) :
            /\ remoteHas' = keep
            /\ keep = remoteHas \cup notice.hashes \/ Cardinality(keep) = MaxRemote
            /\ Cardinality(keep) <= MaxRemote
    ELSE remoteHas' = remoteHas \ notice.hashes

handle_notice ==
    /\ Connected /\ toSender # <<>>
    /\ hear(Head(toSender)) /\ toSender' = Tail(toSender)
    /\ UNCHANGED <<mining, remoteSize, receiver, toPeer, verdict>>

-----------------------------------------------------------------------------
(* Known, or rescued from the peer latency cache.                           *)
KnownOnly == known                     \* mutant of CanLookUp
CanLookUp == known \cup young \cup old

(* known_txs_var.add.                                                       *)
Learn(S) ==
    /\ known' = known \cup S
    /\ Tell(Notice("have", S \ known))

Refuse(why) == verdict' = why /\ UNCHANGED <<receiver, toSender>>

(* Each transaction that is named is looked up, each that is sent is known  *)
(* from then on, and both count as remembered.                              *)
handle_remember_tx(m) ==
    LET S == m.hashes \cup m.txs IN
    IF S \cap remembered # {} THEN Refuse("referenced transaction twice")
    ELSE IF ~ m.hashes \subseteq CanLookUp THEN Refuse("referenced unknown transaction")
    ELSE /\ remembered' = remembered \cup S
         /\ size' = size + Total(S)
         /\ verdict' = IF size' >= MaxSize THEN "too much transaction data stored"
                       ELSE verdict
         /\ Learn(m.txs) /\ UNCHANGED <<young, old, watching>>

handle_forget_tx(m) ==
    IF ~ m.hashes \subseteq remembered THEN Refuse("KeyError")
    ELSE /\ remembered' = remembered \ m.hashes
         /\ size' = size - Total(m.hashes)
         /\ UNCHANGED <<known, young, old, watching, toSender, verdict>>

handle_shares(m) ==
    IF ~ m.hashes \subseteq CanLookUp THEN Refuse("referenced unknown transaction")
    ELSE Learn(m.hashes) /\ UNCHANGED <<remembered, size, young, old, watching, verdict>>

handle(m) ==
    CASE m.type = "remember" -> handle_remember_tx(m)
      [] m.type = "forget" -> handle_forget_tx(m)
      [] m.type = "shares" -> handle_shares(m)

messageReceived ==
    /\ Connected /\ toPeer # <<>>
    /\ handle(Head(toPeer)) /\ toPeer' = Tail(toPeer)
    /\ UNCHANGED sender

(* A transaction from bitcoind or from another peer.                        *)
new_tx(t) ==
    /\ Connected /\ t \notin known
    /\ Learn({t})
    /\ UNCHANGED <<sender, remembered, size, young, old, watching, toPeer, verdict>>

(* forget_old_txs, every 10 s: what peers remember here and what is mined   *)
(* here (keep) stays known.  What goes is told and cached for 20 s, that is *)
(* until after the next run but not beyond the one after it.  A round trip  *)
(* takes less than the 10 s between two runs: nothing is on its way any     *)
(* more that was sent without regard to the last run.                       *)
KnownAfter(keep) == keep \cup remembered

RoundTripOver ==
    /\ \A i \in DOMAIN toSender : toSender[i].type # "losing"
    /\ \A i \in DOMAIN toPeer : ~toPeer[i].late

forget_old_txs(keep) ==
    LET after == KnownAfter(keep) IN
    /\ Connected /\ RoundTripOver /\ old = {} /\ keep \subseteq known
    /\ known' = after
    /\ old' = young
    /\ IF watching
       THEN /\ Tell(Notice("have", after \ known) \o Notice("losing", known \ after))
            /\ young' = known \ after
            /\ toPeer' = IF after = known THEN toPeer
                         ELSE [i \in DOMAIN toPeer |-> [toPeer[i] EXCEPT !.late = TRUE]]
       ELSE young' = {} /\ UNCHANGED <<toSender, toPeer>>
    /\ UNCHANGED <<sender, remembered, size, watching, verdict>>

(* The connection made after this one is lost.  The callbacks that end its  *)
(* two watches close over one variable, watch_id2, which by then holds the  *)
(* number of its watch on mining_txs_var; known_txs_var, which Node.start   *)
(* watches too, has given that number to this connection.                   *)
next_peer_lost ==
    /\ Connected /\ watching
    /\ watching' = FALSE
    /\ UNCHANGED <<sender, known, remembered, size, young, old, toPeer, toSender, verdict>>

expire_cache ==
    /\ Connected /\ old # {}
    /\ old' = {}
    /\ UNCHANGED <<sender, known, remembered, size, young, watching, toPeer, toSender, verdict>>

-----------------------------------------------------------------------------
(* handle_version on both sides: everything mined is sent in full, and      *)
(* everything known is told.  What does not fit ends the connection.        *)
Handshake(m, k) ==
    /\ Total(m) <= MaxSize
    /\ mining' = m /\ remoteHas' = {} /\ remoteSize' = Total(m)
    /\ known' = k /\ remembered' = {} /\ size' = 0 /\ young' = {} /\ old' = {}
    /\ watching' = TRUE
    /\ toSender' = Notice("have", k)
    /\ toPeer' = IF m = {} THEN <<>>
                 ELSE <<[type |-> "remember", hashes |-> {}, txs |-> m, late |-> FALSE]>>
    /\ verdict' = "connected"

MInit ==
    /\ mining = {} /\ remoteHas = {} /\ remoteSize = 0
    /\ known = {} /\ remembered = {} /\ size = 0 /\ young = {} /\ old = {}
    /\ watching = FALSE
    /\ toPeer = <<>> /\ toSender = <<>> /\ verdict = "not connected"

lose_connection ==
    /\ Connected
    /\ verdict' = "not connected"
    /\ UNCHANGED <<sender, receiver, toPeer, toSender>>

(* Meanwhile either side may have got new work and forgotten transactions.  *)
connect ==
    /\ ~Connected
    /\ \E m \in Templates, k \in SUBSET Txs : Handshake(m, k)

MNext ==
    \/ \E T \in Templates : new_mining_txs(T)
    \/ \E S \in SUBSET Txs \ {{}} : sendShares(S)
    \/ handle_notice \/ messageReceived
    \/ \E t \in Txs : new_tx(t)
    \/ \E keep \in SUBSET known : forget_old_txs(keep)
    \/ expire_cache \/ next_peer_lost \/ lose_connection \/ connect

MSpec == MInit /\ [][MNext]_mvars

-----------------------------------------------------------------------------
(* What a message will make of what is remembered, or a notice of what is   *)
(* taken for known.                                                         *)
After(S, m) ==
    CASE m.type = "remember" -> S \cup m.hashes \cup m.txs
      [] m.type = "have" -> S \cup m.hashes
      [] m.type \in {"forget", "losing"} -> S \ m.hashes
      [] OTHER -> S

(* Two peers that follow the protocol never drop or ban each other over     *)
(* transactions: none is referenced twice or without being known, none is   *)
(* forgotten that is not remembered, and memory is kept within its bound.   *)
(* What is forgotten is cached "so latency of "losing_tx" packets doesn't   *)
(* cause problems" (p2p.py:225).                                            *)
NeverAccused == verdict \in {"connected", "not connected"}

(* So it is while what the receiver forgets is told and cached, but for one  *)
(* case: what is remembered takes exactly max_remembered_txs_size, which    *)
(* the sender allows (p2p.py:245, 254, 385) and the receiver bans for (500).*)
WatchedNeverAccused == watching => NeverAccused \/ size = MaxSize

(* remembered_txs is the "view of peer's mining_txs" (p2p.py:78): once what *)
(* is on its way has arrived, the peer remembers what the sender mines on,  *)
(* and both have counted just what they think the peer remembers.           *)
SameMemory ==
    Connected => /\ FoldLeft(After, remembered, toPeer) = mining
                 /\ remoteSize = Total(mining)
                 /\ size = Total(remembered)

(* The sender never takes a transaction for known for good that the peer    *)
(* has lost, while what the peer forgets is told.                           *)
ViewSound == Connected /\ watching => FoldLeft(After, remoteHas, toSender) \subseteq known
=============================================================================
