------------------------------ MODULE Promises ------------------------------
(***************************************************************************)
(* What a caller of get_shares (p2pool/p2p.py, with GenericDeferrer of       *)
(* util/deferral.py) relies on: its Deferred fires, once, and at the latest  *)
(* when the connection is lost, so that nobody waits for a peer that is gone.*)
(***************************************************************************)
CONSTANTS Peer,
          Deferred   \* each with the peer it waits for, d.peer

VARIABLES open,      \* the Deferreds somebody waits for
          up         \* the connected peers

promises == <<open, up>>

OpenTo(p) == {d \in open : d.peer = p}

Init == open = {} /\ up = {}

(* The Deferreds of done fire, and one of those who waited may ask again, a  *)
(* peer that is connected then.                                             *)
Turn(done, connected) ==
    /\ up' = connected
    /\ \/ open' = open \ done
       \/ \E d \in Deferred \ open : d.peer \in connected /\ open' = (open \ done) \cup {d}

Answer == Turn({}, up) \/ \E d \in open : Turn({d}, up)
Connect(p) == p \notin up /\ Turn({}, up \cup {p})
Disconnect(p) == p \in up /\ Turn(OpenTo(p), up \ {p})

Next == Answer \/ \E p \in Peer : Connect(p) \/ Disconnect(p)

Safe == Init /\ [][Next]_promises

Spec == Safe /\ \A d \in Deferred : (d \in open) ~> (d \notin open)
=============================================================================
