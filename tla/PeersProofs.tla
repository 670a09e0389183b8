---------------------------- MODULE PeersProofs ----------------------------
(***************************************************************************)
(* Node.peers and the counters of the two factories are exact, and two      *)
(* nodes that are done talking agree on what joins them, for any nodes,     *)
(* whoever dials whom and however many connections there are.  Then, what   *)
(* two peers remember for each other (TxMemory): they never disagree on it  *)
(* for good, nor accuse each other.  Last, what one asks the other for      *)
(* (Requests): nobody waits for an answer that cannot come any more.        *)
(***************************************************************************)
EXTENDS Peers, TxMemory, Requests, FiniteSetTheorems, SequenceTheorems, WellFoundedInduction, TLAPS

Phases == {"none", "dialing", "backlog", "made", "aborted"}

Typed ==
    /\ phase \in [End -> Phases]
    /\ seen \in [End -> BOOLEAN] /\ connected2 \in [End -> BOOLEAN]
    /\ chunk \in [End -> Int]
    /\ peers \in [Node -> SUBSET End] /\ clientConns \in [Node -> SUBSET End]
    /\ attempts \in [Node -> SUBSET Node]
    /\ serverConns \in [Node -> [Node -> Int]]

(* Only a connection that is made can be introduced or read from, and only  *)
(* the end that dialled dials.                                              *)
Staged ==
    \A e \in End :
       /\ connected2[e] => Alive(e)
       /\ chunk[e] > 0 => Alive(e)
       /\ phase[e] = "dialing" => IsOut(e) /\ phase[Opposite(e)] = "none"
       /\ phase[e] = "backlog" => ~IsOut(e)

(* A node dials another one once at a time.                                 *)
DialsOnce ==
    \A e, f \in End :
       (/\ IsOut(e) /\ IsOut(f) /\ Here(e) = Here(f) /\ There(e) = There(f)
        /\ phase[e] # "none" /\ phase[f] # "none")
       => e = f

(* The three parts of CountsExact.                                          *)
Accepted(n, m) == {e \in Ends(n) : ~IsOut(e) /\ There(e) = m /\ Alive(e)}

AttemptsExact ==
    \A n \in Node :
       attempts[n] = {There(e) : e \in {x \in Ends(n) : IsOut(x) /\ phase[x] # "none"}}
ClientsExact == \A n \in Node : clientConns[n] = {e \in peers[n] : IsOut(e)}
ServersExact ==
    \A n, m \in Node : serverConns[n][m] = Cardinality(Accepted(n, m))

IInv == /\ Typed /\ Staged /\ DialsOnce /\ PeersExact
        /\ AttemptsExact /\ ClientsExact /\ ServersExact

-----------------------------------------------------------------------------
LEMMA EndFacts ==
    \A e \in End :
       /\ Here(e) \in Node /\ There(e) \in Node
       /\ Opposite(e) \in End /\ Opposite(e) # e
       /\ IsOut(Opposite(e)) <=> ~IsOut(e)
       /\ Opposite(Opposite(e)) = e
<1> SUFFICES ASSUME NEW e \in End
    PROVE  /\ Here(e) \in Node /\ There(e) \in Node
           /\ Opposite(e) \in End /\ Opposite(e) # e
           /\ IsOut(Opposite(e)) <=> ~IsOut(e)
           /\ Opposite(Opposite(e)) = e
  OBVIOUS
<1>1. /\ e[1] \in Dials \X (1..Lives) /\ e[2] \in {"out", "in"} /\ e = <<e[1], e[2]>>
  BY DEF End, Conn
<1>2. e[1][1] \in Node \X Node
  BY <1>1, PeersAssumption
<1>3. e[1][1][1] \in Node /\ e[1][1][2] \in Node
  BY <1>2
<1> QED
  BY <1>1, <1>3 DEF End, Conn, Here, There, Opposite, IsOut, Dialer, Target

LEMMA EndsFinite == \A n, m \in Node : IsFiniteSet(Accepted(n, m))
<1>1. IsFiniteSet(Node \X Node)
  BY FS_Product, PeersAssumption
<1>2. IsFiniteSet(Dials)
  BY <1>1, FS_Subset, PeersAssumption
<1>3. IsFiniteSet(1..Lives)
  BY FS_Interval, PeersAssumption
<1>4. IsFiniteSet(Conn)
  BY <1>2, <1>3, FS_Product DEF Conn
<1>5. IsFiniteSet({} \cup {"out"})
  BY FS_EmptySet, FS_AddElement
<1>55. IsFiniteSet(({} \cup {"out"}) \cup {"in"})
  BY <1>5, FS_AddElement
<1>6. IsFiniteSet({"out", "in"})
  <2>1. {"out", "in"} = ({} \cup {"out"}) \cup {"in"}
    OBVIOUS
  <2> QED
    BY <2>1, <1>55
<1>7. IsFiniteSet(End)
  BY <1>4, <1>6, FS_Product DEF End
<1>8. \A n, m \in Node : Accepted(n, m) \in SUBSET End
  BY DEF Accepted, Ends
<1> QED
  BY <1>7, <1>8, FS_Subset

(* CountsExact is the conjunction of its parts.                             *)
LEMMA CountsParts == CountsExact <=> AttemptsExact /\ ClientsExact /\ ServersExact
BY DEF CountsExact, AttemptsExact, ClientsExact, ServersExact, Accepted

-----------------------------------------------------------------------------
(* What a step leaves alone.                                                *)
LEMMA AttemptsKept ==
    ASSUME AttemptsExact, UNCHANGED attempts,
           \A e \in End : IsOut(e) => (phase'[e] # "none" <=> phase[e] # "none")
    PROVE  AttemptsExact'
<1>1. \A n : {x \in Ends(n) : IsOut(x) /\ phase'[x] # "none"}
              = {x \in Ends(n) : IsOut(x) /\ phase[x] # "none"}
  BY DEF Ends
<1> QED
  BY <1>1 DEF AttemptsExact

LEMMA ServersKept ==
    ASSUME ServersExact, UNCHANGED serverConns,
           \A e \in End : ~IsOut(e) => (Alive(e)' <=> Alive(e))
    PROVE  ServersExact'
<1>1. \A n, m : Accepted(n, m)' = Accepted(n, m)
  BY DEF Accepted, Ends
<1> QED
  BY <1>1 DEF ServersExact

LEMMA ClientsKept ==
    ASSUME ClientsExact, UNCHANGED <<peers, clientConns>>
    PROVE  ClientsExact'
BY DEF ClientsExact

LEMMA PeersKept ==
    ASSUME PeersExact, UNCHANGED <<peers, connected2>>,
           \A e \in End : connected2[e] => Alive(e)'
    PROVE  PeersExact'
BY DEF PeersExact, Ends

(* A step that neither frees nor takes an end of a dialler.                 *)
LEMMA DialsOnceKept ==
    ASSUME DialsOnce, \A e \in End : IsOut(e) /\ phase'[e] # "none" => phase[e] # "none"
    PROVE  DialsOnce'
BY DEF DialsOnce

-----------------------------------------------------------------------------
LEMMA InitIInv == Init => IInv
<1> SUFFICES ASSUME Init PROVE IInv
  OBVIOUS
<1>1. Typed
  BY DEF Init, Typed, Phases
<1>2. \A e \in End : phase[e] = "none" /\ ~connected2[e] /\ ~(chunk[e] > 0)
  BY DEF Init
<1>3. PeersExact /\ AttemptsExact /\ ClientsExact
  BY DEF Init, PeersExact, AttemptsExact, ClientsExact, Ends
<1>4. \A n, m \in Node : Accepted(n, m) = {}
  BY DEF Init, Accepted, Alive, Ends
<1>5. ServersExact
  BY <1>4, FS_EmptySet DEF Init, ServersExact
<1>6. Staged
  BY <1>2 DEF Staged
<1>7. DialsOnce
  <2> SUFFICES ASSUME NEW e \in End, NEW f \in End, phase[e] # "none"
      PROVE  e = f
    BY DEF DialsOnce
  <2> QED
    BY <1>2
<1> QED
  BY <1>1, <1>3, <1>5, <1>6, <1>7 DEF IInv

(* A new attempt is the only one to its target.                             *)
LEMMA ThinkIInv ==
    ASSUME IInv, NEW n \in Node, NEW m \in Node, think(n, m)
    PROVE  IInv'
<1>1. PICK e \in End :
         /\ IsOut(e) /\ Here(e) = n /\ There(e) = m
         /\ phase[e] = "none" /\ phase[Opposite(e)] = "none"
         /\ phase' = [phase EXCEPT ![e] = "dialing"]
  BY DEF think
<1>2. /\ m \notin attempts[n] /\ attempts' = [attempts EXCEPT ![n] = @ \cup {m}]
      /\ UNCHANGED <<seen, connected2, chunk, peers, clientConns, serverConns>>
  BY DEF think
<1>3. /\ phase' \in [End -> Phases] /\ phase'[e] = "dialing"
      /\ \A f \in End : f # e => phase'[f] = phase[f]
  BY <1>1 DEF IInv, Typed, Phases
<1>4. Typed'
  BY <1>2, <1>3 DEF IInv, Typed
<1>5. ~connected2[e] /\ ~(chunk[e] > 0) /\ phase'[Opposite(e)] = "none"
  BY <1>1, <1>3, EndFacts DEF IInv, Staged, Alive
<1>6. \A f \in End : Alive(f)' <=> Alive(f)
  BY <1>1, <1>3 DEF Alive
<1>7. Staged'
  BY <1>1, <1>2, <1>3, <1>5, <1>6, EndFacts DEF IInv, Staged
<1>8. \A f \in End : IsOut(f) /\ Here(f) = n /\ There(f) = m => phase[f] = "none"
  BY <1>2 DEF IInv, AttemptsExact, Ends
<1>9. DialsOnce'
  BY <1>1, <1>3, <1>8 DEF IInv, DialsOnce
<1>10. PeersExact' /\ ClientsExact' /\ ServersExact'
  BY <1>2, <1>6, PeersKept, ClientsKept, ServersKept DEF IInv, Staged
<1>11. AttemptsExact'
  <2>1. \A x \in Ends(n) : IsOut(x) /\ phase'[x] # "none"
                             <=> x = e \/ (IsOut(x) /\ phase[x] # "none")
    BY <1>1, <1>3 DEF Ends
  <2>2. e \in Ends(n)
    BY <1>1 DEF Ends
  <2>3. attempts'[n] = {There(x) : x \in {y \in Ends(n) : IsOut(y) /\ phase'[y] # "none"}}
    <3>1. attempts'[n] = attempts[n] \cup {m}
      BY <1>2 DEF IInv, Typed
    <3>2. attempts[n] = {There(x) : x \in {y \in Ends(n) : IsOut(y) /\ phase[y] # "none"}}
      BY DEF IInv, AttemptsExact
    <3>3. {y \in Ends(n) : IsOut(y) /\ phase'[y] # "none"}
            = {y \in Ends(n) : IsOut(y) /\ phase[y] # "none"} \cup {e}
      BY <2>1, <2>2
    <3> QED
      BY <1>1, <3>1, <3>2, <3>3
  <2>4. \A k \in Node \ {n} :
           {x \in Ends(k) : IsOut(x) /\ phase'[x] # "none"}
             = {x \in Ends(k) : IsOut(x) /\ phase[x] # "none"}
    BY <1>1, <1>3 DEF Ends
  <2>5. \A k \in Node \ {n} : attempts'[k] = attempts[k]
    BY <1>2 DEF IInv, Typed
  <2> QED
    BY <2>3, <2>4, <2>5 DEF IInv, AttemptsExact
<1> QED
  BY <1>4, <1>7, <1>9, <1>10, <1>11 DEF IInv

(* Where an attempt ends, its target is free to be dialled again.           *)
LEMMA AttemptEnds ==
    ASSUME IInv, NEW e \in End, IsOut(e), phase[e] # "none",
           phase' = [phase EXCEPT ![e] = "none"],
           attempts' = [attempts EXCEPT ![Here(e)] = @ \ {There(e)}]
    PROVE  AttemptsExact'
<1> DEFINE n == Here(e)
<1>1. n \in Node /\ e \in Ends(n)
  BY EndFacts DEF Ends
<1>2. phase'[e] = "none" /\ \A f \in End : f # e => phase'[f] = phase[f]
  BY DEF IInv, Typed
<1>3. \A x \in Ends(n) : IsOut(x) /\ phase'[x] # "none"
                           <=> IsOut(x) /\ phase[x] # "none" /\ x # e
  BY <1>2 DEF Ends
<1>4. \A x \in Ends(n) : IsOut(x) /\ phase[x] # "none" /\ There(x) = There(e) => x = e
  BY DEF IInv, DialsOnce, Ends
<1>5. attempts'[n] = {There(x) : x \in {y \in Ends(n) : IsOut(y) /\ phase'[y] # "none"}}
  BY <1>1, <1>3, <1>4 DEF IInv, Typed, AttemptsExact
<1>6. \A k \in Node \ {n} :
         /\ {x \in Ends(k) : IsOut(x) /\ phase'[x] # "none"}
              = {x \in Ends(k) : IsOut(x) /\ phase[x] # "none"}
         /\ attempts'[k] = attempts[k]
  BY <1>1, <1>2 DEF Ends, IInv, Typed
<1> QED
  BY <1>1, <1>5, <1>6 DEF IInv, AttemptsExact

LEMMA MadeIInv ==
    ASSUME IInv, NEW e \in End, made(e)
    PROVE  IInv'
<1> DEFINE o == Opposite(e)
<1>1. /\ phase[e] = "dialing"
      /\ phase' = [phase EXCEPT ![e] = "made", ![o] = "backlog"]
      /\ UNCHANGED <<seen, connected2, chunk, peers, attempts, clientConns, serverConns>>
  BY DEF made, node
<1>2. IsOut(e) /\ phase[o] = "none" /\ o \in End /\ o # e /\ ~IsOut(o)
  BY <1>1, EndFacts DEF IInv, Staged
<1>3. /\ phase' \in [End -> Phases] /\ phase'[e] = "made" /\ phase'[o] = "backlog"
      /\ \A f \in End \ {e, o} : phase'[f] = phase[f]
  BY <1>1, <1>2 DEF IInv, Typed, Phases
<1>4. Typed'
  BY <1>1, <1>3 DEF IInv, Typed
<1>5. \A f \in End : Opposite(f) = e => f = o
  BY EndFacts
<1>6. \A f \in End : phase[f] = "dialing" /\ phase[Opposite(f)] = "none" /\ f # e
                      => Opposite(f) # e /\ Opposite(f) # o /\ f # o
  BY <1>1, <1>2, EndFacts
<1>7. ~connected2[o] /\ ~(chunk[o] > 0)
  BY <1>2 DEF IInv, Staged, Alive
<1>8. \A f \in End : Alive(f) => Alive(f)'
  BY <1>1, <1>2, <1>3 DEF Alive
<1>9. Staged'
  <2>1. \A f \in End : (connected2[f] => Alive(f)') /\ (chunk[f] > 0 => Alive(f)')
    BY <1>8 DEF IInv, Staged
  <2>2. \A f \in End : phase'[f] = "dialing" => IsOut(f) /\ phase'[Opposite(f)] = "none"
    BY <1>3, <1>6, EndFacts DEF IInv, Staged
  <2>3. \A f \in End : phase'[f] = "backlog" => ~IsOut(f)
    BY <1>2, <1>3 DEF IInv, Staged
  <2> QED
    BY <1>1, <2>1, <2>2, <2>3 DEF Staged
<1>10. \A f \in End : IsOut(f) => (phase'[f] # "none" <=> phase[f] # "none")
  BY <1>1, <1>2, <1>3
<1>11. DialsOnce' /\ AttemptsExact'
  BY <1>1, <1>10, DialsOnceKept, AttemptsKept DEF IInv
<1>12. \A f \in End : ~IsOut(f) => (Alive(f)' <=> Alive(f))
  BY <1>2, <1>3 DEF Alive
<1>13. PeersExact' /\ ClientsExact' /\ ServersExact'
  BY <1>1, <1>8, <1>12, PeersKept, ClientsKept, ServersKept DEF IInv, Staged
<1> QED
  BY <1>4, <1>9, <1>11, <1>13 DEF IInv

(* Failing attempts and refused connections: the end was not Alive.         *)
LEMMA NeverMadeIInv ==
    ASSUME IInv, NEW e \in End, clientConnectionFailed(e) \/ refuse(e)
    PROVE  IInv'
<1>1. /\ phase' = [phase EXCEPT ![e] = "none"]
      /\ phase[e] \in {"dialing", "backlog"}
      /\ UNCHANGED <<seen, connected2, chunk, peers, clientConns, serverConns>>
  BY DEF clientConnectionFailed, refuse, node
<1>2. /\ phase' \in [End -> Phases] /\ phase'[e] = "none"
      /\ \A f \in End : f # e => phase'[f] = phase[f]
  BY <1>1 DEF IInv, Typed, Phases
<1>3. \A f \in End : Alive(f)' <=> Alive(f)
  BY <1>1, <1>2 DEF Alive
<1>4. Staged'
  BY <1>1, <1>2, <1>3, EndFacts DEF IInv, Staged
<1>5. DialsOnce' /\ PeersExact' /\ ClientsExact' /\ ServersExact'
  BY <1>1, <1>2, <1>3, DialsOnceKept, PeersKept, ClientsKept, ServersKept DEF IInv, Staged
<1>6. CASE clientConnectionFailed(e)
  <2>1. /\ IsOut(e) /\ phase[e] # "none"
        /\ attempts' = [attempts EXCEPT ![Here(e)] = @ \ {There(e)}]
    BY <1>6 DEF clientConnectionFailed, IInv, Staged
  <2>2. AttemptsExact'
    BY <1>1, <2>1, AttemptEnds
  <2>3. Typed'
    BY <1>1, <1>2, <2>1, EndFacts DEF IInv, Typed
  <2> QED
    BY <1>4, <1>5, <2>2, <2>3 DEF IInv
<1>7. CASE refuse(e)
  <2>1. UNCHANGED attempts /\ ~IsOut(e)
    BY <1>7 DEF refuse, node, IInv, Staged
  <2>2. AttemptsExact'
    BY <1>2, <2>1, AttemptsKept DEF IInv
  <2>3. Typed'
    BY <1>1, <1>2, <2>1 DEF IInv, Typed
  <2> QED
    BY <1>4, <1>5, <2>2, <2>3 DEF IInv
<1> QED
  BY <1>6, <1>7

LEMMA AcceptIInv ==
    ASSUME IInv, NEW e \in End, accept(e)
    PROVE  IInv'
<1> DEFINE n == Here(e)
           m == There(e)
<1>1. /\ phase[e] = "backlog" /\ phase' = [phase EXCEPT ![e] = "made"]
      /\ serverConns' = [serverConns EXCEPT ![n][m] = @ + 1]
      /\ UNCHANGED <<seen, connected2, chunk, peers, attempts, clientConns>>
  BY DEF accept
<1>2. ~IsOut(e) /\ n \in Node /\ m \in Node
  BY <1>1, EndFacts DEF IInv, Staged
<1>3. /\ phase' \in [End -> Phases] /\ phase'[e] = "made"
      /\ \A f \in End : f # e => phase'[f] = phase[f]
  BY <1>1 DEF IInv, Typed, Phases
<1>4. /\ serverConns'[n][m] = serverConns[n][m] + 1
      /\ serverConns' \in [Node -> [Node -> Int]]
      /\ \A k, l \in Node : k # n \/ l # m => serverConns'[k][l] = serverConns[k][l]
  BY <1>1, <1>2 DEF IInv, Typed
<1>5. Typed'
  BY <1>1, <1>3, <1>4 DEF IInv, Typed
<1>6. \A f \in End : Alive(f)' <=> Alive(f) \/ f = e
  BY <1>1, <1>3 DEF Alive
<1>7. ~Alive(e)
  BY <1>1 DEF Alive
<1>8. Staged'
  <2>1. \A f \in End : phase'[f] = "dialing" => IsOut(f) /\ phase'[Opposite(f)] = "none"
    BY <1>1, <1>3, EndFacts DEF IInv, Staged
  <2> QED
    BY <1>1, <1>3, <1>6, <2>1 DEF IInv, Staged
<1>9. \A f \in End : IsOut(f) => (phase'[f] # "none" <=> phase[f] # "none")
  BY <1>2, <1>3
<1>10. DialsOnce' /\ AttemptsExact' /\ PeersExact' /\ ClientsExact'
  BY <1>1, <1>6, <1>9, DialsOnceKept, AttemptsKept, PeersKept, ClientsKept DEF IInv, Staged
<1>11. ServersExact'
  <2>1. Accepted(n, m)' = Accepted(n, m) \cup {e} /\ e \notin Accepted(n, m)
    BY <1>2, <1>6, <1>7 DEF Accepted, Ends
  <2>2. \A k, l \in Node : k # n \/ l # m => Accepted(k, l)' = Accepted(k, l)
    BY <1>6 DEF Accepted, Ends
  <2>3. Cardinality(Accepted(n, m)') = Cardinality(Accepted(n, m)) + 1
    BY <1>2, <2>1, EndsFinite, FS_AddElement
  <2>4. serverConns'[n][m] = Cardinality(Accepted(n, m)')
    BY <1>2, <1>4, <2>3 DEF IInv, ServersExact
  <2>5. \A k, l \in Node : serverConns'[k][l] = Cardinality(Accepted(k, l)')
    BY <1>4, <2>2, <2>4 DEF IInv, ServersExact
  <2> QED
    BY <2>5 DEF ServersExact
<1> QED
  BY <1>5, <1>8, <1>10, <1>11 DEF IInv

-----------------------------------------------------------------------------
(* A step that at most aborts the connection of an end.                     *)
LEMMA AbortKeeps ==
    ASSUME IInv, NEW e \in End, Alive(e),
           phase' = phase \/ phase' = [phase EXCEPT ![e] = "aborted"]
    PROVE  /\ phase' \in [End -> Phases]
           /\ \A f \in End : Alive(f)' <=> Alive(f)
           /\ \A f \in End : phase'[f] # "none" <=> phase[f] # "none"
           /\ \A f \in End : phase'[f] = "dialing" <=> phase[f] = "dialing"
           /\ \A f \in End : phase'[f] = "backlog" <=> phase[f] = "backlog"
<1>1. CASE phase' = phase
  BY <1>1 DEF IInv, Typed, Alive
<1>2. CASE phase' = [phase EXCEPT ![e] = "aborted"]
  <2>1. /\ phase' \in [End -> Phases] /\ phase'[e] = "aborted"
        /\ \A f \in End : f # e => phase'[f] = phase[f]
    BY <1>2 DEF IInv, Typed, Phases
  <2> QED
    BY <2>1 DEF Alive
<1> QED
  BY <1>1, <1>2

LEMMA AbortIInv ==
    ASSUME IInv, NEW e \in End, Alive(e),
           phase' = phase \/ phase' = [phase EXCEPT ![e] = "aborted"],
           UNCHANGED <<connected2, peers, attempts, clientConns, serverConns>>,
           seen' \in [End -> BOOLEAN], chunk' \in [End -> Int],
           \A f \in End : chunk'[f] > 0 => Alive(f)
    PROVE  IInv'
<1>1. /\ phase' \in [End -> Phases]
      /\ \A f \in End : Alive(f)' <=> Alive(f)
      /\ \A f \in End : phase'[f] # "none" <=> phase[f] # "none"
      /\ \A f \in End : phase'[f] = "dialing" <=> phase[f] = "dialing"
      /\ \A f \in End : phase'[f] = "backlog" <=> phase[f] = "backlog"
  BY AbortKeeps
<1>2. Typed'
  BY <1>1 DEF IInv, Typed
<1>3. Staged'
  BY <1>1, EndFacts DEF IInv, Staged
<1>4. DialsOnce' /\ AttemptsExact' /\ PeersExact' /\ ClientsExact' /\ ServersExact'
  BY <1>1, DialsOnceKept, AttemptsKept, PeersKept, ClientsKept, ServersKept
  DEF IInv, Staged
<1> QED
  BY <1>2, <1>3, <1>4 DEF IInv

(* A new peer: neither the node itself nor one it already has.              *)
LEMMA GreetIInv ==
    ASSUME IInv, NEW e \in End, Alive(e),
           There(e) # Here(e), ~KnownNonce(e),
           seen' = [seen EXCEPT ![e] = TRUE],
           connected2' = [connected2 EXCEPT ![e] = TRUE],
           peers' = [peers EXCEPT ![Here(e)] = @ \cup {e}],
           clientConns' = [clientConns EXCEPT ![Here(e)] =
                               IF IsOut(e) THEN @ \cup {e} ELSE @],
           chunk' \in [End -> Int], \A f \in End : chunk'[f] > 0 => Alive(f),
           UNCHANGED <<phase, attempts, serverConns>>
    PROVE  IInv'
<1> DEFINE n == Here(e)
<1>1. n \in Node /\ e \in Ends(n)
  BY EndFacts DEF Ends
<1>2. \A f \in End : Alive(f)' <=> Alive(f)
  BY DEF Alive
<1>3. /\ connected2' \in [End -> BOOLEAN] /\ connected2'[e]
      /\ \A f \in End : f # e => connected2'[f] = connected2[f]
  BY DEF IInv, Typed
<1>4. /\ peers' \in [Node -> SUBSET End] /\ peers'[n] = peers[n] \cup {e}
      /\ \A k \in Node : k # n => peers'[k] = peers[k]
  BY <1>1 DEF IInv, Typed
<1>5. /\ clientConns' \in [Node -> SUBSET End]
      /\ clientConns'[n] = IF IsOut(e) THEN clientConns[n] \cup {e} ELSE clientConns[n]
      /\ \A k \in Node : k # n => clientConns'[k] = clientConns[k]
  BY <1>1 DEF IInv, Typed
<1>6. Typed'
  BY <1>3, <1>4, <1>5 DEF IInv, Typed
<1>7. Staged'
  BY <1>2, <1>3 DEF IInv, Staged
<1>8. DialsOnce' /\ AttemptsExact' /\ ServersExact'
  BY <1>2, DialsOnceKept, AttemptsKept, ServersKept DEF IInv
<1>9. ClientsExact'
  <2>1. clientConns'[n] = {f \in peers'[n] : IsOut(f)}
    BY <1>1, <1>4, <1>5 DEF IInv, ClientsExact
  <2> QED
    BY <2>1, <1>4, <1>5 DEF IInv, ClientsExact
<1>10. PeersExact'
  <2>1. \A k \in Node : peers'[k] = {f \in Ends(k) : connected2'[f]}
    <3>1. peers'[n] = {f \in Ends(n) : connected2'[f]}
      BY <1>1, <1>3, <1>4 DEF IInv, PeersExact, Ends
    <3>2. \A k \in Node : k # n => peers'[k] = {f \in Ends(k) : connected2'[f]}
      BY <1>3, <1>4 DEF IInv, PeersExact, Ends
    <3> QED
      BY <3>1, <3>2
  <2>2. \A p \in peers[n] : There(p) # There(e)
    BY DEF KnownNonce
  <2>3. \A k \in Node : \A p, q \in peers'[k] : There(p) = There(q) => p = q
    BY <1>4, <2>2 DEF IInv, PeersExact
  <2>4. \A k \in Node : \A p \in peers'[k] : There(p) # k /\ Alive(p)'
    BY <1>4, <1>2 DEF IInv, PeersExact, Alive
  <2> QED
    BY <2>1, <2>3, <2>4 DEF PeersExact, Ends
<1> QED
  BY <1>6, <1>7, <1>8, <1>9, <1>10 DEF IInv

LEMMA PacketIInv ==
    ASSUME IInv, NEW e \in End, packetReceived(e)
    PROVE  IInv'
<1>1. /\ chunk[e] > 0 /\ chunk' = [chunk EXCEPT ![e] = @ - 1]
      /\ UNCHANGED <<attempts, serverConns>>
      /\ handle_version(e) \/ HandleIfConnected(e)
  BY DEF packetReceived
<1>2. Alive(e)
  BY <1>1 DEF IInv, Staged
<1>3. chunk' \in [End -> Int] /\ \A f \in End : chunk'[f] > 0 => Alive(f)
  BY <1>1, <1>2 DEF IInv, Typed, Staged
<1>4. CASE badPeerHappened(e)
  <2>1. /\ phase' = [phase EXCEPT ![e] = "aborted"]
        /\ UNCHANGED <<seen, connected2, peers, clientConns>>
    BY <1>4 DEF badPeerHappened, disconnect
  <2> QED
    BY <1>1, <1>2, <1>3, <2>1, AbortIInv DEF IInv, Typed
<1>5. CASE UNCHANGED <<phase, seen, connected2, peers, clientConns>>
  BY <1>1, <1>2, <1>3, <1>5, AbortIInv DEF IInv, Typed
<1>6. CASE /\ disconnect(e) /\ seen' = [seen EXCEPT ![e] = TRUE]
           /\ UNCHANGED <<connected2, peers, clientConns>>
  <2>1. seen' \in [End -> BOOLEAN]
    BY <1>6 DEF IInv, Typed
  <2> QED
    BY <1>1, <1>2, <1>3, <1>6, <2>1, AbortIInv DEF disconnect
<1>7. CASE /\ There(e) # Here(e) /\ ~KnownNonce(e)
           /\ seen' = [seen EXCEPT ![e] = TRUE]
           /\ connected2' = [connected2 EXCEPT ![e] = TRUE]
           /\ peers' = [peers EXCEPT ![Here(e)] = @ \cup {e}]
           /\ clientConns' = [clientConns EXCEPT ![Here(e)] =
                                  IF IsOut(e) THEN @ \cup {e} ELSE @]
           /\ UNCHANGED phase
  BY <1>1, <1>2, <1>3, <1>7, GreetIInv
<1> QED
  BY <1>1, <1>4, <1>5, <1>6, <1>7 DEF handle_version, HandleIfConnected

-----------------------------------------------------------------------------
(* A lost connection is in nobody's list and in no counter any more.        *)
LEMMA LoseIInv ==
    ASSUME IInv, NEW e \in End, Alive(e), ~Busy(Here(e)), Lose(e)
    PROVE  IInv'
<1> DEFINE n == Here(e)
           m == There(e)
<1>1. /\ phase' = [phase EXCEPT ![e] = "none"]
      /\ seen' = [seen EXCEPT ![e] = FALSE]
      /\ connected2' = [connected2 EXCEPT ![e] = FALSE]
      /\ peers' = [peers EXCEPT ![n] = IF connected2[e] THEN @ \ {e} ELSE @]
      /\ clientConns' = [clientConns EXCEPT ![n] = @ \ {e}]
      /\ UNCHANGED chunk
  BY DEF Lose
<1>2. n \in Node /\ m \in Node /\ e \in Ends(n)
  BY EndFacts DEF Ends
<1>3. /\ phase' \in [End -> Phases] /\ phase'[e] = "none"
      /\ \A f \in End : f # e => phase'[f] = phase[f]
  BY <1>1 DEF IInv, Typed, Phases
<1>4. /\ connected2' \in [End -> BOOLEAN] /\ ~connected2'[e]
      /\ \A f \in End : f # e => connected2'[f] = connected2[f]
  BY <1>1 DEF IInv, Typed
<1>5. /\ peers' \in [Node -> SUBSET End] /\ peers'[n] = peers[n] \ {e}
      /\ \A k \in Node : k # n => peers'[k] = peers[k]
  <2>1. ~connected2[e] => e \notin peers[n]
    BY <1>2 DEF IInv, PeersExact
  <2>2. peers \in [Node -> SUBSET End]
    BY DEF IInv, Typed
  <2>3. /\ peers'[n] = IF connected2[e] THEN peers[n] \ {e} ELSE peers[n]
        /\ \A k \in Node : k # n => peers'[k] = peers[k]
        /\ peers' \in [Node -> SUBSET End]
    BY <1>1, <1>2, <2>2
  <2> QED
    BY <2>1, <2>3
<1>6. /\ clientConns' \in [Node -> SUBSET End] /\ clientConns'[n] = clientConns[n] \ {e}
      /\ \A k \in Node : k # n => clientConns'[k] = clientConns[k]
  BY <1>1, <1>2 DEF IInv, Typed
<1>7. \A f \in End : Alive(f)' <=> Alive(f) /\ f # e
  BY <1>1, <1>3 DEF Alive
<1>8. chunk[e] \in Int /\ ~(chunk[e] > 0)
  BY <1>2 DEF Busy, IInv, Typed
<1>9. Staged'
  <2>1. \A f \in End : phase'[f] = "dialing" => IsOut(f) /\ phase'[Opposite(f)] = "none"
    BY <1>1, <1>3, EndFacts DEF IInv, Staged
  <2>2. \A f \in End : phase'[f] = "backlog" => ~IsOut(f)
    BY <1>3 DEF IInv, Staged
  <2> QED
    BY <1>1, <1>4, <1>7, <1>8, <2>1, <2>2 DEF IInv, Staged
<1>10. DialsOnce'
  BY <1>3, DialsOnceKept DEF IInv
<1>11. PeersExact'
  <2>1. \A k \in Node : peers'[k] = {f \in Ends(k) : connected2'[f]}
    <3>1. peers'[n] = {f \in Ends(n) : connected2'[f]}
      BY <1>2, <1>4, <1>5 DEF IInv, PeersExact, Ends
    <3>2. \A k \in Node : k # n => peers'[k] = {f \in Ends(k) : connected2'[f]}
      BY <1>4, <1>5 DEF IInv, PeersExact, Ends
    <3> QED
      BY <3>1, <3>2
  <2>2. \A k \in Node : peers'[k] \subseteq peers[k] /\ e \notin peers'[k]
    BY <1>4, <1>5, <2>1 DEF Ends
  <2>3. \A k \in Node : \A p, q \in peers'[k] : There(p) = There(q) => p = q
    BY <2>2 DEF IInv, PeersExact
  <2>4. \A k \in Node : \A p \in peers'[k] : There(p) # k /\ Alive(p)'
    BY <1>5, <1>7, <2>2 DEF IInv, PeersExact, Typed
  <2> QED
    BY <2>1, <2>3, <2>4 DEF PeersExact, Ends
<1>12. ClientsExact'
  <2>1. clientConns'[n] = {f \in peers'[n] : IsOut(f)}
    BY <1>2, <1>5, <1>6 DEF IInv, ClientsExact
  <2> QED
    BY <2>1, <1>5, <1>6 DEF IInv, ClientsExact
<1>13. CASE IsOut(e)
  <2>1. attempts' = [attempts EXCEPT ![n] = @ \ {m}] /\ UNCHANGED serverConns
    BY <1>13 DEF Lose
  <2>2. AttemptsExact'
    BY <1>1, <1>13, <2>1, AttemptEnds DEF Alive
  <2>3. ServersExact'
    BY <1>7, <1>13, <2>1, ServersKept DEF IInv
  <2>4. Typed'
    BY <1>1, <1>2, <1>3, <1>4, <1>5, <1>6, <2>1 DEF IInv, Typed
  <2> QED
    BY <1>9, <1>10, <1>11, <1>12, <2>2, <2>3, <2>4 DEF IInv
<1>14. CASE ~IsOut(e)
  <2>1. serverConns' = [serverConns EXCEPT ![n][m] = @ - 1] /\ UNCHANGED attempts
    BY <1>14 DEF Lose
  <2>2. AttemptsExact'
    BY <1>3, <1>14, <2>1, AttemptsKept DEF IInv
  <2>3. /\ serverConns'[n][m] = serverConns[n][m] - 1
        /\ serverConns' \in [Node -> [Node -> Int]]
        /\ \A k, l \in Node : k # n \/ l # m => serverConns'[k][l] = serverConns[k][l]
    BY <1>2, <2>1 DEF IInv, Typed
  <2>4. Typed'
    BY <1>1, <1>3, <1>4, <1>5, <1>6, <2>1, <2>3 DEF IInv, Typed
  <2>5. ServersExact'
    <3>1. Accepted(n, m)' = Accepted(n, m) \ {e} /\ e \in Accepted(n, m)
      BY <1>2, <1>7, <1>14 DEF Accepted, Ends
    <3>2. \A k, l \in Node : k # n \/ l # m => Accepted(k, l)' = Accepted(k, l)
      BY <1>7 DEF Accepted, Ends
    <3>3. Cardinality(Accepted(n, m)') = Cardinality(Accepted(n, m)) - 1
      BY <1>2, <3>1, EndsFinite, FS_RemoveElement
    <3>4. serverConns'[n][m] = Cardinality(Accepted(n, m)')
      BY <1>2, <2>3, <3>3 DEF IInv, ServersExact
    <3>5. \A k, l \in Node : serverConns'[k][l] = Cardinality(Accepted(k, l)')
      BY <2>3, <3>2, <3>4 DEF IInv, ServersExact
    <3> QED
      BY <3>5 DEF ServersExact
  <2> QED
    BY <1>9, <1>10, <1>11, <1>12, <2>2, <2>4, <2>5 DEF IInv
<1> QED
  BY <1>13, <1>14

(* What only moves messages or ends bans.                                   *)
LEMMA IdleIInv ==
    ASSUME IInv,
           UNCHANGED <<phase, seen, connected2, chunk, peers, attempts, clientConns,
                       serverConns>>
    PROVE  IInv'
BY DEF IInv, Typed, Staged, DialsOnce, PeersExact, AttemptsExact, ClientsExact,
       ServersExact, Accepted, Alive

LEMMA NextIInv == IInv /\ [Next]_vars => IInv'
<1> SUFFICES ASSUME IInv, [Next]_vars PROVE IInv'
  OBVIOUS
<1>1. CASE UNCHANGED vars
  BY <1>1, IdleIInv DEF vars, ends, node
<1>2. ASSUME NEW n \in Node, NEW m \in Node, think(n, m) PROVE IInv'
  BY <1>2, ThinkIInv
<1>3. ASSUME NEW n \in Node, NEW m \in Node, ban_ends(n, m) PROVE IInv'
  BY <1>3, IdleIInv DEF ban_ends, ends
<1>4. ASSUME NEW e \in End, made(e) PROVE IInv'
  BY <1>4, MadeIInv
<1>5. ASSUME NEW e \in End, clientConnectionFailed(e) \/ refuse(e) PROVE IInv'
  BY <1>5, NeverMadeIInv
<1>6. ASSUME NEW e \in End, accept(e) PROVE IInv'
  BY <1>6, AcceptIInv
<1>7. ASSUME NEW e \in End, packetReceived(e) PROVE IInv'
  BY <1>7, PacketIInv
<1>8. ASSUME NEW e \in End, dataReceived(e) PROVE IInv'
  <2>1. PICK k \in 1..Len(inbox[e]) : chunk' = [chunk EXCEPT ![e] = k]
    BY <1>8 DEF dataReceived
  <2>2. /\ Alive(e)
        /\ UNCHANGED <<phase, seen, connected2, peers, attempts, clientConns, serverConns>>
    BY <1>8 DEF dataReceived, Alive, node
  <2>3. k \in Int
    OBVIOUS
  <2>4. chunk' \in [End -> Int] /\ \A f \in End : chunk'[f] > 0 => Alive(f)
    BY <2>1, <2>2, <2>3 DEF IInv, Typed, Staged
  <2> QED
    BY <2>2, <2>4, AbortIInv DEF IInv, Typed
<1>9. ASSUME NEW e \in End, send_other(e) PROVE IInv'
  BY <1>9, IdleIInv DEF send_other, node
<1>10. ASSUME NEW e \in End, timeout(e) PROVE IInv'
  <2>1. /\ Alive(e) /\ phase' = [phase EXCEPT ![e] = "aborted"]
        /\ UNCHANGED <<seen, connected2, chunk, peers, attempts, clientConns, serverConns>>
    BY <1>10 DEF timeout, disconnect, Alive, node
  <2>2. /\ seen' \in [End -> BOOLEAN] /\ chunk' \in [End -> Int]
        /\ \A f \in End : chunk'[f] > 0 => Alive(f)
    BY <2>1 DEF IInv, Typed, Staged
  <2> QED
    BY <2>1, <2>2, AbortIInv
<1>11. ASSUME NEW e \in End, connectionLost(e) \/ connectionFails(e) PROVE IInv'
  BY <1>11, LoseIInv DEF connectionLost, connectionFails
<1>12. CASE Next
  BY <1>12, <1>2, <1>3, <1>4, <1>5, <1>6, <1>7, <1>8, <1>9, <1>10, <1>11 DEF Next
<1> QED
  BY <1>1, <1>12

-----------------------------------------------------------------------------
(* The strengthening holds in every state a node can be in.                 *)
THEOREM IInvariant == Spec => []IInv
<1>1. Init => IInv
  BY InitIInv
<1>2. IInv /\ [Next]_vars => IInv'
  BY NextIInv
<1> QED
  BY <1>1, <1>2, PTL DEF Spec

(* got_conn and lost_conn (p2p/p2p.py Node) keep the list of peers exact:   *)
(* one connection to a node, none to itself, none that is lost.             *)
THEOREM PeersCorrect == Spec => []PeersExact
<1>1. IInv => PeersExact
  BY DEF IInv
<1> QED
  BY <1>1, IInvariant, PTL

(* The factories' attempts and conns are given back exactly once, however a *)
(* connection fails or ends.                                                *)
THEOREM CountsCorrect == Spec => []CountsExact
<1>1. IInv => CountsExact
  BY CountsParts DEF IInv
<1> QED
  BY <1>1, IInvariant, PTL

-----------------------------------------------------------------------------
(* What makes AgreeWhenQuiet hold.  Until the end of an open connection is   *)
(* introduced something is on its way to it, for the version message came    *)
(* first and nothing is handled before it.                                  *)
Awaited ==
    \A e \in End :
       /\ phase[e] = "backlog" => inbox[e] # <<>>
       /\ phase[e] = "made" /\ phase[Opposite(e)] = "made" /\ ~connected2[e]
             => inbox[e] # <<>>

Messages == {"version", "other"}
Inboxes == inbox \in [End -> Seq(Messages)]

AInv == IInv /\ Inboxes /\ Awaited /\ \A e \in End : chunk[e] <= Len(inbox[e])

(* What is sent is added to what is on its way.                             *)
LEMMA SentFacts ==
    ASSUME Inboxes, NEW e \in End, NEW message \in Messages
    PROVE  /\ Sent(e, message) \in [End -> Seq(Messages)]
           /\ \A f \in End : /\ Sent(e, message)[f] = <<>> => inbox[f] = <<>>
                             /\ Len(Sent(e, message)[f]) >= Len(inbox[f])
           /\ phase[Opposite(e)] # "none" => Sent(e, message)[Opposite(e)] # <<>>
           /\ \A f \in End : f # Opposite(e) => Sent(e, message)[f] = inbox[f]
<1> DEFINE o == Opposite(e)
<1>1. o \in End
  BY EndFacts
<1>2. \A f \in End : inbox[f] \in Seq(Messages)
  BY DEF Inboxes
<1>3. Append(inbox[o], message) \in Seq(Messages) /\ Append(inbox[o], message) # <<>>
      /\ Len(Append(inbox[o], message)) = Len(inbox[o]) + 1 /\ Len(inbox[o]) \in Nat
  BY <1>1, <1>2
<1>4. CASE phase[o] = "none"
  <2>1. Sent(e, message) = inbox
    BY <1>4 DEF Sent
  <2>2. \A f \in End : Len(inbox[f]) \in Nat
    BY <1>2
  <2> QED
    BY <1>4, <2>1, <2>2 DEF Inboxes
<1>5. CASE phase[o] # "none"
  <2>1. Sent(e, message) = [inbox EXCEPT ![o] = Append(inbox[o], message)]
    BY <1>5 DEF Sent
  <2> DEFINE longer == Append(inbox[o], message)
  <2>2. \A f \in End : Len(inbox[f]) \in Nat
    BY <1>2
  <2>3. /\ longer \in Seq(Messages) /\ longer # <<>>
        /\ Len(longer) = Len(inbox[o]) + 1
    BY <1>3
  <2> HIDE DEF longer, o
  <2>4. Sent(e, message) = [inbox EXCEPT ![o] = longer]
    BY <2>1 DEF longer
  <2>5. \A f \in End : Sent(e, message)[f] = IF f = o THEN longer ELSE inbox[f]
    BY <1>1, <2>4 DEF Inboxes
  <2>6. Sent(e, message) \in [End -> Seq(Messages)]
    BY <1>1, <2>3, <2>4 DEF Inboxes
  <2> QED
    BY <1>1, <2>2, <2>3, <2>5, <2>6 DEF o
<1> QED
  BY <1>4, <1>5

(* A step that opens no end and takes nothing out of an inbox, or only out  *)
(* of one that it closes.                                                   *)
LEMMA AwaitedKept ==
    ASSUME AInv, IInv', Inboxes',
           \A f \in End : chunk'[f] <= Len(inbox'[f]),
           \A f \in End :
              /\ phase'[f] = "backlog" => phase[f] = "backlog"
              /\ phase'[f] = "made" => phase[f] = "made"
              /\ ~connected2'[f] => ~connected2[f] \/ phase'[f] # "made"
              /\ inbox'[f] = <<>> => \/ inbox[f] = <<>>
                                     \/ phase'[f] \notin {"made", "backlog"}
                                     \/ connected2'[f] /\ phase'[f] = "made"
    PROVE  AInv'
BY EndFacts DEF AInv, Awaited

(* The two sides of a connection get ready one after the other, and the     *)
(* later one finds the version message of the earlier one.                  *)
LEMMA MadeAInv ==
    ASSUME AInv, NEW e \in End, made(e)
    PROVE  AInv'
<1> DEFINE o == Opposite(e)
<1>1. /\ phase[e] = "dialing" /\ chunk' = chunk /\ connected2' = connected2
      /\ phase' = [phase EXCEPT ![e] = "made", ![o] = "backlog"]
      /\ inbox' = [inbox EXCEPT ![o] = <<"version">>]
  BY DEF made
<1>2. IInv'
  BY MadeIInv DEF AInv
<1>3. o \in End /\ o # e /\ phase[o] = "none" /\ Opposite(o) = e
  BY <1>1, EndFacts DEF AInv, IInv, Staged
<1>4. chunk[o] <= 0
  BY <1>3 DEF AInv, IInv, Staged, Typed, Alive
<1>5. /\ <<"version">> \in Seq(Messages) /\ <<"version">> # <<>>
      /\ Len(<<"version">>) = 1
  BY DEF Messages
<1> HIDE DEF o
<1>6. /\ phase'[o] = "backlog" /\ phase'[e] = "made"
      /\ \A f \in End : f \notin {e, o} => phase'[f] = phase[f]
      /\ \A f \in End : inbox'[f] = IF f = o THEN <<"version">> ELSE inbox[f]
      /\ Inboxes'
  BY <1>1, <1>3, <1>5 DEF AInv, IInv, Typed, Inboxes
<1>7. \A f \in End : chunk'[f] <= Len(inbox'[f])
  BY <1>1, <1>3, <1>4, <1>5, <1>6 DEF AInv, IInv, Typed
<1>8. Awaited'
  <2> SUFFICES ASSUME NEW f \in End
      PROVE  /\ phase'[f] = "backlog" => inbox'[f] # <<>>
             /\ phase'[f] = "made" /\ phase'[Opposite(f)] = "made" /\ ~connected2'[f]
                   => inbox'[f] # <<>>
    BY DEF Awaited
  <2>1. CASE f = o
    BY <1>5, <1>6, <2>1
  <2>2. CASE f = e
    BY <1>6, <2>2 DEF o
  <2>3. CASE f \notin {e, o}
    <3>1. Opposite(f) \in End /\ Opposite(f) \notin {e, o}
      BY <1>3, <2>3, EndFacts DEF o
    <3> QED
      BY <1>1, <1>6, <2>3, <3>1 DEF AInv, Awaited
  <2> QED
    BY <2>1, <2>2, <2>3
<1> QED
  BY <1>2, <1>6, <1>7, <1>8 DEF AInv

LEMMA AcceptAInv ==
    ASSUME AInv, NEW e \in End, accept(e)
    PROVE  AInv'
<1> DEFINE o == Opposite(e)
<1>1. /\ phase[e] = "backlog" /\ chunk' = chunk /\ connected2' = connected2
      /\ phase' = [phase EXCEPT ![e] = "made"]
      /\ inbox' = Sent(e, "version")
  BY DEF accept
<1>2. IInv'
  BY AcceptIInv DEF AInv
<1>3. o \in End /\ o # e /\ Opposite(o) = e
  BY EndFacts
<1>4. /\ Inboxes'
      /\ \A f \in End : /\ inbox'[f] = <<>> => inbox[f] = <<>>
                        /\ Len(inbox'[f]) >= Len(inbox[f])
      /\ phase[o] # "none" => inbox'[o] # <<>>
  BY <1>1, SentFacts DEF AInv, Inboxes, Messages
<1>5. \A f \in End : Len(inbox[f]) \in Nat /\ Len(inbox'[f]) \in Nat
  BY <1>4 DEF AInv, Inboxes
<1>6. \A f \in End : chunk'[f] <= Len(inbox'[f])
  <2>1. \A f \in End : chunk[f] \in Int /\ chunk[f] <= Len(inbox[f])
    BY DEF AInv, IInv, Typed
  <2> QED
    BY <1>1, <1>4, <1>5, <2>1
<1> HIDE DEF o
<1>7. \A f \in End : phase'[f] = IF f = e THEN "made" ELSE phase[f]
  BY <1>1 DEF AInv, IInv, Typed
<1>8. Awaited'
  <2> SUFFICES ASSUME NEW f \in End
      PROVE  /\ phase'[f] = "backlog" => inbox'[f] # <<>>
             /\ phase'[f] = "made" /\ phase'[Opposite(f)] = "made" /\ ~connected2'[f]
                   => inbox'[f] # <<>>
    BY DEF Awaited
  <2>1. CASE f = e
    BY <1>1, <1>4, <1>7, <2>1 DEF AInv, Awaited
  <2>2. CASE f = o
    BY <1>1, <1>3, <1>4, <1>7, <2>2 DEF AInv, Awaited
  <2>3. CASE f \notin {e, o}
    <3>1. Opposite(f) \in End /\ Opposite(f) # e
      BY <1>3, <2>3, EndFacts DEF o
    <3> QED
      BY <1>1, <1>4, <1>7, <2>3, <3>1 DEF AInv, Awaited
  <2> QED
    BY <2>1, <2>2, <2>3
<1> QED
  BY <1>2, <1>4, <1>6, <1>8 DEF AInv

(* Whatever is handled while the end is not introduced introduces it or     *)
(* makes it give up.                                                        *)
LEMMA PacketAInv ==
    ASSUME AInv, NEW e \in End, packetReceived(e)
    PROVE  AInv'
<1> DEFINE box == IF Greeting(e) THEN Sent(e, "other") ELSE inbox
<1>1. /\ chunk[e] > 0 /\ chunk' = [chunk EXCEPT ![e] = @ - 1]
      /\ inbox' = [box EXCEPT ![e] = Tail(@)]
  BY DEF packetReceived
<1>2. IInv'
  BY PacketIInv DEF AInv
<1>3. /\ box \in [End -> Seq(Messages)]
      /\ \A f \in End : /\ box[f] = <<>> => inbox[f] = <<>>
                        /\ Len(box[f]) >= Len(inbox[f])
  <2>1. CASE Greeting(e)
    BY <2>1, SentFacts DEF AInv, Messages
  <2>2. CASE ~Greeting(e)
    <3>1. \A f \in End : Len(inbox[f]) \in Nat
      BY DEF AInv, Inboxes
    <3> QED
      BY <2>2, <3>1 DEF AInv, Inboxes
  <2> QED
    BY <2>1, <2>2
<1> HIDE DEF box
<1>4. \A f \in End : Len(box[f]) \in Nat /\ Len(inbox[f]) \in Nat /\ chunk[f] \in Int
  BY <1>3 DEF AInv, IInv, Typed, Inboxes
<1>5. box[e] # <<>> /\ box[e] \in Seq(Messages)
  <2>1. chunk[e] <= Len(box[e])
    BY <1>3, <1>4 DEF AInv
  <2>2. Len(<<>>) = 0
    OBVIOUS
  <2> QED
    BY <1>1, <1>3, <1>4, <2>1, <2>2
<1>6. Tail(box[e]) \in Seq(Messages) /\ Len(Tail(box[e])) = Len(box[e]) - 1
  BY <1>5
<1> DEFINE rest == Tail(box[e])
<1>7. rest \in Seq(Messages) /\ Len(rest) = Len(box[e]) - 1 /\ inbox' = [box EXCEPT ![e] = rest]
  BY <1>1, <1>6
<1> HIDE DEF rest
<1>8. /\ Inboxes'
      /\ \A f \in End : inbox'[f] = IF f = e THEN rest ELSE box[f]
  BY <1>3, <1>7 DEF Inboxes
<1>9. \A f \in End : chunk'[f] = IF f = e THEN chunk[e] - 1 ELSE chunk[f]
  BY <1>1 DEF AInv, IInv, Typed
<1>10. \A f \in End : chunk'[f] <= Len(inbox'[f])
  <2>1. \A f \in End : chunk[f] <= Len(box[f])
    BY <1>3, <1>4 DEF AInv
  <2> QED
    BY <1>4, <1>7, <1>8, <1>9, <2>1
<1>11. /\ \A f \in End : f # e => phase'[f] = phase[f] /\ connected2'[f] = connected2[f]
       /\ \/ phase'[e] = "aborted"
          \/ connected2'[e] /\ phase'[e] = phase[e]
  <2>1. \/ phase' = [phase EXCEPT ![e] = "aborted"] /\ connected2' = connected2
        \/ connected2' = [connected2 EXCEPT ![e] = TRUE] /\ phase' = phase
        \/ connected2[e] /\ UNCHANGED <<phase, connected2>>
    BY DEF packetReceived, handle_version, HandleIfConnected, badPeerHappened, disconnect
  <2>2. CASE phase' = [phase EXCEPT ![e] = "aborted"] /\ connected2' = connected2
    BY <2>2 DEF AInv, IInv, Typed
  <2>3. CASE connected2' = [connected2 EXCEPT ![e] = TRUE] /\ phase' = phase
    BY <2>3 DEF AInv, IInv, Typed
  <2>4. CASE connected2[e] /\ UNCHANGED <<phase, connected2>>
    BY <2>4
  <2> QED
    BY <2>1, <2>2, <2>3, <2>4
<1>12. Alive(e)
  BY <1>1 DEF AInv, IInv, Staged
<1> QED
  BY <1>2, <1>3, <1>8, <1>10, <1>11, <1>12, AwaitedKept DEF Alive

LEMMA LoseAInv ==
    ASSUME AInv, NEW e \in End, ~Busy(Here(e)), Lose(e), IInv'
    PROVE  AInv'
<1>1. /\ phase' = [phase EXCEPT ![e] = "none"] /\ chunk' = chunk
      /\ connected2' = [connected2 EXCEPT ![e] = FALSE]
      /\ inbox' = [inbox EXCEPT ![e] = <<>>]
  BY DEF Lose
<1>2. ~(chunk[e] > 0)
  BY DEF Busy, Ends
<1>3. <<>> \in Seq(Messages) /\ Len(<<>>) = 0
  OBVIOUS
<1>4. Inboxes' /\ \A f \in End : inbox'[f] = IF f = e THEN <<>> ELSE inbox[f]
  BY <1>1, <1>3 DEF AInv, Inboxes
<1>5. \A f \in End : chunk'[f] <= Len(inbox'[f])
  BY <1>1, <1>2, <1>3, <1>4 DEF AInv, IInv, Typed
<1> QED
  BY <1>1, <1>4, <1>5, AwaitedKept DEF AInv, IInv, Typed

LEMMA NextAInv == AInv /\ [Next]_vars => AInv'
<1> SUFFICES ASSUME AInv, [Next]_vars PROVE AInv'
  OBVIOUS
<1>0. IInv'
  BY NextIInv DEF AInv
<1>1. CASE UNCHANGED <<phase, connected2, inbox, chunk>>
  BY <1>0, <1>1, AwaitedKept DEF AInv, Inboxes
<1>2. ASSUME NEW e \in End, phase' = [phase EXCEPT ![e] = "aborted"]
                            \/ phase' = [phase EXCEPT ![e] = "dialing"]
                            \/ phase' = [phase EXCEPT ![e] = "none"],
             UNCHANGED <<connected2, inbox, chunk>>
      PROVE AInv'
  BY <1>0, <1>2, AwaitedKept DEF AInv, Inboxes, IInv, Typed
<1>3. ASSUME NEW n \in Node, NEW m \in Node, think(n, m) PROVE AInv'
  <2>1. PICK e \in End : phase' = [phase EXCEPT ![e] = "dialing"]
    BY <1>3 DEF think
  <2> QED
    BY <1>2, <1>3, <2>1 DEF think
<1>4. ASSUME NEW n \in Node, NEW m \in Node, ban_ends(n, m) PROVE AInv'
  BY <1>1, <1>4 DEF ban_ends, ends
<1>5. ASSUME NEW e \in End, clientConnectionFailed(e) PROVE AInv'
  BY <1>2, <1>5 DEF clientConnectionFailed
<1>6. ASSUME NEW e \in End, refuse(e) PROVE AInv'
  <2>1. /\ phase' = [phase EXCEPT ![e] = "none"] /\ chunk' = chunk
        /\ inbox' = [inbox EXCEPT ![e] = <<>>] /\ connected2' = connected2
    BY <1>6 DEF refuse
  <2>2. ~(chunk[e] > 0)
    BY <1>6 DEF refuse, Busy, Ends
  <2>3. <<>> \in Seq(Messages) /\ Len(<<>>) = 0
    OBVIOUS
  <2>4. Inboxes' /\ \A f \in End : inbox'[f] = IF f = e THEN <<>> ELSE inbox[f]
    BY <2>1, <2>3 DEF AInv, Inboxes
  <2>5. \A f \in End : chunk'[f] <= Len(inbox'[f])
    BY <2>1, <2>2, <2>3, <2>4 DEF AInv, IInv, Typed
  <2> QED
    BY <1>0, <2>1, <2>4, <2>5, AwaitedKept DEF AInv, IInv, Typed
<1>7. ASSUME NEW e \in End, dataReceived(e) PROVE AInv'
  <2>1. PICK k \in 1..Len(inbox[e]) : chunk' = [chunk EXCEPT ![e] = k]
    BY <1>7 DEF dataReceived
  <2>2. UNCHANGED <<phase, connected2, inbox>>
    BY <1>7 DEF dataReceived
  <2>3. Len(inbox[e]) \in Nat
    BY DEF AInv, Inboxes
  <2>4. \A f \in End : chunk'[f] <= Len(inbox'[f])
    BY <2>1, <2>2, <2>3 DEF AInv, IInv, Typed
  <2> QED
    BY <1>0, <2>2, <2>4, AwaitedKept DEF AInv, Inboxes
<1>8. ASSUME NEW e \in End, send_other(e) PROVE AInv'
  <2>1. inbox' = Sent(e, "other") /\ UNCHANGED <<phase, connected2, chunk>>
    BY <1>8 DEF send_other
  <2>2. /\ Inboxes'
        /\ \A f \in End : /\ inbox'[f] = <<>> => inbox[f] = <<>>
                          /\ Len(inbox'[f]) >= Len(inbox[f])
    BY <2>1, SentFacts DEF AInv, Inboxes, Messages
  <2>3. \A f \in End : Len(inbox[f]) \in Nat /\ Len(inbox'[f]) \in Nat
    BY <2>2 DEF AInv, Inboxes
  <2>4. \A f \in End : chunk[f] \in Int /\ chunk[f] <= Len(inbox[f])
    BY DEF AInv, IInv, Typed
  <2>5. \A f \in End : chunk'[f] <= Len(inbox'[f])
    BY <2>1, <2>2, <2>3, <2>4
  <2> QED
    BY <1>0, <2>1, <2>2, <2>5, AwaitedKept
<1>9. ASSUME NEW e \in End, timeout(e) PROVE AInv'
  BY <1>2, <1>9 DEF timeout, disconnect
<1>10. ASSUME NEW e \in End, connectionLost(e) \/ connectionFails(e) PROVE AInv'
  BY <1>0, <1>10, LoseAInv DEF connectionLost, connectionFails
<1>11. CASE Next
  BY <1>11, <1>3, <1>4, <1>5, <1>6, <1>7, <1>8, <1>9, <1>10,
     MadeAInv, AcceptAInv, PacketAInv DEF Next
<1> QED
  BY <1>1, <1>11 DEF vars, ends

(* Two nodes with nothing on its way between them list each other through   *)
(* the same connection or not at all: introductions that cross, connections *)
(* that are given up, lost or time out never leave a node with a peer that  *)
(* does not know of it.                                                     *)
THEOREM PeersAgree == Spec => []AgreeWhenQuiet
<1>1. Init => AInv
  <2> SUFFICES ASSUME Init PROVE AInv
    OBVIOUS
  <2>1. <<>> \in Seq(Messages) /\ Len(<<>>) = 0
    OBVIOUS
  <2>2. Inboxes /\ \A e \in End : chunk[e] <= Len(inbox[e])
    BY <2>1 DEF Init, Inboxes
  <2>3. Awaited
    BY DEF Init, Awaited
  <2> QED
    BY <2>2, <2>3, InitIInv DEF AInv
<1>2. AInv /\ [Next]_vars => AInv'
  BY NextAInv
<1>3. AInv => AgreeWhenQuiet
  <2> SUFFICES ASSUME AInv, Quiet, NEW e \in End
      PROVE  connected2[e] <=> connected2[Opposite(e)]
    BY DEF AgreeWhenQuiet
  <2>1. Opposite(e) \in End /\ Opposite(Opposite(e)) = e
    BY EndFacts
  <2>2. \A f \in End : phase[f] = "none" => ~connected2[f]
    BY DEF AInv, IInv, Staged, Alive
  <2>3. \A f \in End : phase[f] = "made" => connected2[f]
    BY DEF AInv, Awaited, Quiet
  <2> QED
    BY <2>1, <2>2, <2>3 DEF Quiet
<1> QED
  BY <1>1, <1>2, <1>3, PTL DEF Spec

-----------------------------------------------------------------------------
(* The transactions two peers remember for each other, TxMemory.             *)
LEMMA LeastElement ==
    ASSUME NEW T \in SUBSET Nat, T # {}
    PROVE  \E m \in T : \A k \in T : m <= k
<1>1. IsWellFoundedOn(OpToRel(<, Nat), Nat)
  BY NatLessThanWellFounded
<1>2. PICK m \in T : \A k \in T : ~ (<<k, m>> \in OpToRel(<, Nat))
  BY <1>1, WFMin
<1>3. \A k \in T : ~ (k < m)
  BY <1>2 DEF OpToRel
<1> QED
  BY <1>3

(* Of the sets of transactions that lack a property one is smallest.        *)
LEMMA SmallestSet ==
    ASSUME NEW B \in SUBSET SUBSET Txs, B # {}
    PROVE  \E T \in B : \A U \in SUBSET T : U # T => U \notin B
<1> DEFINE sizes == {Cardinality(T) : T \in B}
<1>1. \A T \in SUBSET Txs : IsFiniteSet(T) /\ Cardinality(T) \in Nat
  <2>1. IsFiniteSet(Txs)
    BY TxMemoryAssumption
  <2> QED
    BY <2>1, FS_Subset, FS_CardinalityType
<1>2. sizes \in SUBSET Nat /\ sizes # {}
  BY <1>1
<1>3. PICK n \in sizes : \A k \in sizes : n <= k
  <2> HIDE DEF sizes
  <2> QED
    BY <1>2, LeastElement
<1>4. PICK T \in B : n = Cardinality(T)
  OBVIOUS
<1>5. ASSUME NEW U \in SUBSET T, U # T PROVE U \notin B
  <2> SUFFICES ASSUME U \in B PROVE FALSE
    OBVIOUS
  <2>1. Cardinality(U) < Cardinality(T)
    BY <1>1, <1>5, FS_Subset
  <2>2. Cardinality(U) \in sizes
    OBVIOUS
  <2> HIDE DEF sizes
  <2>3. n <= Cardinality(U)
    BY <1>3, <2>2
  <2> QED
    BY <1>1, <1>4, <2>1, <2>3
<1> QED
  BY <1>5

First(T) == CHOOSE t \in T : TRUE
IsTotal(g) ==
    \A T \in SUBSET Txs : g[T] = IF T = {} THEN 0 ELSE Size[First(T)] + g[T \ {First(T)}]

LEMMA FirstIn == \A T : T # {} => First(T) \in T
  BY DEF First

(* Total, as the fold it is.                                                *)
LEMMA TotalUnfolds ==
    ASSUME NEW S
    PROVE  Total(S) = (CHOOSE g : g = [T \in SUBSET S |->
              IF T = {} THEN 0 ELSE LET x == CHOOSE t \in T : TRUE IN Size[x] + g[T \ {x}]])[S]
  BY DEF Total, SumFunctionOnSet, FoldFunctionOnSet, MapThenFoldSet

(* There is a function that adds up sizes, and Total is it.                 *)
LEMMA SizesTotal == \E g : IsTotal(g)
<1> DEFINE F(g, T) == IF T = {} THEN 0 ELSE Size[First(T)] + g[T \ {First(T)}]
           Upto(n) == {T \in SUBSET Txs : Cardinality(T) <= n}
           Good(n, g) == \A T \in Upto(n) : g[T] = F(g, T)
           Bad == {n \in Nat : ~ \E g : Good(n, g)}
<1>1. \A T \in SUBSET Txs : IsFiniteSet(T) /\ Cardinality(T) \in Nat
  <2>1. IsFiniteSet(Txs)
    BY TxMemoryAssumption
  <2> QED
    BY <2>1, FS_Subset, FS_CardinalityType
<1>2. \A T \in SUBSET Txs : T # {} =>
         /\ T \ {First(T)} \in SUBSET Txs
         /\ Cardinality(T \ {First(T)}) = Cardinality(T) - 1
  BY <1>1, FirstIn, FS_RemoveElement
<1>3. Bad = {}
  <2> SUFFICES ASSUME Bad # {} PROVE FALSE
    OBVIOUS
  <2> HIDE DEF Good
  <2>1. PICK n \in Bad : \A k \in Bad : n <= k
    <3>1. Bad \in SUBSET Nat
      OBVIOUS
    <3> HIDE DEF Bad
    <3> QED
      BY <3>1, LeastElement
  <2>2. n \in Nat /\ ~ (\E g : Good(n, g))
    OBVIOUS
  <2>3. n # 0
    <3> DEFINE g == [T \in Upto(0) |-> 0]
    <3>1. \A T \in Upto(0) : T = {}
      BY <1>1, FS_EmptySet
    <3>2. Good(0, g)
      BY <3>1 DEF Good
    <3> QED
      BY <2>2, <3>2
  <2>4. PICK g : Good(n - 1, g)
    <3>1. n - 1 \in Nat /\ n - 1 \notin Bad
      <4> HIDE DEF Bad
      <4>1. n - 1 \in Bad => n <= n - 1
        BY <2>1
      <4> QED
        BY <4>1, <2>2, <2>3
    <3> QED
      BY <3>1
  <2> DEFINE h == [T \in Upto(n) |-> F(g, T)]
  <2>5. \A T \in Upto(n) : T # {} => T \ {First(T)} \in Upto(n - 1)
    BY <1>1, <1>2, <2>2
  <2>6. \A T \in Upto(n - 1) : T \in Upto(n) /\ h[T] = g[T]
    <3> SUFFICES ASSUME NEW T \in Upto(n - 1) PROVE T \in Upto(n) /\ h[T] = g[T]
      OBVIOUS
    <3>1. T \in Upto(n)
      BY <1>1, <2>2
    <3>2. g[T] = F(g, T)
      BY <2>4 DEF Good
    <3> HIDE DEF Upto
    <3> QED
      BY <3>1, <3>2
  <2>7. Good(n, h)
    <3> HIDE DEF Upto
    <3> QED
      BY <2>5, <2>6 DEF Good
  <2> QED
    BY <2>2, <2>7
<1> DEFINE n == Cardinality(Txs)
<1>4. n \in Nat /\ Upto(n) = SUBSET Txs
  <2>1. IsFiniteSet(Txs)
    BY TxMemoryAssumption
  <2> QED
    BY <2>1, <1>1, FS_Subset, FS_CardinalityType
<1>5. PICK g : Good(n, g)
  <2> HIDE DEF Good, n
  <2> QED
    BY <1>3, <1>4
<1>6. IsTotal(g)
  <2> HIDE DEF Upto, n
  <2> QED
    BY <1>4, <1>5 DEF IsTotal
<1> QED
  BY <1>6

LEMMA TotalIs ==
    ASSUME NEW g, IsTotal(g)
    PROVE  \A S \in SUBSET Txs : Total(S) = g[S]
<1> SUFFICES ASSUME NEW S \in SUBSET Txs PROVE Total(S) = g[S]
  OBVIOUS
<1> DEFINE R(h) == [T \in SUBSET S |->
                      IF T = {} THEN 0 ELSE Size[First(T)] + h[T \ {First(T)}]]
           h0 == CHOOSE h : h = R(h)
           r == [T \in SUBSET S |-> g[T]]
<1>1. Total(S) = h0[S]
  BY TotalUnfolds DEF First
<1>2. \A T \in SUBSET S : T # {} => First(T) \in T /\ T \ {First(T)} \in SUBSET S
  BY FirstIn
<1>3. r = R(r)
  <2>1. \A T \in SUBSET S : r[T] = IF T = {} THEN 0 ELSE Size[First(T)] + r[T \ {First(T)}]
    BY <1>2 DEF IsTotal
  <2>2. r = [T \in SUBSET S |-> r[T]]
    OBVIOUS
  <2> HIDE DEF r
  <2> QED
    BY <2>1, <2>2
<1>4. h0 = R(h0)
  <2> HIDE DEF R, r
  <2> QED
    BY <1>3
<1> DEFINE B == {T \in SUBSET S : h0[T] # g[T]}
<1> HIDE DEF h0
<1>5. B = {}
  <2> SUFFICES ASSUME B # {} PROVE FALSE
    OBVIOUS
  <2>1. PICK T \in B : \A U \in SUBSET T : U # T => U \notin B
    <3>1. B \in SUBSET SUBSET Txs
      OBVIOUS
    <3> HIDE DEF B
    <3> QED
      BY <3>1, SmallestSet
  <2>2. h0[T] = IF T = {} THEN 0 ELSE Size[First(T)] + h0[T \ {First(T)}]
    BY <1>4
  <2>3. g[T] = IF T = {} THEN 0 ELSE Size[First(T)] + g[T \ {First(T)}]
    BY DEF IsTotal
  <2>4. T # {} => h0[T \ {First(T)}] = g[T \ {First(T)}]
    <3> SUFFICES ASSUME T # {} PROVE h0[T \ {First(T)}] = g[T \ {First(T)}]
      OBVIOUS
    <3>1. T \ {First(T)} \in SUBSET T /\ T \ {First(T)} # T
      BY FirstIn
    <3>2. T \ {First(T)} \notin B
      BY <2>1, <3>1
    <3>3. T \ {First(T)} \in SUBSET S
      OBVIOUS
    <3> QED
      BY <3>2, <3>3
  <2>5. h0[T] = g[T]
    BY <2>2, <2>3, <2>4
  <2> QED
    BY <2>5
<1>6. h0[S] = g[S]
  BY <1>5
<1> QED
  BY <1>1, <1>6

LEMMA TotalType ==
    Total({}) = 0 /\ \A S \in SUBSET Txs : Total(S) \in Nat
<1>1. PICK g : IsTotal(g)
  BY SizesTotal
<1> DEFINE B == {T \in SUBSET Txs : g[T] \notin Nat}
<1>2. B = {}
  <2> SUFFICES ASSUME B # {} PROVE FALSE
    OBVIOUS
  <2>1. PICK T \in B : \A U \in SUBSET T : U # T => U \notin B
    <3> HIDE DEF B
    <3>1. B \in SUBSET SUBSET Txs
      BY DEF B
    <3> QED
      BY <3>1, SmallestSet
  <2>2. g[T] = IF T = {} THEN 0 ELSE Size[First(T)] + g[T \ {First(T)}]
    BY <1>1 DEF IsTotal
  <2>3. CASE T = {}
    BY <2>2, <2>3
  <2>4. CASE T # {}
    <3> DEFINE U == T \ {First(T)}
    <3>1. First(T) \in T /\ U \in SUBSET T /\ U # T
      BY <2>4, FirstIn
    <3>2. U \notin B /\ U \in SUBSET Txs
      BY <2>1, <3>1
    <3>3. g[U] \in Nat /\ Size[First(T)] \in Nat
      BY <3>1, <3>2, TxMemoryAssumption
    <3>4. g[T] = Size[First(T)] + g[U]
      BY <2>2, <2>4
    <3> HIDE DEF U
    <3> QED
      BY <3>3, <3>4
  <2> QED
    BY <2>3, <2>4
<1>3. g[{}] = 0
  BY <1>1 DEF IsTotal
<1>4. \A S \in SUBSET Txs : Total(S) = g[S]
  BY <1>1, TotalIs
<1> QED
  BY <1>2, <1>3, <1>4

(* Whichever transaction is counted first.                                  *)
LEMMA TotalWithout ==
    \A T \in SUBSET Txs, t \in Txs :
              t \in T => Total(T) = Size[t] + Total(T \ {t})
<1>1. PICK g : IsTotal(g)
  BY SizesTotal
<1>2. \A S \in SUBSET Txs : Total(S) = g[S] /\ g[S] \in Nat
  BY <1>1, TotalIs, TotalType
<1> DEFINE Bad(T) == \E t \in T : g[T] # Size[t] + g[T \ {t}]
           B == {T \in SUBSET Txs : Bad(T)}
<1>3. B = {}
  <2> SUFFICES ASSUME B # {} PROVE FALSE
    OBVIOUS
  <2>1. PICK T \in B : \A U \in SUBSET T : U # T => U \notin B
    <3>1. B \in SUBSET SUBSET Txs
      OBVIOUS
    <3> HIDE DEF B
    <3> QED
      BY <3>1, SmallestSet
  <2>2. PICK t \in T : g[T] # Size[t] + g[T \ {t}]
    OBVIOUS
  <2> DEFINE a == First(T)
             V == T \ {a}
             W == T \ {t}
             X == V \ {t}
  <2>3. a \in T /\ g[T] = Size[a] + g[V]
    BY <1>1, FirstIn DEF IsTotal
  <2> HIDE DEF a
  <2>4. a # t
    BY <2>2, <2>3
  <2>5. V \in SUBSET Txs /\ V \notin B /\ W \in SUBSET Txs /\ W \notin B
    <3>1. V \in SUBSET T /\ V # T /\ W \in SUBSET T /\ W # T
      BY <2>3
    <3>2. V \in SUBSET Txs /\ W \in SUBSET Txs
      OBVIOUS
    <3> HIDE DEF V, W, B
    <3>3. V \notin B
      BY <2>1, <3>1
    <3>4. W \notin B
      BY <2>1, <3>1
    <3> QED
      BY <3>2, <3>3, <3>4
  <2>6. t \in V /\ a \in W /\ W \ {a} = X /\ X \in SUBSET Txs
    BY <2>3, <2>4
  <2>7. g[V] = Size[t] + g[X]
    BY <2>5, <2>6
  <2>8. g[W] = Size[a] + g[X]
    BY <2>5, <2>6
  <2>9. Size[a] \in Nat /\ Size[t] \in Nat /\ g[X] \in Nat
    BY <1>2, <2>2, <2>3, <2>6, TxMemoryAssumption
  <2> HIDE DEF V, W, X
  <2> QED
    BY <2>2, <2>3, <2>7, <2>8, <2>9 DEF W
<1>4. \A T \in SUBSET Txs, t \in Txs : t \in T => g[T] = Size[t] + g[T \ {t}]
  BY <1>3
<1>5. \A T \in SUBSET Txs, t \in Txs : T \ {t} \in SUBSET Txs
  OBVIOUS
<1> HIDE DEF B
<1> QED
  BY <1>2, <1>4, <1>5

LEMMA TotalOfUnion ==
    ASSUME NEW S \in SUBSET Txs, NEW T \in SUBSET Txs, S \cap T = {}
    PROVE  Total(S \cup T) = Total(S) + Total(T)
<1> DEFINE B == {U \in SUBSET T : Total(S \cup U) # Total(S) + Total(U)}
<1>1. B = {}
  <2> SUFFICES ASSUME B # {} PROVE FALSE
    OBVIOUS
  <2>1. PICK U \in B : \A V \in SUBSET U : V # U => V \notin B
    <3>1. B \in SUBSET SUBSET Txs
      OBVIOUS
    <3> HIDE DEF B
    <3> QED
      BY <3>1, SmallestSet
  <2>0. Total(S \cup U) # Total(S) + Total(U)
    OBVIOUS
  <2>2. CASE U = {}
    <3>1. S \cup U = S
      BY <2>2
    <3>2. Total(U) = 0 /\ Total(S) \in Nat
      BY <2>2, TotalType
    <3> HIDE DEF B
    <3>3. Total(S \cup U) = Total(S)
      BY <3>1
    <3>4. Total(S) = Total(S) + Total(U)
      BY <3>2
    <3> QED
      BY <2>0, <3>3, <3>4
  <2>3. CASE U # {}
    <3> DEFINE t == First(U)
               V == U \ {t}
    <3>1. t \in U /\ t \in Txs /\ t \notin S
      BY <2>3, FirstIn
    <3> HIDE DEF t
    <3>2. V \notin B /\ V \in SUBSET T /\ V \in SUBSET Txs
      <4>1. V \in SUBSET U /\ V # U
        BY <3>1
      <4> HIDE DEF B, V
      <4>2. V \notin B
        BY <2>1, <4>1
      <4> QED
        BY <4>1, <4>2 DEF B
    <3>3. (S \cup U) \ {t} = S \cup V /\ S \cup U \in SUBSET Txs /\ t \in S \cup U
      BY <3>1
    <3>4. Total(S \cup V) = Total(S) + Total(V)
      BY <3>2
    <3>5. Total(S \cup U) = Size[t] + Total(S \cup V)
      BY <3>1, <3>3, TotalWithout
    <3>6. Total(U) = Size[t] + Total(V)
      BY <3>1, TotalWithout
    <3>7. Total(S) \in Nat /\ Total(V) \in Nat /\ Size[t] \in Nat
      BY <3>1, <3>2, TotalType, TxMemoryAssumption
    <3> HIDE DEF V
    <3>8. Total(S \cup U) = Total(S) + Total(U)
      BY <3>4, <3>5, <3>6, <3>7
    <3> HIDE DEF B
    <3> QED
      BY <2>0, <3>8
  <2> QED
    BY <2>2, <2>3
<1> QED
  BY <1>1

-----------------------------------------------------------------------------
(* What messages one after the other make of a set.                         *)

(* The largest index of a set that holds the last one.                      *)
LEMMA MaxIsLast ==
    ASSUME NEW k \in Nat, NEW t \in SUBSET (1..k), k \in t
    PROVE  Max(t) = k
<1>1. \A y \in t : k >= y /\ y \in Int
  OBVIOUS
<1>2. \A x \in t : (\A y \in t : x >= y) => x = k
  BY <1>1
<1>3. Max(t) \in t /\ \A y \in t : Max(t) >= y
  BY <1>1 DEF Max
<1> QED
  BY <1>2, <1>3

(* u[i]: what the first i messages of q make of b.                          *)
Trace(u, b, q, n) ==
    /\ u[0] = b
    /\ \A i \in 1..n : u[i] = After(u[i - 1], q[i])

LEMMA Folded ==
    ASSUME NEW v, NEW s, NEW n \in Nat, DOMAIN s = 1..n
    PROVE  \E u : Trace(u, v, s, n) /\ FoldLeft(After, v, s) = u[n]
<1> DEFINE op(w, y) == After(w, y)
           R(it, k) == [t \in SUBSET (1..k) |->
                          IF t = {} THEN v ELSE op(it[t \ {Max(t)}], s[Max(t)])]
           R0(it) == [t \in SUBSET DOMAIN s |->
                        IF t = {} THEN v ELSE LET x == Max(t) IN op(it[t \ {x}], s[x])]
           fold == FoldLeft(After, v, s)
           it0 == CHOOSE it : it = R0(it)
<1>1. fold = it0[DOMAIN s]
  <2> QED
    BY DEF op, FoldLeft, MapThenFoldSet
<1> HIDE DEF op, fold
<1>2. \A it : R0(it) = R(it, n)
  OBVIOUS
<1> DEFINE Bad == {k \in 0..n : ~ \E it : it = R(it, k)}
<1>3. Bad = {}
  <2> SUFFICES ASSUME Bad # {} PROVE FALSE
    OBVIOUS
  <2> HIDE DEF R
  <2>1. PICK k \in Bad : \A j \in Bad : k <= j
    <3>1. Bad \in SUBSET Nat
      OBVIOUS
    <3> HIDE DEF Bad
    <3> QED
      BY <3>1, LeastElement
  <2>2. k \in 0..n /\ ~ (\E it : it = R(it, k)) /\ k \in Nat
    OBVIOUS
  <2>3. k # 0
    <3> DEFINE it == [t \in {{}} |-> v]
    <3>1. it = R(it, 0)
      <4>1. SUBSET (1..0) = {{}}
        OBVIOUS
      <4> QED
        BY <4>1 DEF R
    <3> QED
      BY <2>2, <3>1
  <2>4. PICK it : it = R(it, k - 1)
    <3>1. k - 1 \in 0..n /\ k - 1 \notin Bad
      <4> HIDE DEF Bad
      <4>1. k - 1 \in Bad => k <= k - 1
        BY <2>1
      <4> QED
        BY <4>1, <2>2, <2>3
    <3> QED
      BY <3>1
  <2> DEFINE up == [t \in SUBSET (1..k) |->
                      IF k \in t THEN op(it[t \ {k}], s[k]) ELSE it[t]]
  <2>5. \A t \in SUBSET (1..k) : k \notin t => t \in SUBSET (1..(k - 1))
    BY <2>2
  <2>6. \A t \in SUBSET (1..k) : t \ {k} \in SUBSET (1..(k - 1))
    BY <2>2
  <2>7. \A t \in SUBSET (1..(k - 1)) : t \in SUBSET (1..k) /\ k \notin t
    BY <2>2
  <2>8. \A t \in SUBSET (1..k) : 
         up[t] = IF t = {} THEN v ELSE op(up[t \ {Max(t)}], s[Max(t)])
    <3> TAKE t \in SUBSET (1..k)
    <3>1. CASE k \in t
      <4>1. Max(t) = k
        BY <2>2, <3>1, MaxIsLast
      <4>2. up[t \ {k}] = it[t \ {k}]
        BY <2>6
      <4> QED
        BY <3>1, <4>1, <4>2
    <3>2. CASE k \notin t
      <4>1. /\ up[t] = it[t]
            /\ it[t] = IF t = {} THEN v ELSE op(it[t \ {Max(t)}], s[Max(t)])
        BY <2>4, <2>5, <3>2 DEF R
      <4>2. up[t \ {Max(t)}] = it[t \ {Max(t)}]
        BY <2>5, <3>2
      <4> QED
        BY <4>1, <4>2
    <3> QED
      BY <3>1, <3>2
  <2>9. up = R(up, k)
    <3>1. up = [t \in SUBSET (1..k) |-> up[t]]
      OBVIOUS
    <3> HIDE DEF up
    <3> QED
      BY <2>8, <3>1 DEF R
  <2> QED
    BY <2>2, <2>9
<1>4. it0 = R(it0, n)
  <2>1. PICK it : it = R(it, n)
    <3> HIDE DEF R
    <3>1. n \in 0..n /\ n \notin Bad
      <4> HIDE DEF Bad
      <4> QED
        BY <1>3
    <3> QED
      BY <3>1
  <2>2. it0 = CHOOSE it1 : it1 = R(it1, n)
    BY <1>2
  <2> HIDE DEF R, it0
  <2> QED
    BY <2>1, <2>2
<1> HIDE DEF it0
<1> DEFINE u == [i \in 0..n |-> it0[1..i]]
<1>5. u[0] = v
  <2>1. 1..0 = {} /\ {} \in SUBSET (1..n)
    OBVIOUS
  <2> QED
    BY <1>4, <2>1
<1>6. \A i \in 1..n : u[i] = op(u[i - 1], s[i])
  <2> TAKE i \in 1..n
  <2>1. 1..i \in SUBSET (1..n) /\ i \in 1..i /\ i \in Nat /\ i \in 0..n /\ i - 1 \in 0..n
    OBVIOUS
  <2>2. Max(1..i) = i
    BY <2>1, MaxIsLast
  <2>3. (1..i) \ {i} = 1..(i - 1)
    OBVIOUS
  <2>4. it0[1..i] = op(it0[1..(i - 1)], s[i])
    BY <1>4, <2>1, <2>2, <2>3
  <2> QED
    BY <2>1, <2>4
<1>7. fold = u[n]
  BY <1>1
<1> HIDE DEF u
<1>8. Trace(u, v, s, n)
  BY <1>5, <1>6 DEF Trace, op
<1> QED
  BY <1>7, <1>8 DEF fold

LEMMA TraceUnique ==
    ASSUME NEW b, NEW q, NEW n \in Nat, NEW u, NEW t, Trace(u, b, q, n), Trace(t, b, q, n)
    PROVE  u[n] = t[n]
<1> DEFINE Bad == {i \in 0..n : u[i] # t[i]}
<1>1. Bad = {}
  <2> SUFFICES ASSUME Bad # {} PROVE FALSE
    OBVIOUS
  <2>1. PICK i \in Bad : \A j \in Bad : i <= j
    <3>1. Bad \in SUBSET Nat
      OBVIOUS
    <3> HIDE DEF Bad
    <3> QED
      BY <3>1, LeastElement
  <2>2. i \in Nat /\ i \in 0..n /\ u[i] # t[i]
    OBVIOUS
  <2>3. i # 0
    BY <2>2 DEF Trace
  <2>4. i - 1 \in 0..n /\ i \in 1..n /\ i - 1 < i
    BY <2>2, <2>3
  <2>5. u[i - 1] = t[i - 1]
    <3>1. i - 1 \notin Bad
      <4>1. i - 1 \in Bad => i <= i - 1
        BY <2>1
      <4> HIDE DEF Bad
      <4> QED
        BY <4>1, <2>2
    <3> QED
      BY <2>4, <3>1
  <2>6. u[i] = After(u[i - 1], q[i]) /\ t[i] = After(t[i - 1], q[i])
    BY <2>4 DEF Trace
  <2> QED
    BY <2>2, <2>5, <2>6
<1> QED
  BY <1>1

(* A message that the receiver can make sense of, once it has handled those *)
(* before it and X is what it remembers: nothing twice, no more than fits,  *)
(* nothing forgotten that is not remembered, and, where it tells what it    *)
(* loses, nothing named that it cannot look up.                             *)
Proper(X, m) ==
    /\ m.type = "remember" =>
         /\ (m.hashes \cup m.txs) \cap X = {}
         /\ Total(X \cup m.hashes \cup m.txs) <= MaxSize
    /\ m.type = "forget" => m.hashes \subseteq X

Ready(X, m, k, y) ==
    /\ m.type = "remember" => m.hashes \subseteq k \cup y
    /\ m.type = "shares" => m.hashes \subseteq X \cup k \cup y
    /\ ~m.late =>
         /\ m.type = "remember" => m.hashes \subseteq k
         /\ m.type = "shares" => m.hashes \subseteq X \cup k

(* Messages that lead from b to e.                                          *)
Flow(q, b, e, w, k, y) ==
    \E u : /\ Trace(u, b, q, Len(q)) /\ u[Len(q)] = e
           /\ \A i \in 1..Len(q) :
                 Proper(u[i - 1], q[i]) /\ (w => Ready(u[i - 1], q[i], k, y))

MessageSet ==
    [type : {"remember", "forget", "shares"}, hashes : SUBSET Txs, txs : SUBSET Txs,
     late : BOOLEAN]
NoticeSet == [type : {"have", "losing"}, hashes : SUBSET Txs]

LEMMA FlowFolds ==
    ASSUME NEW q \in Seq(MessageSet), NEW b, NEW e, NEW w, NEW k, NEW y,
           Flow(q, b, e, w, k, y)
    PROVE  FoldLeft(After, b, q) = e
<1>1. Len(q) \in Nat /\ DOMAIN q = 1..Len(q)
  OBVIOUS
<1>2. PICK u : Trace(u, b, q, Len(q)) /\ FoldLeft(After, b, q) = u[Len(q)]
  BY <1>1, Folded
<1>3. PICK t : Trace(t, b, q, Len(q)) /\ t[Len(q)] = e
  BY DEF Flow
<1> QED
  BY <1>1, <1>2, <1>3, TraceUnique

LEMMA FlowNone ==
    ASSUME NEW b, NEW w, NEW k, NEW y
    PROVE  Flow(<<>>, b, b, w, k, y)
<1> DEFINE u == [i \in {0} |-> b]
<1>1. Len(<<>>) = 0 /\ 1..0 = {}
  OBVIOUS
<1>2. Trace(u, b, <<>>, 0) /\ u[0] = b
  BY <1>1 DEF Trace
<1> QED
  BY <1>1, <1>2 DEF Flow

LEMMA FlowMore ==
    ASSUME NEW q \in Seq(MessageSet), NEW m \in MessageSet,
           NEW b, NEW e, NEW w, NEW k, NEW y,
           Flow(q, b, e, w, k, y), Proper(e, m), w => Ready(e, m, k, y)
    PROVE  Flow(q \o <<m>>, b, After(e, m), w, k, y)
<1> DEFINE n == Len(q)
           q2 == q \o <<m>>
<1>1. PICK u : /\ Trace(u, b, q, n) /\ u[n] = e
               /\ \A i \in 1..n : Proper(u[i - 1], q[i]) /\ (w => Ready(u[i - 1], q[i], k, y))
  BY DEF Flow
<1> DEFINE t == [i \in 0..(n + 1) |-> IF i = n + 1 THEN After(e, m) ELSE u[i]]
<1>2. n \in Nat /\ Len(q2) = n + 1 /\ q2[n + 1] = m /\ \A i \in 1..n : q2[i] = q[i]
  OBVIOUS
<1>3. t[0] = b /\ t[n] = e /\ t[n + 1] = After(e, m)
  BY <1>1, <1>2 DEF Trace
<1>4. \A i \in 1..n : t[i - 1] = u[i - 1] /\ t[i] = u[i]
  BY <1>2
<1> HIDE DEF t, q2, n
<1>5. Trace(t, b, q2, n + 1)
  <2> SUFFICES ASSUME NEW i \in 1..(n + 1) PROVE t[i] = After(t[i - 1], q2[i])
    BY <1>3 DEF Trace
  <2>1. CASE i = n + 1
    BY <2>1, <1>2, <1>3
  <2>2. CASE i # n + 1
    <3>1. i \in 1..n
      BY <2>2, <1>2
    <3> QED
      BY <3>1, <1>1, <1>2, <1>4 DEF Trace
  <2> QED
    BY <2>1, <2>2
<1>6. ASSUME NEW i \in 1..(n + 1)
      PROVE  Proper(t[i - 1], q2[i]) /\ (w => Ready(t[i - 1], q2[i], k, y))
  <2>1. CASE i = n + 1
    <3>1. i - 1 = n
      BY <2>1, <1>2
    <3> QED
      BY <2>1, <3>1, <1>2, <1>3
  <2>2. CASE i # n + 1
    <3>1. i \in 1..n
      BY <2>2, <1>2
    <3> QED
      BY <3>1, <1>1, <1>2, <1>4
  <2> QED
    BY <2>1, <2>2
<1>7. Flow(q2, b, After(e, m), w, k, y)
  BY <1>2, <1>3, <1>5, <1>6 DEF Flow
<1> QED
  BY <1>7 DEF q2

LEMMA FlowLess ==
    ASSUME NEW q \in Seq(MessageSet), q # <<>>,
           NEW b, NEW e, NEW w, NEW k, NEW y, Flow(q, b, e, w, k, y)
    PROVE  /\ Proper(b, Head(q)) /\ (w => Ready(b, Head(q), k, y))
           /\ Flow(Tail(q), After(b, Head(q)), e, w, k, y)
<1> DEFINE n == Len(q)
           q2 == Tail(q)
<1>1. PICK u : /\ Trace(u, b, q, n) /\ u[n] = e
               /\ \A i \in 1..n : Proper(u[i - 1], q[i]) /\ (w => Ready(u[i - 1], q[i], k, y))
  BY DEF Flow
<1> DEFINE t == [i \in 0..(n - 1) |-> u[i + 1]]
<1>2. /\ n \in Nat /\ n >= 1 /\ Len(q2) = n - 1 /\ Head(q) = q[1]
      /\ \A i \in 1..(n - 1) : q2[i] = q[i + 1]
  OBVIOUS
<1>3. u[0] = b /\ u[1] = After(b, Head(q)) /\ 1 \in 1..n /\ 1 - 1 = 0
  BY <1>1, <1>2 DEF Trace
<1>4. Proper(b, Head(q)) /\ (w => Ready(b, Head(q), k, y))
  BY <1>1, <1>2, <1>3
<1>5. t[0] = After(b, Head(q)) /\ t[n - 1] = e
  BY <1>1, <1>2, <1>3
<1>6. \A i \in 1..(n - 1) : t[i - 1] = u[i] /\ t[i] = u[i + 1] /\ i + 1 \in 1..n /\ (i + 1) - 1 = i
  BY <1>2
<1> HIDE DEF t, q2, n
<1>7. Trace(t, After(b, Head(q)), q2, n - 1)
  BY <1>1, <1>2, <1>5, <1>6 DEF Trace
<1>8. \A i \in 1..(n - 1) : Proper(t[i - 1], q2[i]) /\ (w => Ready(t[i - 1], q2[i], k, y))
  <2> TAKE i \in 1..(n - 1)
  <2>1. t[i - 1] = u[i] /\ i + 1 \in 1..n /\ (i + 1) - 1 = i /\ q2[i] = q[i + 1]
    BY <1>2, <1>6
  <2>2. Proper(u[(i + 1) - 1], q[i + 1]) /\ (w => Ready(u[(i + 1) - 1], q[i + 1], k, y))
    BY <1>1, <2>1
  <2> QED
    BY <2>1, <2>2
<1>9. Flow(q2, After(b, Head(q)), e, w, k, y)
  BY <1>2, <1>5, <1>7, <1>8 DEF Flow
<1> QED
  BY <1>4, <1>9 DEF q2

(* What the receiver knows may grow, and what it drops may be cached.       *)
LEMMA FlowChanges ==
    ASSUME NEW q \in Seq(MessageSet), NEW r \in Seq(MessageSet), Len(r) = Len(q),
           NEW b, NEW e, NEW w, NEW k, NEW y, NEW w2, NEW k2, NEW y2,
           Flow(q, b, e, w, k, y),
           \A i \in 1..Len(q) :
              /\ r[i].type = q[i].type /\ r[i].hashes = q[i].hashes /\ r[i].txs = q[i].txs
              /\ w2 => w /\ \A X : Ready(X, q[i], k, y) => Ready(X, r[i], k2, y2)
    PROVE  Flow(r, b, e, w2, k2, y2)
<1> DEFINE n == Len(q)
<1>1. PICK u : /\ Trace(u, b, q, n) /\ u[n] = e
               /\ \A i \in 1..n : Proper(u[i - 1], q[i]) /\ (w => Ready(u[i - 1], q[i], k, y))
  BY DEF Flow
<1>2. \A i \in 1..n : \A X :
         After(X, r[i]) = After(X, q[i]) /\ Proper(X, r[i]) = Proper(X, q[i])
  BY DEF After, Proper
<1>3. Trace(u, b, r, n)
  BY <1>1, <1>2 DEF Trace
<1>4. \A i \in 1..n : Proper(u[i - 1], r[i]) /\ (w2 => Ready(u[i - 1], r[i], k2, y2))
  BY <1>1, <1>2
<1> QED
  BY <1>1, <1>3, <1>4 DEF Flow

-----------------------------------------------------------------------------
(* What the sender takes for known, and will when it has heard the notices  *)
(* q, is known, or cached while a losing notice is on its way.              *)
NoLosing(q, i) == \A j \in i..Len(q) : q[j].type # "losing"

Told(has, q, k, y) ==
    /\ has \subseteq k \cup y
    /\ NoLosing(q, 1) => has \subseteq k
    /\ \A i \in 1..Len(q) :
         /\ q[i].type = "have" => q[i].hashes \subseteq k \cup y
         /\ q[i].type = "have" /\ NoLosing(q, i) => q[i].hashes \subseteq k
         /\ q[i].type = "losing" => y \subseteq q[i].hashes

LEMMA NoticesFold ==
    ASSUME NEW q \in Seq(NoticeSet), NEW has, NEW k, NEW y, Told(has, q, k, y)
    PROVE  FoldLeft(After, has, q) \subseteq k
<1> DEFINE n == Len(q)
<1>1. n \in Nat /\ DOMAIN q = 1..n /\ \A i \in 1..n : q[i] \in NoticeSet
  OBVIOUS
<1>2. PICK u : Trace(u, has, q, n) /\ FoldLeft(After, has, q) = u[n]
  BY <1>1, Folded
<1> DEFINE Holds(i) == u[i] \subseteq k \cup y /\ (NoLosing(q, i + 1) => u[i] \subseteq k)
           Bad == {i \in 0..n : ~Holds(i)}
<1>3. Bad = {}
  <2> SUFFICES ASSUME Bad # {} PROVE FALSE
    OBVIOUS
  <2>1. PICK i \in Bad : \A j \in Bad : i <= j
    <3>1. Bad \in SUBSET Nat
      OBVIOUS
    <3> HIDE DEF Bad
    <3> QED
      BY <3>1, LeastElement
  <2>2. i \in Nat /\ i \in 0..n /\ ~Holds(i)
    OBVIOUS
  <2>3. i # 0
    <3>1. Holds(0)
      BY <1>2 DEF Trace, Told
    <3> HIDE DEF Holds
    <3> QED
      BY <2>2, <3>1
  <2>4. i - 1 \in 0..n /\ i \in 1..n /\ (i - 1) + 1 = i
    BY <2>2, <2>3
  <2>5. Holds(i - 1)
    <3>1. i - 1 \notin Bad
      <4>1. i - 1 \in Bad => i <= i - 1
        BY <2>1
      <4> HIDE DEF Bad
      <4> QED
        BY <4>1, <2>2
    <3> HIDE DEF Holds
    <3> QED
      BY <2>4, <3>1
  <2>6. u[i - 1] \subseteq k \cup y /\ (NoLosing(q, i) => u[i - 1] \subseteq k)
    BY <2>4, <2>5
  <2>7. u[i] = After(u[i - 1], q[i]) /\ q[i] \in NoticeSet
    BY <1>1, <1>2, <2>4 DEF Trace
  <2>8. NoLosing(q, i + 1) /\ q[i].type # "losing" => NoLosing(q, i)
    BY <2>2 DEF NoLosing
  <2>9. CASE q[i].type = "have"
    <3>1. u[i] = u[i - 1] \cup q[i].hashes
      BY <2>7, <2>9 DEF After
    <3>2. Holds(i)
      BY <2>4, <2>6, <2>8, <2>9, <3>1 DEF Told
    <3> HIDE DEF Holds
    <3> QED
      BY <2>2, <3>2
  <2>10. CASE q[i].type = "losing"
    <3>1. u[i] = u[i - 1] \ q[i].hashes
      BY <2>7, <2>10 DEF After
    <3>2. Holds(i)
      BY <2>4, <2>6, <2>10, <3>1 DEF Told
    <3> HIDE DEF Holds
    <3> QED
      BY <2>2, <3>2
  <2> QED
    BY <2>7, <2>9, <2>10 DEF NoticeSet
<1>4. Holds(n)
  <2> HIDE DEF Holds
  <2> QED
    BY <1>1, <1>3
<1>5. NoLosing(q, n + 1)
  BY <1>1 DEF NoLosing
<1> QED
  BY <1>2, <1>4, <1>5

LEMMA ToldLess ==
    ASSUME NEW q \in Seq(NoticeSet), q # <<>>, NEW has, NEW has2, NEW k, NEW y,
           Told(has, q, k, y),
           IF Head(q).type = "have" THEN has2 \subseteq has \cup Head(q).hashes
           ELSE has2 = has \ Head(q).hashes
    PROVE  Told(has2, Tail(q), k, y)
<1> DEFINE r == Tail(q)
           n == Len(q)
<1>1. /\ n \in Nat /\ n >= 1 /\ Len(r) = n - 1 /\ Head(q) = q[1] /\ q[1] \in NoticeSet
      /\ \A i \in 1..(n - 1) : r[i] = q[i + 1]
  OBVIOUS
<1> HIDE DEF r, n
<1>2. \A i \in 1..n : NoLosing(r, i) => NoLosing(q, i + 1)
  <2> SUFFICES ASSUME NEW i \in 1..n, NoLosing(r, i), NEW j \in (i + 1)..n
               PROVE  q[j].type # "losing"
    BY DEF NoLosing, n
  <2>1. j - 1 \in i..(n - 1) /\ j - 1 \in 1..(n - 1) /\ (j - 1) + 1 = j
    BY <1>1
  <2>2. r[j - 1] = q[j]
    BY <1>1, <2>1
  <2> QED
    BY <1>1, <2>1, <2>2 DEF NoLosing
<1>3. ASSUME NEW i \in 1..Len(r)
      PROVE /\ r[i].type = "have" => r[i].hashes \subseteq k \cup y
            /\ r[i].type = "have" /\ NoLosing(r, i) => r[i].hashes \subseteq k
            /\ r[i].type = "losing" => y \subseteq r[i].hashes
  <2>1. i + 1 \in 1..n /\ i \in 1..n /\ r[i] = q[i + 1]
    BY <1>1
  <2> QED
    BY <1>2, <2>1 DEF Told, n
<1>4. NoLosing(r, 1) => NoLosing(q, 2)
  <2>1. 1 \in 1..n /\ 1 + 1 = 2
    BY <1>1
  <2> QED
    BY <1>2, <2>1
<1>5. NoLosing(q, 2) /\ q[1].type # "losing" => NoLosing(q, 1)
  BY <1>1 DEF NoLosing, n
<1>6. CASE q[1].type = "have"
  <2>1. 1 \in 1..Len(q) /\ has2 \subseteq has \cup q[1].hashes
    BY <1>1, <1>6 DEF n
  <2> QED
    BY <1>3, <1>4, <1>5, <1>6, <2>1 DEF Told, r
<1>7. CASE q[1].type # "have"
  <2>1. 1 \in 1..Len(q) /\ has2 = has \ q[1].hashes /\ q[1].type = "losing"
    BY <1>1, <1>7 DEF n, NoticeSet
  <2>2. has2 \subseteq k
    BY <2>1 DEF Told
  <2> QED
    BY <1>3, <2>2 DEF Told, r
<1> QED
  BY <1>6, <1>7

LEMMA ToldMore ==
    ASSUME NEW q \in Seq(NoticeSet), NEW has, NEW k, NEW y, Told(has, q, k, y),
           NEW k2, k \subseteq k2, NEW S \in SUBSET Txs, S \subseteq k2
    PROVE  /\ q \o Notice("have", S) \in Seq(NoticeSet)
           /\ Told(has, q \o Notice("have", S), k2, y)
<1>1. Told(has, q, k2, y)
  BY DEF Told
<1>2. CASE S = {}
  <2>1. q \o Notice("have", S) = q
    BY <1>2 DEF Notice
  <2> QED
    BY <1>1, <2>1
<1>3. CASE S # {}
  <2> DEFINE m == [type |-> "have", hashes |-> S]
             r == q \o <<m>>
             n == Len(q)
  <2>1. Notice("have", S) = <<m>> /\ m \in NoticeSet /\ m.type = "have" /\ m.hashes = S
    BY <1>3 DEF Notice, NoticeSet
  <2> HIDE DEF m
  <2>2. n \in Nat /\ r \in Seq(NoticeSet) /\ Len(r) = n + 1
        /\ r[n + 1] = m /\ \A i \in 1..n : r[i] = q[i]
    BY <2>1
  <2> HIDE DEF r, n
  <2>3. \A i \in 1..(n + 1) : NoLosing(r, i) => NoLosing(q, i)
    BY <2>2 DEF NoLosing, n
  <2>4. 1 \in 1..(n + 1)
    BY <2>2
  <2>5. ASSUME NEW i \in 1..Len(r)
        PROVE /\ r[i].type = "have" => r[i].hashes \subseteq k2 \cup y
              /\ r[i].type = "have" /\ NoLosing(r, i) => r[i].hashes \subseteq k2
              /\ r[i].type = "losing" => y \subseteq r[i].hashes
    <3>1. CASE i = n + 1
      BY <2>1, <2>2, <3>1
    <3>2. CASE i # n + 1
      <4>1. i \in 1..Len(q) /\ i \in 1..(n + 1) /\ r[i] = q[i]
        BY <2>2, <3>2 DEF n
      <4> QED
        BY <1>1, <2>3, <4>1 DEF Told
    <3> QED
      BY <3>1, <3>2
  <2>6. Told(has, r, k2, y)
    BY <1>1, <2>3, <2>4, <2>5 DEF Told
  <2> QED
    BY <2>1, <2>2, <2>6 DEF r
<1> QED
  BY <1>2, <1>3

LEMMA NoticeIn ==
    ASSUME NEW type \in {"have", "losing"}, NEW S \in SUBSET Txs
    PROVE  Notice(type, S) \in Seq(NoticeSet)
<1>1. CASE S = {}
  BY <1>1 DEF Notice
<1>2. CASE S # {}
  <2> DEFINE m == [type |-> type, hashes |-> S]
  <2>1. Notice(type, S) = <<m>> /\ m \in NoticeSet
    BY <1>2 DEF Notice, NoticeSet
  <2> HIDE DEF m
  <2> QED
    BY <2>1
<1> QED
  BY <1>1, <1>2

(* forget_old_txs, when no losing notice is on its way.                     *)
LEMMA ToldForgets ==
    ASSUME NEW q \in Seq(NoticeSet), NEW has, NEW k \in SUBSET Txs, NEW y, Told(has, q, k, y),
           NoLosing(q, 1), NEW a \in SUBSET Txs
    PROVE  LET r == q \o (Notice("have", a \ k) \o Notice("losing", k \ a))
           IN r \in Seq(NoticeSet) /\ Told(has, r, a, k \ a)
<1> DEFINE y2 == k \ a
           h == Notice("have", a \ k)
           q2 == q \o h
<1>1. has \subseteq k /\ \A i \in 1..Len(q) :
         q[i].type # "losing" /\ (q[i].type = "have" => q[i].hashes \subseteq k)
  <2>1. \A i \in 1..Len(q) : NoLosing(q, i) /\ q[i].type # "losing"
    BY DEF NoLosing
  <2> QED
    BY <2>1 DEF Told
<1>2. Told(has, q, a \cup k, {})
  BY <1>1 DEF Told
<1>3. q2 \in Seq(NoticeSet) /\ Told(has, q2, a \cup k, {})
  <2>1. a \cup k \subseteq a \cup k /\ a \ k \in SUBSET Txs /\ a \ k \subseteq a \cup k
    OBVIOUS
  <2> QED
    BY <1>2, <2>1, ToldMore
<1>4. NoLosing(q2, 1)
  <2>1. CASE a \ k = {}
    BY <2>1 DEF Notice
  <2>2. CASE a \ k # {}
    <3> DEFINE m == [type |-> "have", hashes |-> a \ k]
    <3>1. h = <<m>> /\ m.type = "have"
      <4>1. h = <<m>>
        BY <2>2 DEF Notice
      <4> QED
        BY <4>1
    <3> HIDE DEF m, h
    <3>2. Len(q2) = Len(q) + 1 /\ q2[Len(q) + 1] = m /\ \A i \in 1..Len(q) : q2[i] = q[i]
      BY <3>1
    <3> HIDE DEF q2
    <3> QED
      BY <3>1, <3>2 DEF NoLosing
  <2> QED
    BY <2>1, <2>2
<1> HIDE DEF q2
<1>5. has \subseteq a \cup k /\ \A i \in 1..Len(q2) :
         q2[i].type # "losing" /\ (q2[i].type = "have" => q2[i].hashes \subseteq a \cup k)
  <2>1. \A i \in 1..Len(q2) : NoLosing(q2, i) /\ q2[i].type # "losing"
    BY <1>4 DEF NoLosing
  <2> QED
    BY <1>3, <1>4, <2>1 DEF Told
<1>6. CASE y2 = {}
  <2>0. h \in Seq(NoticeSet)
    BY NoticeIn
  <2>1. a \cup k = a
    BY <1>6
  <2>2. Told(has, q2, a, y2)
    BY <1>5, <2>1 DEF Told
  <2>3. q \o (h \o Notice("losing", y2)) = q2
    <3>1. h \in Seq(NoticeSet)
      BY <2>0
    <3>2. Notice("losing", y2) = <<>>
      BY <1>6 DEF Notice
    <3> HIDE DEF h, y2
    <3> QED
      BY <3>1, <3>2 DEF q2
  <2> QED
    BY <1>3, <2>2, <2>3
<1>7. CASE y2 # {}
  <2> DEFINE m == [type |-> "losing", hashes |-> y2]
             r == q2 \o <<m>>
             n == Len(q2)
  <2>1. Notice("losing", y2) = <<m>> /\ m \in NoticeSet /\ m.type = "losing" /\ m.hashes = y2
    BY <1>7 DEF Notice, NoticeSet
  <2>2. q \o (h \o Notice("losing", y2)) = r
    <3>1. h \in Seq(NoticeSet)
      BY NoticeIn
    <3> HIDE DEF h, m, y2
    <3>2. <<m>> \in Seq(NoticeSet)
      BY <2>1
    <3>3. q \o (h \o <<m>>) = (q \o h) \o <<m>>
      BY <3>1, <3>2, ConcatAssociative
    <3> QED
      BY <2>1, <3>3 DEF q2
  <2> HIDE DEF m
  <2>3. n \in Nat /\ r \in Seq(NoticeSet) /\ Len(r) = n + 1
        /\ r[n + 1] = m /\ \A i \in 1..n : r[i] = q2[i]
    BY <1>3, <2>1
  <2> HIDE DEF r, n
  <2>4. \A i \in 1..(n + 1) : ~NoLosing(r, i)
    BY <2>1, <2>3 DEF NoLosing
  <2>5. ASSUME NEW i \in 1..Len(r)
        PROVE /\ r[i].type = "have" => r[i].hashes \subseteq a \cup y2
              /\ r[i].type = "losing" => y2 \subseteq r[i].hashes
    <3>1. CASE i = n + 1
      BY <2>1, <2>3, <3>1
    <3>2. CASE i # n + 1
      <4>1. i \in 1..Len(q2) /\ r[i] = q2[i]
        BY <2>3, <3>2 DEF n
      <4> QED
        BY <1>5, <4>1
    <3> QED
      BY <3>1, <3>2
  <2>6. 1 \in 1..(n + 1)
    BY <2>3
  <2>7. Told(has, r, a, y2)
    BY <1>5, <2>3, <2>4, <2>5, <2>6 DEF Told
  <2> QED
    BY <2>2, <2>3, <2>7
<1> QED
  BY <1>6, <1>7

-----------------------------------------------------------------------------
(* What is sent.                                                            *)
Late == \E i \in DOMAIN toSender : toSender[i].type = "losing"

LEMMA MessageIn ==
    ASSUME NEW type \in {"remember", "forget", "shares"},
           NEW H \in SUBSET Txs, NEW T \in SUBSET Txs, NEW m, m = Message(type, H, T)
    PROVE  /\ m \in MessageSet /\ m.type = type /\ m.hashes = H /\ m.txs = T
           /\ m.late = Late
<1>1. Late \in BOOLEAN
  BY DEF Late
<1>2. m = [type |-> type, hashes |-> H, txs |-> T, late |-> Late]
  BY DEF Message, Late
<1> QED
  BY <1>1, <1>2 DEF MessageSet

LEMMA NotLate ==
    ASSUME toSender \in Seq(NoticeSet), NEW has, NEW k, NEW y, Told(has, toSender, k, y)
    PROVE  has \subseteq k \cup y /\ (~Late => has \subseteq k)
<1>1. ~Late => NoLosing(toSender, 1)
  BY DEF Late, NoLosing
<1> QED
  BY <1>1 DEF Told

LEMMA FlowRemember ==
    ASSUME NEW q \in Seq(MessageSet), NEW b, NEW e \in SUBSET Txs, NEW w, NEW k, NEW y,
           Flow(q, b, e, w, k, y), NEW H \in SUBSET Txs, NEW T \in SUBSET Txs,
           (H \cup T) \cap e = {}, Total(e \cup H \cup T) <= MaxSize,
           w => H \subseteq k \cup y /\ (~Late => H \subseteq k)
    PROVE  /\ Remember(H, T) \in Seq(MessageSet)
           /\ q \o Remember(H, T) \in Seq(MessageSet)
           /\ Flow(q \o Remember(H, T), b, e \cup H \cup T, w, k, y)
<1>1. CASE H \cup T = {}
  <2>1. Remember(H, T) = <<>>
    BY <1>1 DEF Remember
  <2>2. q \o <<>> = q
    OBVIOUS
  <2>3. e \cup H \cup T = e
    BY <1>1
  <2>4. Flow(q \o <<>>, b, e \cup H \cup T, w, k, y)
    BY <2>2, <2>3
  <2>5. <<>> \in Seq(MessageSet) /\ q \o <<>> \in Seq(MessageSet)
    BY <2>2
  <2> QED
    BY <2>1, <2>4, <2>5
<1>2. CASE H \cup T # {}
  <2> DEFINE m == Message("remember", H, T)
  <2>1. Remember(H, T) = <<m>>
    BY <1>2 DEF Remember
  <2>2. m \in MessageSet /\ m.type = "remember" /\ m.hashes = H /\ m.txs = T /\ m.late = Late
    BY MessageIn
  <2> HIDE DEF m
  <2>3. After(e, m) = e \cup H \cup T
    BY <2>2 DEF After
  <2>4. Proper(e, m)
    BY <2>2 DEF Proper
  <2>5. w => Ready(e, m, k, y)
    BY <2>2 DEF Ready
  <2>6. q \o <<m>> \in Seq(MessageSet) /\ <<m>> \in Seq(MessageSet)
    BY <2>2
  <2>7. Flow(q \o <<m>>, b, After(e, m), w, k, y)
    BY <2>2, <2>4, <2>5, FlowMore
  <2> QED
    BY <2>1, <2>3, <2>6, <2>7
<1> QED
  BY <1>1, <1>2

LEMMA FlowForget ==
    ASSUME NEW q \in Seq(MessageSet), NEW b, NEW e \in SUBSET Txs, NEW w, NEW k, NEW y,
           Flow(q, b, e, w, k, y), NEW H \in SUBSET Txs, H \subseteq e
    PROVE  /\ Forget(H) \in Seq(MessageSet)
           /\ q \o Forget(H) \in Seq(MessageSet)
           /\ Flow(q \o Forget(H), b, e \ H, w, k, y)
<1>1. CASE H = {}
  <2>1. Forget(H) = <<>>
    BY <1>1 DEF Forget
  <2>2. q \o <<>> = q
    OBVIOUS
  <2>3. e \ H = e
    BY <1>1
  <2>4. Flow(q \o <<>>, b, e \ H, w, k, y)
    BY <2>2, <2>3
  <2>5. <<>> \in Seq(MessageSet) /\ q \o <<>> \in Seq(MessageSet)
    BY <2>2
  <2> QED
    BY <2>1, <2>4, <2>5
<1>2. CASE H # {}
  <2> DEFINE m == Message("forget", H, {})
  <2>1. Forget(H) = <<m>>
    BY <1>2 DEF Forget
  <2>2. m \in MessageSet /\ m.type = "forget" /\ m.hashes = H
    BY MessageIn
  <2> HIDE DEF m
  <2>3. After(e, m) = e \ H
    BY <2>2 DEF After
  <2>4. Proper(e, m)
    BY <2>2 DEF Proper
  <2>5. Ready(e, m, k, y)
    BY <2>2 DEF Ready
  <2>6. q \o <<m>> \in Seq(MessageSet) /\ <<m>> \in Seq(MessageSet)
    BY <2>2
  <2>7. Flow(q \o <<m>>, b, After(e, m), w, k, y)
    BY <2>2, <2>4, <2>5, FlowMore
  <2> QED
    BY <2>1, <2>3, <2>6, <2>7
<1> QED
  BY <1>1, <1>2

Lookable(w, S, e, k, y) == w => S \subseteq e \cup k \cup y /\ (~Late => S \subseteq e \cup k)

LEMMA FlowShares ==
    ASSUME NEW q \in Seq(MessageSet), NEW b, NEW e \in SUBSET Txs, NEW w, NEW k, NEW y,
           Flow(q, b, e, w, k, y), NEW S \in SUBSET Txs,
           Lookable(w, S, e, k, y)
    PROVE  /\ <<Message("shares", S, {})>> \in Seq(MessageSet)
           /\ q \o <<Message("shares", S, {})>> \in Seq(MessageSet)
           /\ Flow(q \o <<Message("shares", S, {})>>, b, e, w, k, y)
<1> DEFINE m == Message("shares", S, {})
<1>2. m \in MessageSet /\ m.type = "shares" /\ m.hashes = S /\ m.late = Late
  BY MessageIn
<1> HIDE DEF m
<1>3. After(e, m) = e
  BY <1>2 DEF After
<1>4. Proper(e, m)
  BY <1>2 DEF Proper
<1>5. w => Ready(e, m, k, y)
  BY <1>2 DEF Ready, Lookable
<1>6. q \o <<m>> \in Seq(MessageSet) /\ <<m>> \in Seq(MessageSet)
  BY <1>2
<1>7. Flow(q \o <<m>>, b, After(e, m), w, k, y)
  BY <1>2, <1>4, <1>5, FlowMore
<1> QED
  BY <1>3, <1>6, <1>7 DEF m

-----------------------------------------------------------------------------
(* The inductive invariant.  While two peers are connected, the messages on *)
(* their way lead from what is remembered to what is mined (Agreed).  While *)
(* the receiver is told what it forgets, what the sender takes for known is *)
(* known, but for what is cached and has its losing notice on its way       *)
(* (Heard), and what is remembered can be looked up (Kept).                 *)
MTyped ==
    /\ mining \in SUBSET Txs /\ remoteHas \in SUBSET Txs /\ remoteSize \in Int
    /\ known \in SUBSET Txs /\ remembered \in SUBSET Txs /\ size \in Int
    /\ young \in SUBSET Txs /\ old \in SUBSET Txs /\ watching \in BOOLEAN
    /\ toPeer \in Seq(MessageSet) /\ toSender \in Seq(NoticeSet)

Heard == Connected /\ watching => Told(remoteHas, toSender, known, young)

Agreed ==
    Connected =>
       /\ remoteSize = Total(mining) /\ Total(mining) <= MaxSize
       /\ size = Total(remembered)
       /\ Flow(toPeer, remembered, mining, watching, known, young)

Kept == Connected /\ watching => remembered \subseteq known \cup young

(* What new_mining_txs asserts of a block (p2p.py:245).                      *)
TemplatesFit == \A T \in Templates : Total(T) <= MaxSize

(* Sent messages and notices are messages and notices.                      *)
LEMMA SentIn ==
    ASSUME NEW H \in SUBSET Txs, NEW T \in SUBSET Txs
    PROVE  /\ Remember(H, T) \in Seq(MessageSet) /\ Forget(H) \in Seq(MessageSet)
           /\ <<Message("shares", H, {})>> \in Seq(MessageSet)
<1> DEFINE r == Message("remember", H, T)
           f == Message("forget", H, {})
           s == Message("shares", H, {})
<1>1. r \in MessageSet
  BY MessageIn
<1>2. f \in MessageSet
  BY MessageIn
<1>3. s \in MessageSet
  BY MessageIn
<1> HIDE DEF r, f, s
<1>4. <<r>> \in Seq(MessageSet) /\ <<f>> \in Seq(MessageSet) /\ <<s>> \in Seq(MessageSet)
      /\ <<>> \in Seq(MessageSet)
  BY <1>1, <1>2, <1>3
<1>5. Remember(H, T) = <<>> \/ Remember(H, T) = <<r>>
  BY DEF Remember, r
<1>6. Forget(H) = <<>> \/ Forget(H) = <<f>>
  BY DEF Forget, f
<1> QED
  BY <1>4, <1>5, <1>6 DEF s

LEMMA LearnTypes ==
    ASSUME MTyped, NEW S \in SUBSET Txs, Learn(S)
    PROVE  /\ known' \in SUBSET Txs /\ known \subseteq known' /\ S \subseteq known'
           /\ toSender' = toSender \o Notice("have", S \ known)
           /\ toSender' \in Seq(NoticeSet)
<1>1. S \ known \in SUBSET Txs
  OBVIOUS
<1>2. Notice("have", S \ known) \in Seq(NoticeSet)
  BY <1>1, NoticeIn
<1>3. toSender' = toSender \o Notice("have", S \ known)
  BY DEF Learn, Tell
<1>4. toSender' \in Seq(NoticeSet)
  <2> DEFINE n == Notice("have", S \ known)
  <2> HIDE DEF n
  <2>1. toSender \in Seq(NoticeSet) /\ n \in Seq(NoticeSet) /\ toSender' = toSender \o n
    BY <1>2, <1>3 DEF MTyped, n
  <2> QED
    BY <2>1
<1> QED
  BY <1>3, <1>4 DEF MTyped, Learn

-----------------------------------------------------------------------------
(* What packetReceived may do with a message: refuse it, or do as it says.   *)
Refused(m) ==
    /\ ~Connected' /\ UNCHANGED <<receiver, toSender>>
    /\ \/ m.type = "remember" /\ (m.hashes \cup m.txs) \cap remembered # {}
       \/ m.type \in {"remember", "shares"} /\ ~ m.hashes \subseteq CanLookUp
       \/ m.type = "forget" /\ ~ m.hashes \subseteq remembered

Followed(m) ==
    \/ /\ m.type = "remember" /\ (m.hashes \cup m.txs) \cap remembered = {}
       /\ remembered' = remembered \cup (m.hashes \cup m.txs)
       /\ size' = size + Total(m.hashes \cup m.txs)
       /\ verdict' = verdict \/ (size' >= MaxSize /\ ~Connected')
       /\ Learn(m.txs) /\ UNCHANGED <<young, old, watching>>
    \/ /\ m.type = "forget" /\ m.hashes \subseteq remembered
       /\ remembered' = remembered \ m.hashes
       /\ size' = size - Total(m.hashes)
       /\ UNCHANGED <<known, young, old, watching, toSender, verdict>>
    \/ /\ m.type = "shares" /\ Learn(m.hashes)
       /\ UNCHANGED <<remembered, size, young, old, watching, verdict>>

LEMMA Handled ==
    ASSUME MTyped, messageReceived
    PROVE  /\ Head(toPeer) \in MessageSet /\ Connected /\ toPeer # <<>>
           /\ toPeer' = Tail(toPeer) /\ UNCHANGED sender
           /\ Refused(Head(toPeer)) \/ Followed(Head(toPeer))
<1> DEFINE m == Head(toPeer)
<1>1. toPeer # <<>> /\ m \in MessageSet
  BY DEF messageReceived, MTyped
<1>2. handle(m)
  BY DEF messageReceived
<1>3. m.type \in {"remember", "forget", "shares"}
  BY <1>1 DEF MessageSet
<1>4. Connected /\ toPeer' = Tail(toPeer) /\ UNCHANGED sender
  BY DEF messageReceived
<1> HIDE DEF m
<1>5. /\ Refuse("referenced transaction twice") =>
            ~Connected' /\ UNCHANGED <<receiver, toSender>>
      /\ Refuse("referenced unknown transaction") =>
            ~Connected' /\ UNCHANGED <<receiver, toSender>>
      /\ Refuse("KeyError") =>
            ~Connected' /\ UNCHANGED <<receiver, toSender>>
  BY Zenon DEF Refuse, Connected
<1>6. \A v : v = "too much transaction data stored" => v # "connected"
  BY Zenon
<1>7. ASSUME m.type = "remember" PROVE Refused(m) \/ Followed(m)
  <2>1. handle_remember_tx(m)
    BY <1>2, <1>7 DEF handle
  <2>2. (m.hashes \cup m.txs) \cap remembered # {} => Refused(m)
    BY <1>5, <1>7, <2>1, Zenon DEF handle_remember_tx, Refused
  <2>3. (m.hashes \cup m.txs) \cap remembered = {} /\ ~ m.hashes \subseteq CanLookUp => Refused(m)
    BY <1>5, <1>7, <2>1, Zenon DEF handle_remember_tx, Refused
  <2>4. (m.hashes \cup m.txs) \cap remembered = {} /\ m.hashes \subseteq CanLookUp => Followed(m)
    BY <1>6, <1>7, <2>1, Zenon DEF handle_remember_tx, Followed, Connected
  <2> QED
    BY <2>2, <2>3, <2>4
<1>8. ASSUME m.type = "forget" PROVE Refused(m) \/ Followed(m)
  <2>1. handle_forget_tx(m)
    BY <1>2, <1>8, Zenon DEF handle
  <2>2. ~ m.hashes \subseteq remembered => Refused(m)
    BY <1>5, <1>8, <2>1, Zenon DEF handle_forget_tx, Refused
  <2>3. m.hashes \subseteq remembered => Followed(m)
    BY <1>8, <2>1, Zenon DEF handle_forget_tx, Followed
  <2> QED
    BY <2>2, <2>3
<1>9. ASSUME m.type = "shares" PROVE Refused(m) \/ Followed(m)
  <2>1. handle_shares(m)
    BY <1>2, <1>9, Zenon DEF handle
  <2>2. ~ m.hashes \subseteq CanLookUp => Refused(m)
    BY <1>5, <1>9, <2>1, Zenon DEF handle_shares, Refused
  <2>3. m.hashes \subseteq CanLookUp => Followed(m)
    BY <1>9, <2>1, Zenon DEF handle_shares, Followed
  <2> QED
    BY <2>2, <2>3
<1>10. Refused(m) \/ Followed(m)
  BY <1>3, <1>7, <1>8, <1>9
<1> QED
  BY <1>1, <1>4, <1>10, Zenon DEF m

LEMMA MInitial ==
    ASSUME MInit
    PROVE  MTyped /\ Heard /\ Agreed /\ Kept /\ WatchedNeverAccused
<1>1. /\ mining = {} /\ remoteHas = {} /\ remoteSize = 0
      /\ known = {} /\ remembered = {} /\ size = 0 /\ young = {} /\ old = {}
      /\ watching = FALSE /\ toPeer = <<>> /\ toSender = <<>>
  BY Zenon DEF MInit
<1>2. MTyped
  <2>1. <<>> \in Seq(MessageSet) /\ <<>> \in Seq(NoticeSet)
    OBVIOUS
  <2>2. toPeer \in Seq(MessageSet) /\ toSender \in Seq(NoticeSet)
    BY <1>1, <2>1
  <2>3. watching \in BOOLEAN
    BY <1>1
  <2>4. /\ mining \in SUBSET Txs /\ remoteHas \in SUBSET Txs /\ remoteSize \in Int
        /\ known \in SUBSET Txs /\ remembered \in SUBSET Txs /\ size \in Int
        /\ young \in SUBSET Txs /\ old \in SUBSET Txs
    BY <1>1
  <2> QED
    BY <2>2, <2>3, <2>4 DEF MTyped
<1>3. verdict = "not connected"
  BY Zenon DEF MInit
<1>4. ~Connected
  BY <1>3, Zenon DEF Connected
<1>5. NeverAccused
  BY <1>3, Zenon DEF NeverAccused
<1> QED
  BY <1>2, <1>4, <1>5 DEF Heard, Agreed, Kept, WatchedNeverAccused

LEMMA MTypedStep ==
    ASSUME MTyped, [MNext]_mvars
    PROVE  MTyped'
<1> USE DEF sender, receiver
<1>0. \A S \in SUBSET Txs : Total(S) \in Int
  BY TotalType
<1>1. ASSUME NEW T \in Templates, new_mining_txs(T) PROVE MTyped'
  <2> DEFINE removed == mining \ T
             added == T \ mining
             H == added \cap remoteHas
             G == added \ remoteHas
             f == Forget(removed)
             r == IF remoteSize - Total(removed) + Total(added) <= MaxSize
                  THEN Remember(H, G) ELSE <<>>
  <2>1. T \in SUBSET Txs /\ removed \in SUBSET Txs /\ added \in SUBSET Txs
        /\ H \in SUBSET Txs /\ G \in SUBSET Txs
    BY TxMemoryAssumption DEF MTyped
  <2>2. remoteSize' \in Int
    <3>1. remoteSize' = remoteSize - Total(removed) + Total(added)
      BY <1>1 DEF new_mining_txs, update_remote_view
    <3> HIDE DEF removed, added
    <3> QED
      BY <1>0, <2>1, <3>1 DEF MTyped
  <2>3. f \in Seq(MessageSet) /\ r \in Seq(MessageSet)
    <3>1. Remember(H, G) \in Seq(MessageSet) /\ Forget(removed) \in Seq(MessageSet)
      BY <2>1, SentIn
    <3> QED
      BY <3>1
  <2>4. toPeer' = toPeer \o (f \o r)
    BY <1>1 DEF new_mining_txs, update_remote_view, Send
  <2>5. toPeer' \in Seq(MessageSet)
    <3> HIDE DEF f, r
    <3> QED
      BY <2>3, <2>4 DEF MTyped
  <2> QED
    BY <1>1, <2>1, <2>2, <2>5 DEF new_mining_txs, update_remote_view, Send, MTyped
<1>2. ASSUME NEW S \in SUBSET Txs, sendShares(S) PROVE MTyped'
  <2> DEFINE H == HashesToSend(S)
             r == Remember({}, H)
             s == <<Message("shares", S, {})>>
             f == Forget(H)
  <2>1. H \in SUBSET Txs
    BY DEF HashesToSend
  <2>2. r \in Seq(MessageSet) /\ f \in Seq(MessageSet)
    BY <2>1, SentIn
  <2>3. s \in Seq(MessageSet)
    BY SentIn
  <2>4. toPeer' = toPeer \o (r \o s \o f) /\ UNCHANGED <<receiver, toSender, sender>>
    BY <1>2 DEF sendShares, Send
  <2>5. toPeer' \in Seq(MessageSet)
    <3> HIDE DEF r, s, f
    <3> QED
      BY <2>2, <2>3, <2>4 DEF MTyped
  <2> QED
    BY <2>4, <2>5 DEF MTyped
<1>3. ASSUME handle_notice PROVE MTyped'
  <2>1. Head(toSender) \in NoticeSet /\ Tail(toSender) \in Seq(NoticeSet)
    BY <1>3 DEF handle_notice, MTyped
  <2>2. remoteHas' \in SUBSET Txs
    BY <1>3, <2>1 DEF handle_notice, hear, MTyped, NoticeSet
  <2> QED
    BY <1>3, <2>1, <2>2 DEF handle_notice, MTyped
<1>4. ASSUME messageReceived PROVE MTyped'
  <2> DEFINE m == Head(toPeer)
  <2>1. /\ m \in MessageSet /\ toPeer # <<>> /\ toPeer' = Tail(toPeer)
        /\ UNCHANGED sender
        /\ Refused(m) \/ Followed(m)
    BY <1>4, Handled
  <2>2. m.hashes \in SUBSET Txs /\ m.txs \in SUBSET Txs
    BY <2>1 DEF MessageSet
  <2>3. toPeer' \in Seq(MessageSet)
    BY <2>1 DEF MTyped
  <2>4. Total(m.hashes \cup m.txs) \in Int /\ Total(m.hashes) \in Int
    BY <1>0, <2>2
  <2>5. \A X \in SUBSET Txs : Learn(X) => known' \in SUBSET Txs /\ toSender' \in Seq(NoticeSet)
    BY LearnTypes
  <2> HIDE DEF m
  <2>6. CASE Refused(m)
    BY <2>1, <2>3, <2>6 DEF MTyped, Refused
  <2>7. CASE Followed(m)
    BY <2>1, <2>2, <2>3, <2>4, <2>5, <2>7 DEF MTyped, Followed
  <2> QED
    BY <2>1, <2>6, <2>7
<1>5. ASSUME NEW t \in Txs, new_tx(t) PROVE MTyped'
  <2>1. Learn({t}) /\ {t} \in SUBSET Txs
    BY <1>5 DEF new_tx
  <2>2. known' \in SUBSET Txs /\ toSender' \in Seq(NoticeSet)
    BY <2>1, LearnTypes
  <2> QED
    BY <1>5, <2>2 DEF new_tx, MTyped
<1>6. ASSUME NEW keep \in SUBSET known, forget_old_txs(keep) PROVE MTyped'
  <2> DEFINE after == KnownAfter(keep)
             h == Notice("have", after \ known)
             l == Notice("losing", known \ after)
  <2>1. after \in SUBSET Txs /\ after \ known \in SUBSET Txs /\ known \ after \in SUBSET Txs
    BY DEF KnownAfter, MTyped
  <2>2. h \in Seq(NoticeSet) /\ l \in Seq(NoticeSet)
    BY <2>1, NoticeIn
  <2>3. toSender \o (h \o l) \in Seq(NoticeSet)
    <3> HIDE DEF h, l
    <3> QED
      BY <2>2 DEF MTyped
  <2>4. [i \in DOMAIN toPeer |-> [toPeer[i] EXCEPT !.late = TRUE]] \in Seq(MessageSet)
    <3> DEFINE f == [i \in 1..Len(toPeer) |-> [toPeer[i] EXCEPT !.late = TRUE]]
    <3>1. Len(toPeer) \in Nat /\ DOMAIN toPeer = 1..Len(toPeer)
          /\ \A i \in 1..Len(toPeer) : toPeer[i] \in MessageSet
      BY DEF MTyped
    <3>2. \A i \in 1..Len(toPeer) : f[i] \in MessageSet
      BY <3>1 DEF MessageSet
    <3>3. f \in [1..Len(toPeer) -> MessageSet]
      BY <3>2
    <3> HIDE DEF f
    <3>4. f \in Seq(MessageSet)
      BY <3>1, <3>3
    <3> QED
      BY <3>1, <3>4 DEF f
  <2>5. /\ known' = after /\ old' = young
        /\ \/ toSender' = toSender \o (h \o l) /\ young' = known \ after
           \/ young' = {} /\ UNCHANGED toSender
        /\ \/ UNCHANGED toPeer
           \/ toPeer' = [i \in DOMAIN toPeer |-> [toPeer[i] EXCEPT !.late = TRUE]]
        /\ UNCHANGED <<sender, remembered, size, watching>>
    BY <1>6 DEF forget_old_txs, Tell
  <2> HIDE DEF after, h, l
  <2> QED
    BY <2>1, <2>3, <2>4, <2>5 DEF MTyped
<1>7. ASSUME expire_cache PROVE MTyped'
  BY <1>7 DEF expire_cache, MTyped
<1>8. ASSUME next_peer_lost PROVE MTyped'
  BY <1>8 DEF next_peer_lost, MTyped
<1>9. ASSUME lose_connection PROVE MTyped'
  BY <1>9 DEF lose_connection, MTyped
<1>10. ASSUME NEW T \in Templates, NEW k \in SUBSET Txs, Handshake(T, k) PROVE MTyped'
  <2>1. T \in SUBSET Txs /\ Total(T) \in Int
    BY <1>0, TxMemoryAssumption
  <2>2. toSender' \in Seq(NoticeSet)
    <3>1. Notice("have", k) \in Seq(NoticeSet)
      BY NoticeIn
    <3> QED
      BY <1>10, <3>1 DEF Handshake
  <2>3. toPeer' \in Seq(MessageSet)
    <3> DEFINE m == [type |-> "remember", hashes |-> {}, txs |-> T, late |-> FALSE]
    <3>1. m \in MessageSet
      BY <2>1 DEF MessageSet
    <3>2. toPeer' = <<>> \/ toPeer' = <<m>>
      BY <1>10 DEF Handshake
    <3> HIDE DEF m
    <3>3. <<m>> \in Seq(MessageSet) /\ <<>> \in Seq(MessageSet)
      BY <3>1
    <3> QED
      BY <3>2, <3>3
  <2> QED
    BY <1>10, <2>1, <2>2, <2>3 DEF Handshake, MTyped
<1>11. ASSUME UNCHANGED mvars PROVE MTyped'
  BY <1>11 DEF mvars, MTyped
<1> QED
  BY <1>1, <1>2, <1>3, <1>4, <1>5, <1>6, <1>7, <1>8, <1>9, <1>10, <1>11
     DEF MNext, connect

(* What the sender takes for known stays covered.                           *)
LEMMA HeardStep ==
    ASSUME MTyped, Heard, [MNext]_mvars
    PROVE  Heard'
<1> USE DEF sender, receiver
<1>0. toSender \in Seq(NoticeSet) /\ known \in SUBSET Txs
  BY DEF MTyped
<1>1. ASSUME NEW T \in Templates, new_mining_txs(T) PROVE Heard'
  BY <1>1 DEF new_mining_txs, update_remote_view, Send, Heard, Connected
<1>2. ASSUME NEW S \in SUBSET Txs, sendShares(S) PROVE Heard'
  BY <1>2 DEF sendShares, Send, Heard, Connected
<1>3. ASSUME handle_notice PROVE Heard'
  <2> SUFFICES ASSUME Connected, watching PROVE Told(remoteHas', toSender', known, young)
    BY <1>3 DEF handle_notice, Heard, Connected
  <2>1. toSender # <<>> /\ hear(Head(toSender)) /\ toSender' = Tail(toSender)
    BY <1>3 DEF handle_notice
  <2>2. IF Head(toSender).type = "have" THEN remoteHas' \subseteq remoteHas \cup Head(toSender).hashes
        ELSE remoteHas' = remoteHas \ Head(toSender).hashes
    BY <2>1 DEF hear
  <2>3. Told(remoteHas, toSender, known, young)
    BY DEF Heard
  <2>4. Told(remoteHas', Tail(toSender), known, young)
    BY <1>0, <2>1, <2>2, <2>3, ToldLess
  <2> QED
    BY <2>1, <2>4
<1> DEFINE Learned == \A S \in SUBSET Txs :
              Learn(S) /\ Connected /\ watching =>
                 Told(remoteHas, toSender', known', young)
<1>L. Learned
  <2> SUFFICES ASSUME NEW S \in SUBSET Txs, Learn(S), Connected, watching
               PROVE  Told(remoteHas, toSender', known', young)
    OBVIOUS
  <2>1. known \subseteq known' /\ S \ known \subseteq known' /\ S \ known \in SUBSET Txs
        /\ toSender' = toSender \o Notice("have", S \ known)
    BY LearnTypes
  <2>2. Told(remoteHas, toSender, known, young)
    BY DEF Heard
  <2>3. Told(remoteHas, toSender \o Notice("have", S \ known), known', young)
    BY <1>0, <2>1, <2>2, ToldMore
  <2> QED
    BY <2>1, <2>3
<1> HIDE DEF Learned
<1>4. ASSUME messageReceived PROVE Heard'
  <2> DEFINE m == Head(toPeer)
  <2>1. /\ m \in MessageSet /\ toPeer # <<>> /\ toPeer' = Tail(toPeer)
        /\ UNCHANGED sender /\ Connected
        /\ Refused(m) \/ Followed(m)
    BY <1>4, Handled
  <2>2. m.hashes \in SUBSET Txs /\ m.txs \in SUBSET Txs
    BY <2>1 DEF MessageSet
  <2> HIDE DEF m
  <2>3. CASE Refused(m)
    BY <2>3 DEF Refused, Heard
  <2>4. CASE Followed(m)
    <3>1. (Learn(m.txs) \/ Learn(m.hashes) \/ UNCHANGED <<known, toSender>>)
          /\ UNCHANGED <<young, watching, remoteHas>>
      BY <2>1, <2>4 DEF Followed
    <3>2. CASE Learn(m.txs) \/ Learn(m.hashes)
      <4>1. watching => Told(remoteHas, toSender', known', young)
        BY <1>L, <2>1, <2>2, <3>2 DEF Learned
      <4> QED
        BY <3>1, <4>1 DEF Heard
    <3>3. CASE UNCHANGED <<known, toSender>>
      BY <2>1, <3>1, <3>3 DEF Heard
    <3> QED
      BY <3>1, <3>2, <3>3
  <2> QED
    BY <2>1, <2>3, <2>4
<1>5. ASSUME NEW t \in Txs, new_tx(t) PROVE Heard'
  <2>1. Learn({t}) /\ {t} \in SUBSET Txs /\ Connected
        /\ UNCHANGED <<young, watching, remoteHas, verdict>>
    BY <1>5 DEF new_tx
  <2>2. watching => Told(remoteHas, toSender', known', young)
    BY <1>L, <2>1 DEF Learned
  <2> QED
    BY <2>1, <2>2 DEF Heard
<1>6. ASSUME NEW keep \in SUBSET known, forget_old_txs(keep) PROVE Heard'
  <2> DEFINE after == KnownAfter(keep)
             r == toSender \o (Notice("have", after \ known)
                              \o Notice("losing", known \ after))
  <2> SUFFICES ASSUME watching PROVE Told(remoteHas', toSender', known', young')
    BY <1>6 DEF forget_old_txs, Heard
  <2>1. after \in SUBSET Txs
    BY DEF KnownAfter, MTyped
  <2>2. NoLosing(toSender, 1)
    <3>1. RoundTripOver
      BY <1>6 DEF forget_old_txs
    <3> QED
      BY <1>0, <3>1 DEF RoundTripOver, NoLosing
  <2>3. Told(remoteHas, toSender, known, young)
    BY <1>6 DEF forget_old_txs, Heard
  <2> HIDE DEF after
  <2>4. Told(remoteHas, r, after, known \ after)
    BY <1>0, <2>1, <2>2, <2>3, ToldForgets
  <2>5. known' = after /\ young' = known \ after /\ toSender' = r /\ remoteHas' = remoteHas
    BY <1>6 DEF forget_old_txs, Tell, after
  <2> HIDE DEF r
  <2> QED
    BY <2>4, <2>5
<1>7. ASSUME expire_cache PROVE Heard'
  BY <1>7 DEF expire_cache, Heard, Connected
<1>8. ASSUME next_peer_lost PROVE Heard'
  BY <1>8 DEF next_peer_lost, Heard
<1>9. ASSUME lose_connection PROVE Heard'
  <2>1. ~Connected'
    BY <1>9, Zenon DEF lose_connection, Connected
  <2> QED
    BY <2>1 DEF Heard
<1>10. ASSUME NEW T \in Templates, NEW k \in SUBSET Txs, Handshake(T, k) PROVE Heard'
  <2>1. Told({}, <<>>, k, {})
    BY DEF Told
  <2>2. Told({}, <<>> \o Notice("have", k), k, {})
    <3>1. <<>> \in Seq(NoticeSet) /\ k \subseteq k
      OBVIOUS
    <3> QED
      BY <2>1, <3>1, ToldMore
  <2>3. <<>> \o Notice("have", k) = Notice("have", k)
    BY NoticeIn, ConcatEmptySeq
  <2>4. remoteHas' = {} /\ known' = k /\ young' = {} /\ toSender' = Notice("have", k)
    BY <1>10 DEF Handshake
  <2>5. Told(remoteHas', toSender', known', young')
    BY <2>2, <2>3, <2>4
  <2> QED
    BY <2>5 DEF Heard
<1>11. ASSUME UNCHANGED mvars PROVE Heard'
  BY <1>11 DEF mvars, Heard, Connected
<1> QED
  BY <1>1, <1>2, <1>3, <1>4, <1>5, <1>6, <1>7, <1>8, <1>9, <1>10, <1>11
     DEF MNext, connect

(* The sender never takes a transaction for known for good that the peer    *)
(* has lost.                                                                *)
THEOREM ViewIsSound == MSpec => []ViewSound
<1>1. MInit => MTyped /\ Heard
  BY MInitial
<1>2. MTyped /\ Heard /\ [MNext]_mvars => (MTyped /\ Heard)'
  BY MTypedStep, HeardStep
<1>3. MTyped /\ Heard => ViewSound
  <2> SUFFICES ASSUME MTyped, Heard, Connected, watching
               PROVE  FoldLeft(After, remoteHas, toSender) \subseteq known
    BY DEF ViewSound
  <2> QED
    BY NoticesFold DEF MTyped, Heard
<1> QED
  BY <1>1, <1>2, <1>3, PTL DEF MSpec

-----------------------------------------------------------------------------
(* new_mining_txs: what a block holds fits, so that the peer is told all.   *)
LEMMA AgreedMines ==
    ASSUME TemplatesFit, MTyped, Heard, Agreed,
           NEW T \in Templates, new_mining_txs(T)
    PROVE  Agreed'
<1> USE DEF sender, receiver
<1> DEFINE removed == mining \ T
           added == T \ mining
           both == mining \cap T
           H == added \cap remoteHas
           G == added \ remoteHas
           f == Forget(removed)
           r == Remember(H, G)
<1>1. /\ T \in SUBSET Txs /\ removed \in SUBSET Txs /\ added \in SUBSET Txs
      /\ H \in SUBSET Txs /\ G \in SUBSET Txs /\ both \in SUBSET Txs
      /\ remembered \in SUBSET Txs /\ toPeer \in Seq(MessageSet)
  BY TxMemoryAssumption DEF MTyped
<1>2. /\ remoteSize = Total(mining) /\ size = Total(remembered)
      /\ Flow(toPeer, remembered, mining, watching, known, young)
  BY DEF Agreed, new_mining_txs
<1>3. Total(mining) = Total(both) + Total(removed)
  <2>1. mining = both \cup removed /\ both \cap removed = {}
    OBVIOUS
  <2> QED
    BY <1>1, <2>1, TotalOfUnion
<1>4. Total(T) = Total(both) + Total(added)
  <2>1. T = both \cup added /\ both \cap added = {}
    OBVIOUS
  <2> QED
    BY <1>1, <2>1, TotalOfUnion
<1>5. /\ remoteSize - Total(removed) + Total(added) = Total(T)
      /\ Total(T) <= MaxSize
  <2>1. Total(both) \in Nat /\ Total(removed) \in Nat /\ Total(added) \in Nat
    BY <1>1, TotalType
  <2> HIDE DEF removed, added, both
  <2> QED
    BY <1>2, <1>3, <1>4, <2>1 DEF TemplatesFit
<1>6. /\ remoteSize' = Total(T) /\ toPeer' = toPeer \o (f \o r) /\ mining' = T
      /\ UNCHANGED <<receiver, toSender>>
  BY <1>5 DEF new_mining_txs, update_remote_view, Send
<1>7. /\ f \in Seq(MessageSet) /\ toPeer \o f \in Seq(MessageSet)
      /\ Flow(toPeer \o f, remembered, both, watching, known, young)
  <2>1. removed \subseteq mining /\ mining \in SUBSET Txs /\ mining \ removed = both
    BY DEF MTyped
  <2>2. Flow(toPeer \o f, remembered, mining \ removed, watching, known, young)
        /\ f \in Seq(MessageSet) /\ toPeer \o f \in Seq(MessageSet)
    BY <1>1, <1>2, <2>1, FlowForget
  <2> QED
    BY <2>1, <2>2
<1>8. /\ r \in Seq(MessageSet)
      /\ Flow((toPeer \o f) \o r, remembered, T, watching, known, young)
  <2>1. (H \cup G) \cap both = {} /\ both \cup H \cup G = T
    OBVIOUS
  <2>2. watching => H \subseteq known \cup young /\ (~Late => H \subseteq known)
    <3>1. watching => Told(remoteHas, toSender, known, young)
      BY DEF Heard, new_mining_txs
    <3>2. watching => remoteHas \subseteq known \cup young /\ (~Late => remoteHas \subseteq known)
      BY <3>1, NotLate DEF MTyped
    <3>3. H \subseteq remoteHas
      OBVIOUS
    <3> QED
      BY <3>2, <3>3
  <2>3. Total(both \cup H \cup G) <= MaxSize
    BY <1>5, <2>1
  <2> DEFINE p == toPeer \o f
  <2>4. p \in Seq(MessageSet) /\ Flow(p, remembered, both, watching, known, young)
    BY <1>7
  <2> HIDE DEF p, H, G, both
  <2>5. r \in Seq(MessageSet) /\ Flow(p \o r, remembered, both \cup H \cup G, watching, known, young)
    BY <1>1, <2>1, <2>2, <2>3, <2>4, FlowRemember
  <2> QED
    BY <2>1, <2>5 DEF p
<1>9. toPeer \o (f \o r) = (toPeer \o f) \o r
  <2> HIDE DEF f, r
  <2> QED
    BY <1>1, <1>7, <1>8, ConcatAssociative
<1> HIDE DEF f, r
<1>10. Flow(toPeer', remembered', mining', watching', known', young')
  BY <1>6, <1>8, <1>9
<1> QED
  BY <1>2, <1>5, <1>6, <1>10 DEF Agreed

(* sendShares: what travels before the shares is forgotten behind them.     *)
LEMMA AgreedSends ==
    ASSUME MTyped, Heard, Agreed, NEW S \in SUBSET Txs, sendShares(S)
    PROVE  Agreed'
<1> USE DEF sender, receiver
<1> DEFINE H == HashesToSend(S)
           r == Remember({}, H)
           s == <<Message("shares", S, {})>>
           f == Forget(H)
           e == mining \cup H
<1>1. /\ H \in SUBSET Txs /\ H \cap mining = {} /\ e \in SUBSET Txs /\ mining \in SUBSET Txs
      /\ remembered \in SUBSET Txs /\ toPeer \in Seq(MessageSet)
      /\ S \subseteq e \cup remoteHas /\ e \ H = mining
  BY DEF MTyped, HashesToSend
<1>2. /\ remoteSize = Total(mining) /\ size = Total(remembered)
      /\ Flow(toPeer, remembered, mining, watching, known, young)
      /\ Total(mining) <= MaxSize
  BY DEF Agreed, sendShares
<1>3. /\ remoteSize + Total(H) <= MaxSize
      /\ toPeer' = toPeer \o (r \o s \o f)
      /\ UNCHANGED <<receiver, toSender, sender>>
  BY DEF sendShares, Send
<1> HIDE DEF H
<1>4. Total(e) <= MaxSize
  BY <1>1, <1>2, <1>3, TotalOfUnion
<1> DEFINE p1 == toPeer \o r
           p2 == p1 \o s
           p3 == p2 \o f
<1>5. /\ r \in Seq(MessageSet) /\ p1 \in Seq(MessageSet)
      /\ Flow(p1, remembered, e, watching, known, young)
  <2>1. mining \cup {} \cup H = e /\ ({} \cup H) \cap mining = {} /\ {} \in SUBSET Txs
        /\ (watching => {} \subseteq known \cup young /\ (~Late => {} \subseteq known))
    BY <1>1
  <2>2. Total(mining \cup {} \cup H) <= MaxSize
    BY <1>4, <2>1
  <2>3. r \in Seq(MessageSet) /\ p1 \in Seq(MessageSet)
        /\ Flow(p1, remembered, mining \cup {} \cup H, watching, known, young)
    BY <1>1, <1>2, <2>1, <2>2, FlowRemember
  <2> QED
    BY <2>1, <2>3
<1> HIDE DEF e, p1, r
<1>6. /\ s \in Seq(MessageSet) /\ p2 \in Seq(MessageSet)
      /\ Flow(p2, remembered, e, watching, known, young)
  <2>1. watching => remoteHas \subseteq known \cup young /\ (~Late => remoteHas \subseteq known)
    <3>1. watching => Told(remoteHas, toSender, known, young)
      BY DEF Heard, sendShares
    <3> QED
      BY <3>1, NotLate DEF MTyped
  <2>2. Lookable(watching, S, e, known, young)
    BY <1>1, <2>1 DEF Lookable
  <2> QED
    BY <1>1, <1>5, <2>2, FlowShares
<1> HIDE DEF p2, s
<1>7. /\ f \in Seq(MessageSet) /\ p3 \in Seq(MessageSet)
      /\ Flow(p3, remembered, mining, watching, known, young)
  <2>1. H \subseteq e
    BY DEF e
  <2>2. f \in Seq(MessageSet) /\ p3 \in Seq(MessageSet)
        /\ Flow(p3, remembered, e \ H, watching, known, young)
    BY <1>1, <1>6, <2>1, FlowForget
  <2> QED
    BY <1>1, <2>2
<1> HIDE DEF f
<1>8. toPeer \o (r \o s \o f) = p3
  <2>1. r \o s \in Seq(MessageSet)
    BY <1>5, <1>6
  <2>2. toPeer \o ((r \o s) \o f) = (toPeer \o (r \o s)) \o f
    <3> DEFINE rs == r \o s
    <3>1. rs \in Seq(MessageSet)
      BY <2>1
    <3> HIDE DEF rs
    <3>2. (toPeer \o rs) \o f = toPeer \o (rs \o f)
      BY <1>1, <1>7, <3>1, ConcatAssociative
    <3> QED
      BY <3>2 DEF rs
  <2>3. toPeer \o (r \o s) = (toPeer \o r) \o s
    <3>1. toPeer \in Seq(MessageSet) /\ r \in Seq(MessageSet) /\ s \in Seq(MessageSet)
      BY <1>1, <1>5, <1>6
    <3> QED
      BY ONLY <3>1, ConcatAssociative
  <2> QED
    BY <2>2, <2>3 DEF p1, p2
<1> HIDE DEF p3
<1>9. Flow(toPeer', remembered', mining', watching', known', young')
  BY <1>3, <1>7, <1>8
<1> QED
  BY <1>2, <1>3, <1>9 DEF Agreed

(* What the receiver knows grows.                                           *)
LEMMA FlowGrows ==
    ASSUME NEW q \in Seq(MessageSet), NEW b, NEW e, NEW w, NEW k, NEW y, NEW k2,
           Flow(q, b, e, w, k, y), k \subseteq k2
    PROVE  Flow(q, b, e, w, k2, y)
<1>1. \A i \in 1..Len(q) : \A X : Ready(X, q[i], k, y) => Ready(X, q[i], k2, y)
  BY DEF Ready
<1> QED
  BY <1>1, FlowChanges

(* packetReceived.                                                          *)
LEMMA AgreedReceives ==
    ASSUME MTyped, Agreed, Kept, messageReceived
    PROVE  /\ Agreed' /\ Kept'
           /\ watching => \/ Connected'
                          \/ watching' /\ size' = Total(remembered') /\ size' = MaxSize
<1> USE DEF sender, receiver
<1> DEFINE m == Head(toPeer)
           q == Tail(toPeer)
           S == m.hashes \cup m.txs
<1>1. /\ m \in MessageSet /\ toPeer # <<>> /\ toPeer' = q
      /\ UNCHANGED sender /\ Connected
      /\ Refused(m) \/ Followed(m)
  BY Handled
<1>2. /\ m.hashes \in SUBSET Txs /\ m.txs \in SUBSET Txs
      /\ toPeer \in Seq(MessageSet) /\ q \in Seq(MessageSet)
      /\ remembered \in SUBSET Txs /\ mining \in SUBSET Txs /\ known \in SUBSET Txs
  BY <1>1 DEF MessageSet, MTyped
<1>3. /\ remoteSize = Total(mining) /\ size = Total(remembered)
      /\ Flow(toPeer, remembered, mining, watching, known, young)
      /\ Total(mining) <= MaxSize
  BY <1>1 DEF Agreed
<1>4. /\ Proper(remembered, m) /\ (watching => Ready(remembered, m, known, young))
      /\ Flow(q, After(remembered, m), mining, watching, known, young)
  BY <1>1, <1>2, <1>3, FlowLess
<1>5. watching => remembered \subseteq known \cup young
  BY <1>1 DEF Kept
<1> HIDE DEF m, q
<1>6. CASE Refused(m)
  <2>1. ~watching
    <3> SUFFICES ASSUME watching PROVE FALSE
      OBVIOUS
    <3>1. m.type = "remember" => (m.hashes \cup m.txs) \cap remembered = {} /\ m.hashes \subseteq known \cup young
      BY <1>4 DEF Proper, Ready
    <3>2. m.type = "forget" => m.hashes \subseteq remembered
      BY <1>4 DEF Proper
    <3>3. m.type = "shares" => m.hashes \subseteq known \cup young
      BY <1>4, <1>5 DEF Ready
    <3> QED
      BY <1>6, <3>1, <3>2, <3>3 DEF Refused, CanLookUp
  <2> QED
    BY <1>6, <2>1 DEF Refused, Agreed, Kept
<1>7. CASE Followed(m) /\ m.type = "remember"
  <2>1. /\ S \cap remembered = {} /\ remembered' = remembered \cup S
        /\ size' = size + Total(S)
        /\ verdict' = verdict \/ (size' >= MaxSize /\ ~Connected')
        /\ Learn(m.txs) /\ UNCHANGED <<young, old, watching>>
    BY <1>7 DEF Followed
  <2>2. known \subseteq known' /\ m.txs \subseteq known'
    BY <1>2, <2>1, LearnTypes
  <2>3. After(remembered, m) = remembered \cup S
    BY <1>7 DEF After
  <2>4. Flow(q, remembered', mining, watching, known', young)
    <3>1. Flow(q, remembered', mining, watching, known, young)
      BY <1>4, <2>1, <2>3
    <3> QED
      BY <1>2, <2>2, <3>1, FlowGrows
  <2>5. size' = Total(remembered')
    <3>1. S \in SUBSET Txs
      BY <1>2
    <3> HIDE DEF S
    <3>2. Total(remembered \cup S) = Total(remembered) + Total(S)
      BY <1>2, <2>1, <3>1, TotalOfUnion
    <3> QED
      BY <1>3, <2>1, <3>2
  <2>6. watching => remembered' \subseteq known' \cup young'
    <3>1. watching => m.hashes \subseteq known \cup young
      BY <1>4, <1>7 DEF Ready
    <3> QED
      BY <1>5, <2>1, <2>2, <3>1
  <2>7. size' <= MaxSize
    <3>1. Total(remembered \cup m.hashes \cup m.txs) <= MaxSize
      BY <1>4, <1>7 DEF Proper
    <3>2. remembered \cup m.hashes \cup m.txs = remembered'
      BY <2>1
    <3> QED
      BY <2>5, <3>1, <3>2
  <2>8. Connected' \/ (size' >= MaxSize /\ ~Connected')
    BY <1>1, <2>1 DEF Connected
  <2>9. size' \in Int
    <3>1. remembered' \in SUBSET Txs
      BY <1>2, <2>1
    <3>2. Total(remembered') \in Nat
      BY <3>1, TotalType
    <3> QED
      BY <2>5, <3>2
  <2>10. Agreed'
    BY <1>1, <1>3, <2>1, <2>4, <2>5 DEF Agreed
  <2>11. Kept'
    BY <2>1, <2>6 DEF Kept
  <2>12. MaxSize \in Int
    BY TxMemoryAssumption
  <2>13. size' >= MaxSize => size' = MaxSize
    BY <2>7, <2>9, <2>12
  <2> QED
    BY <2>1, <2>5, <2>8, <2>10, <2>11, <2>13
<1>8. CASE Followed(m) /\ m.type = "forget"
  <2>1. /\ m.hashes \subseteq remembered /\ remembered' = remembered \ m.hashes
        /\ size' = size - Total(m.hashes)
        /\ UNCHANGED <<known, young, old, watching, toSender, verdict>>
    BY <1>8 DEF Followed
  <2>2. After(remembered, m) = remembered'
    BY <1>8, <2>1 DEF After
  <2>3. size' = Total(remembered')
    <3>1. /\ remembered' \in SUBSET Txs /\ remembered' \cap m.hashes = {}
          /\ remembered = remembered' \cup m.hashes
      BY <1>2, <2>1
    <3>2. Total(remembered) = Total(remembered') + Total(m.hashes)
      BY <1>2, <3>1, TotalOfUnion
    <3>3. Total(remembered') \in Nat /\ Total(m.hashes) \in Nat
      BY <1>2, <3>1, TotalType
    <3> QED
      BY <1>3, <2>1, <3>2, <3>3
  <2>4. Flow(q, remembered', mining, watching, known, young)
    BY <1>4, <2>2
  <2>5. Agreed'
    BY <1>1, <1>3, <2>1, <2>3, <2>4 DEF Agreed
  <2>6. Kept' /\ Connected'
    BY <1>1, <1>5, <2>1 DEF Kept, Connected
  <2> QED
    BY <2>5, <2>6
<1>9. CASE Followed(m) /\ m.type = "shares"
  <2>1. /\ Learn(m.hashes)
        /\ UNCHANGED <<remembered, size, young, old, watching, verdict>>
    BY <1>9 DEF Followed
  <2>2. known \subseteq known'
    BY <1>2, <2>1, LearnTypes
  <2>3. After(remembered, m) = remembered
    BY <1>9 DEF After
  <2>4. Flow(q, remembered, mining, watching, known', young)
    BY <1>2, <1>4, <2>2, <2>3, FlowGrows
  <2>5. Agreed'
    BY <1>1, <1>3, <2>1, <2>4 DEF Agreed
  <2>6. Kept' /\ Connected'
    BY <1>1, <1>5, <2>1, <2>2 DEF Kept, Connected
  <2> QED
    BY <2>5, <2>6
<1> QED
  BY <1>1, <1>6, <1>7, <1>8, <1>9 DEF Followed

(* forget_old_txs: what messages on their way name was known, so that it    *)
(* can be looked up in known_txs_cache where it is not kept.                *)
LEMMA AgreedForgets ==
    ASSUME MTyped, Agreed, Kept, NEW keep \in SUBSET known, forget_old_txs(keep)
    PROVE  Agreed' /\ Kept'
<1> USE DEF sender, receiver
<1> DEFINE after == KnownAfter(keep)
           n == Len(toPeer)
           marked == [i \in 1..n |-> [toPeer[i] EXCEPT !.late = TRUE]]
<1>1. /\ Connected /\ RoundTripOver
      /\ known' = after /\ UNCHANGED <<sender, remembered, size, watching, verdict>>
      /\ watching => young' = known \ after
      /\ watching => toPeer' = IF after = known THEN toPeer
                     ELSE [i \in DOMAIN toPeer |-> [toPeer[i] EXCEPT !.late = TRUE]]
      /\ ~watching => UNCHANGED toPeer
  BY DEF forget_old_txs
<1>2. /\ toPeer \in Seq(MessageSet) /\ n \in Nat /\ DOMAIN toPeer = 1..n
      /\ \A i \in 1..n : toPeer[i] \in MessageSet
  BY DEF MTyped
<1>3. /\ remoteSize = Total(mining) /\ size = Total(remembered)
      /\ Flow(toPeer, remembered, mining, watching, known, young)
      /\ Total(mining) <= MaxSize
  BY <1>1 DEF Agreed
<1>4. remembered \subseteq after
  BY DEF KnownAfter
<1>5. \A i \in 1..n : ~toPeer[i].late
  BY <1>1, <1>2 DEF RoundTripOver
<1> HIDE DEF after
<1>6. CASE ~watching
  <2>1. Flow(toPeer, remembered, mining, FALSE, known, young)
    BY <1>3, <1>6 DEF Flow
  <2>2. Flow(toPeer, remembered, mining, watching, known', young')
    BY <1>6, <2>1 DEF Flow
  <2>3. Flow(toPeer', remembered', mining', watching', known', young')
    BY <1>1, <1>6, <2>2
  <2>4. Agreed'
    BY <1>1, <1>3, <2>3 DEF Agreed
  <2> QED
    BY <1>1, <1>6, <2>4 DEF Kept
<1>7. CASE watching
  <2>1. \A i \in 1..n : toPeer'[i] \in MessageSet /\ toPeer'[i].type = toPeer[i].type
           /\ toPeer'[i].hashes = toPeer[i].hashes /\ toPeer'[i].txs = toPeer[i].txs
           /\ (after = known \/ toPeer'[i].late)
    <3>1. CASE after = known
      BY <1>1, <1>2, <1>7, <3>1
    <3>2. CASE after # known
      <4>1. toPeer' = marked
        BY <1>1, <1>2, <1>7, <3>2
      <4>2. \A i \in 1..n : marked[i] = [toPeer[i] EXCEPT !.late = TRUE]
        OBVIOUS
      <4> HIDE DEF marked
      <4> QED
        BY <1>2, <4>1, <4>2 DEF MessageSet
    <3> QED
      BY <3>1, <3>2
  <2>2. toPeer' \in Seq(MessageSet) /\ Len(toPeer') = Len(toPeer)
    <3>1. CASE after = known
      BY <1>1, <1>2, <1>7, <3>1
    <3>2. CASE after # known
      <4>1. toPeer' = marked
        BY <1>1, <1>2, <1>7, <3>2
      <4>2. \A i \in 1..n : marked[i] \in MessageSet
        BY <2>1, <4>1
      <4>3. marked = [i \in 1..n |-> marked[i]]
        OBVIOUS
      <4> HIDE DEF marked
      <4>4. marked \in [1..n -> MessageSet]
        BY <4>2, <4>3
      <4>5. marked \in Seq(MessageSet) /\ DOMAIN marked = 1..n
        BY <1>2, <4>4
      <4>6. Len(marked) = n
        BY <1>2, <4>5
      <4> QED
        BY <4>1, <4>5, <4>6
    <3> QED
      BY <3>1, <3>2
  <2> DEFINE r == toPeer'
             k2 == known'
             y2 == young'
  <2>3. k2 = after /\ y2 = known \ after
    BY <1>1, <1>7
  <2>4. r \in Seq(MessageSet) /\ Len(r) = n
    BY <2>2
  <2>5. \A i \in 1..n : \A X : Ready(X, toPeer[i], known, young) => Ready(X, r[i], k2, y2)
    <3> SUFFICES ASSUME NEW i \in 1..n, NEW X, Ready(X, toPeer[i], known, young)
                 PROVE  Ready(X, r[i], k2, y2)
      OBVIOUS
    <3>1. /\ toPeer[i].type = "remember" => toPeer[i].hashes \subseteq known
          /\ toPeer[i].type = "shares" => toPeer[i].hashes \subseteq X \cup known
      BY <1>5 DEF Ready
    <3>2. r[i].type = toPeer[i].type /\ r[i].hashes = toPeer[i].hashes
          /\ (after = known \/ r[i].late)
      BY <2>1
    <3> HIDE DEF r, k2, y2
    <3>3. known \subseteq k2 \cup y2 /\ (after = known => known \subseteq k2)
      BY <2>3
    <3> QED
      BY <3>1, <3>2, <3>3 DEF Ready
  <2>6. \A i \in 1..n : r[i].type = toPeer[i].type /\ r[i].hashes = toPeer[i].hashes
           /\ r[i].txs = toPeer[i].txs
    BY <2>1
  <2> HIDE DEF r, k2, y2
  <2>7. Flow(toPeer, remembered, mining, TRUE, known, young)
    BY <1>3, <1>7 DEF Flow
  <2>8. Flow(r, remembered, mining, TRUE, k2, y2)
    BY <1>2, <2>4, <2>5, <2>6, <2>7, FlowChanges
  <2>9. Flow(r, remembered, mining, watching, k2, y2)
    BY <1>7, <2>8 DEF Flow
  <2>10. Flow(toPeer', remembered', mining', watching', known', young')
    <3>1. Flow(toPeer', remembered, mining, watching, known', young')
      BY <2>9 DEF r, k2, y2
    <3> QED
      BY <1>1, <3>1
  <2>11. Agreed'
    BY <1>1, <1>3, <2>10 DEF Agreed
  <2> QED
    BY <1>1, <1>4, <2>11 DEF Kept
<1> QED
  BY <1>6, <1>7

LEMMA AgreedConnects ==
    ASSUME NEW T \in Templates, NEW k \in SUBSET Txs, Handshake(T, k)
    PROVE  Agreed' /\ Kept'
<1> DEFINE m == [type |-> "remember", hashes |-> {}, txs |-> T, late |-> FALSE]
<1>1. /\ Total(T) <= MaxSize
      /\ mining' = T /\ remoteSize' = Total(T)
      /\ known' = k /\ remembered' = {} /\ size' = 0 /\ young' = {} /\ watching' = TRUE
      /\ toPeer' = IF T = {} THEN <<>> ELSE <<m>>
  BY DEF Handshake
<1>2. T \in SUBSET Txs /\ Total({}) = 0
  BY TotalType, TxMemoryAssumption
<1>3. m \in MessageSet /\ m.type = "remember" /\ m.hashes = {} /\ m.txs = T
  BY <1>2 DEF MessageSet
<1> HIDE DEF m
<1>4. Flow(<<>>, {}, {}, TRUE, k, {})
  BY FlowNone
<1>5. Flow(toPeer', {}, T, TRUE, k, {})
  <2>1. CASE T = {}
    BY <1>1, <1>4, <2>1
  <2>2. CASE T # {}
    <3>1. After({}, m) = T
      BY <1>3 DEF After
    <3>2. Proper({}, m)
      <4>1. {} \cup m.hashes \cup m.txs = T
        BY <1>3
      <4> QED
        BY <1>1, <1>3, <4>1 DEF Proper
    <3>3. Ready({}, m, k, {})
      BY <1>3 DEF Ready
    <3>4. <<>> \in Seq(MessageSet)
      OBVIOUS
    <3>5. Flow(<<>> \o <<m>>, {}, After({}, m), TRUE, k, {})
      BY <1>3, <1>4, <3>2, <3>3, <3>4, FlowMore
    <3>6. <<>> \o <<m>> = <<m>>
      OBVIOUS
    <3> QED
      BY <1>1, <2>2, <3>1, <3>5, <3>6
  <2> QED
    BY <2>1, <2>2
<1>6. Flow(toPeer', remembered', mining', watching', known', young')
  BY <1>1, <1>5
<1>7. size' = Total(remembered')
  BY <1>1, <1>2
<1>8. Agreed'
  BY <1>1, <1>6, <1>7 DEF Agreed
<1> QED
  BY <1>1, <1>8 DEF Kept

LEMMA AgreedStep ==
    ASSUME TemplatesFit, MTyped, Heard, Agreed, Kept, [MNext]_mvars
    PROVE  Agreed' /\ Kept'
<1> USE DEF sender, receiver
<1>1. ASSUME NEW T \in Templates, new_mining_txs(T) PROVE Agreed' /\ Kept'
  <2>1. Agreed'
    BY <1>1, AgreedMines
  <2>2. UNCHANGED receiver /\ UNCHANGED verdict
    BY <1>1 DEF new_mining_txs, update_remote_view, Send
  <2> QED
    BY <2>1, <2>2 DEF Kept, Connected
<1>2. ASSUME NEW S \in SUBSET Txs, sendShares(S) PROVE Agreed' /\ Kept'
  <2>1. Agreed'
    BY <1>2, AgreedSends
  <2> QED
    BY <1>2, <2>1 DEF sendShares, Send, Kept, Connected
<1>3. ASSUME handle_notice PROVE Agreed' /\ Kept'
  BY <1>3 DEF handle_notice, Agreed, Kept, Connected
<1>4. ASSUME messageReceived PROVE Agreed' /\ Kept'
  BY <1>4, AgreedReceives
<1>5. ASSUME NEW t \in Txs, new_tx(t) PROVE Agreed' /\ Kept'
  <2>1. Learn({t}) /\ {t} \in SUBSET Txs /\ Connected
        /\ UNCHANGED <<sender, remembered, size, young, watching, toPeer, verdict>>
    BY <1>5 DEF new_tx
  <2>2. known \subseteq known'
    BY <2>1, LearnTypes
  <2>3. Flow(toPeer, remembered, mining, watching, known, young) /\ toPeer \in Seq(MessageSet)
    BY <2>1 DEF Agreed, MTyped
  <2>4. Flow(toPeer, remembered, mining, watching, known', young)
    BY <2>2, <2>3, FlowGrows
  <2>5. Agreed'
    BY <2>1, <2>4 DEF Agreed
  <2> QED
    BY <2>1, <2>2, <2>5 DEF Kept
<1>6. ASSUME NEW keep \in SUBSET known, forget_old_txs(keep) PROVE Agreed' /\ Kept'
  BY <1>6, AgreedForgets
<1>7. ASSUME expire_cache PROVE Agreed' /\ Kept'
  BY <1>7 DEF expire_cache, Agreed, Kept, Connected
<1>8. ASSUME next_peer_lost PROVE Agreed' /\ Kept'
  <2>1. Connected /\ watching' = FALSE
        /\ UNCHANGED <<sender, known, remembered, size, young, toPeer, verdict>>
    BY <1>8 DEF next_peer_lost
  <2>2. Flow(toPeer, remembered, mining, watching, known, young)
    BY <2>1 DEF Agreed
  <2>3. Flow(toPeer, remembered, mining, FALSE, known, young)
    BY <2>2 DEF Flow
  <2>4. Flow(toPeer', remembered', mining', watching', known', young')
    BY <2>1, <2>3
  <2> QED
    BY <2>1, <2>4 DEF Agreed, Kept
<1>9. ASSUME lose_connection PROVE Agreed' /\ Kept'
  <2>1. ~Connected'
    BY <1>9, Zenon DEF lose_connection, Connected
  <2> QED
    BY <2>1 DEF Agreed, Kept
<1>10. ASSUME NEW T \in Templates, NEW k \in SUBSET Txs, Handshake(T, k) PROVE Agreed' /\ Kept'
  BY <1>10, AgreedConnects
<1>11. ASSUME UNCHANGED mvars PROVE Agreed' /\ Kept'
  BY <1>11 DEF mvars, Agreed, Kept, Connected
<1> QED
  BY <1>1, <1>2, <1>3, <1>4, <1>5, <1>6, <1>7, <1>8, <1>9, <1>10, <1>11
     DEF MNext, connect

(* While what is forgotten is told, no message is one to end a connection,   *)
(* unless it fills the memory to the last byte.                             *)
LEMMA AccusedStep ==
    ASSUME MTyped, Agreed, Kept, WatchedNeverAccused,
           [MNext]_mvars
    PROVE  WatchedNeverAccused'
<1> USE DEF WatchedNeverAccused, NeverAccused
<1>1. CASE messageReceived
  <2> SUFFICES ASSUME watching PROVE Connected' \/ size' = MaxSize
    <3>1. UNCHANGED watching
      <4>1. Refused(Head(toPeer)) \/ Followed(Head(toPeer))
        BY <1>1, Handled
      <4> QED
        BY <4>1 DEF Refused, Followed, receiver
    <3> QED
      BY <3>1, Zenon DEF Connected
  <2> QED
    BY <1>1, AgreedReceives
<1>2. CASE lose_connection
  BY <1>2, Zenon DEF lose_connection
<1>3. CASE \E T \in Templates, k \in SUBSET Txs : Handshake(T, k)
  BY <1>3, Zenon DEF Handshake
<1> DEFINE Same == watching' = watching /\ verdict' = verdict /\ size' = size
<1> HIDE DEF WatchedNeverAccused, NeverAccused
<1>4. ASSUME NEW T \in Templates, new_mining_txs(T) PROVE Same
  BY <1>4 DEF new_mining_txs, update_remote_view, Send, receiver
<1>5. ASSUME NEW S \in SUBSET Txs, sendShares(S) PROVE Same
  BY <1>5 DEF sendShares, Send, receiver
<1>6. ASSUME handle_notice PROVE Same
  BY <1>6 DEF handle_notice, receiver
<1>7. ASSUME NEW t \in Txs, new_tx(t) PROVE Same
  BY <1>7 DEF new_tx
<1>8. ASSUME NEW keep \in SUBSET known, forget_old_txs(keep) PROVE Same
  BY <1>8 DEF forget_old_txs
<1>9. ASSUME expire_cache PROVE Same
  BY <1>9 DEF expire_cache
<1>10. ASSUME next_peer_lost PROVE ~watching'
  BY <1>10 DEF next_peer_lost
<1>11. ASSUME UNCHANGED mvars PROVE Same
  BY <1>11 DEF mvars, receiver
<1>12. ASSUME Same PROVE WatchedNeverAccused'
  BY <1>12, Zenon DEF WatchedNeverAccused, NeverAccused
<1>13. ASSUME ~watching' PROVE WatchedNeverAccused'
  BY <1>13 DEF WatchedNeverAccused
<1> HIDE DEF Same
<1> QED
  BY <1>1, <1>2, <1>3, <1>4, <1>5, <1>6, <1>7, <1>8, <1>9, <1>10, <1>11, <1>12, <1>13
     DEF MNext, connect

(* Once what is on its way has arrived, the peer remembers what the sender  *)
(* mines on, and both have counted it right.                                *)
THEOREM MemoryIsSame ==
    ASSUME TemplatesFit
    PROVE  MSpec => []SameMemory
<1> DEFINE I == MTyped /\ Heard /\ Agreed /\ Kept
<1>1. MInit => I
  BY MInitial
<1>2. I /\ [MNext]_mvars => I'
  BY MTypedStep, HeardStep, AgreedStep
<1>3. I => SameMemory
  <2> SUFFICES ASSUME I, Connected
               PROVE  /\ FoldLeft(After, remembered, toPeer) = mining
                      /\ remoteSize = Total(mining)
                      /\ size = Total(remembered)
    BY DEF SameMemory
  <2>1. Flow(toPeer, remembered, mining, watching, known, young)
    BY DEF Agreed
  <2>2. FoldLeft(After, remembered, toPeer) = mining
    BY <2>1, FlowFolds DEF MTyped
  <2> QED
    BY <2>2 DEF Agreed
<1> HIDE DEF I
<1> QED
  BY <1>1, <1>2, <1>3, PTL DEF MSpec

(* Two peers that follow the protocol never drop or ban each other over     *)
(* transactions, while what the receiver forgets is told and cached, unless *)
(* what is remembered takes exactly the limit.                              *)
THEOREM NeverAccusedWatched ==
    ASSUME TemplatesFit
    PROVE  MSpec => []WatchedNeverAccused
<1> DEFINE I == MTyped /\ Heard /\ Agreed /\ Kept /\ WatchedNeverAccused
<1>1. MInit => I
  BY MInitial
<1>2. I /\ [MNext]_mvars => I'
  BY MTypedStep, HeardStep, AgreedStep, AccusedStep
<1>3. I => WatchedNeverAccused
  OBVIOUS
<1> HIDE DEF I
<1> QED
  BY <1>1, <1>2, <1>3, PTL DEF MSpec

-----------------------------------------------------------------------------
(***************************************************************************)
(* Requests for shares.  Requests are open exactly while somebody waits for *)
(* them, nobody waits for a peer that is gone, the download loop is in one  *)
(* place, and all this implements Promises: for any peers and pings.        *)
(***************************************************************************)

(* Nobody waits twice for the same thing.                                    *)
OneEach == \A d, e \in waiting : d.who = e.who /\ d.peer = e.peer => d = e

(* Whoever waits is in the map of the connection he asked and has a timer.   *)
OpenExact ==
    /\ timer = waiting
    /\ \A p \in Peer : map[p] = {d \in waiting : d.peer = p}

RInv == RTypeOK /\ OpenExact /\ NobodyOrphaned /\ LoopAlive /\ OneEach

OpenTo(p) == {d \in waiting : d.peer = p}

(* What may be asked when done has fired.                                    *)
Askable(done, new) ==
    \/ new = {}
    \/ \E d \in Deferred \ waiting :
          /\ new = {d} /\ d.peer \in Listed'
          /\ \A e \in waiting \ done : ~(e.who = d.who /\ e.peer = d.peer)

(* Where the download loop goes on.                                          *)
LoopStep(done, new) ==
    \/ /\ loop' = loop /\ (loop = "idle" => ~wanted')
       /\ Of("download", done) = {} /\ Of("download", new) = {}
    \/ /\ loop' = "asking" /\ Of("download", waiting) \subseteq done
       /\ Of("download", new) # {}
    \/ /\ loop' \in {"idle", "sleep", "dead"} /\ (loop' = "idle" => ~wanted')
       /\ Of("download", waiting) \subseteq done /\ Of("download", new) = {}

Step(done, new) ==
    /\ done \subseteq waiting /\ Settle(done, new) /\ Askable(done, new) /\ LoopStep(done, new)

(* Who is connected: nobody else, one more, or one less and its requests fail. *)
Shape(done) ==
    \/ Listed' = Listed /\ (done = {} \/ \E s \in waiting : done = {s})
    \/ done = {} /\ \E p \in Peer \ Listed : Listed' = Listed \cup {p}
    \/ \E p \in Listed : Listed' = Listed \ {p} /\ done = OpenTo(p)

TypedStep ==
    /\ link' \in [Peer -> {"gone", "listed", "closing"}]
    /\ left' \in [Peer -> 0..(Pings - 1)] /\ wanted' \in BOOLEAN
    /\ \A p \in Peer : link'[p] = "gone" => left'[p] = 0

-----------------------------------------------------------------------------
LEMMA NewOne ==
    ASSUME RTypeOK, OneEach, NEW who \in {"download", "hashes", "ping"}, NEW p \in Peer
    PROVE  \E d \in Deferred \ waiting : New(who, p) = {d} /\ d.who = who /\ d.peer = p
<1> DEFINE first == [who |-> who, peer |-> p, turn |-> 0]
           second == [who |-> who, peer |-> p, turn |-> 1]
<1>1. first \in Deferred /\ second \in Deferred /\ first # second
  BY DEF Deferred
<1>2. CASE first \in waiting
  <2>1. New(who, p) = {second}
    BY <1>2 DEF New
  <2>2. second \notin waiting
    BY <1>1, <1>2 DEF OneEach
  <2> QED BY <1>1, <2>1, <2>2
<1>3. CASE first \notin waiting
  <2>1. New(who, p) = {first}
    BY <1>3 DEF New
  <2> QED BY <1>1, <1>3, <2>1
<1> QED BY <1>2, <1>3

(* A request of the page or for a best share.                                *)
LEMMA Ask ==
    ASSUME RTypeOK, OneEach, NEW who \in {"hashes", "ping"}, NEW p \in Listed',
           NEW done \in SUBSET waiting, Settle(done, New(who, p)),
           \A e \in waiting \ done : ~(e.who = who /\ e.peer = p),
           Of("download", done) = {}, loop' = loop, loop = "idle" => ~wanted'
    PROVE  Step(done, New(who, p))
<1>1. p \in Peer
  BY DEF Listed
<1>2. PICK d \in Deferred \ waiting : New(who, p) = {d} /\ d.who = who /\ d.peer = p
  BY <1>1, NewOne
<1>3. Of("download", New(who, p)) = {}
  BY <1>2 DEF Of
<1> QED BY <1>2, <1>3 DEF Step, Askable, LoopStep

LEMMA Fire ==
    ASSUME NEW done \in SUBSET waiting, Settle(done, {}), Of("download", done) = {},
           loop' = loop, loop = "idle" => ~wanted'
    PROVE  Step(done, {})
BY DEF Step, Askable, LoopStep, Of

LEMMA GoOn ==
    ASSUME RTypeOK, OneEach, NEW done \in SUBSET waiting, NEW others \in SUBSET Listed',
           Of("download", waiting) \subseteq done, Go(others, wanted', done)
    PROVE  \E new : Step(done, new)
<1>1. CASE loop' \in {"idle", "sleep"} /\ (loop' = "idle" => ~wanted') /\ Settle(done, {})
  <2>1. Step(done, {})
    BY <1>1 DEF Step, Askable, LoopStep, Of
  <2> QED BY <2>1
<1>2. CASE loop' = "asking" /\ \E p \in others : Settle(done, New("download", p))
  <2>1. PICK p \in others : Settle(done, New("download", p))
    BY <1>2
  <2>2. PICK d \in Deferred \ waiting : New("download", p) = {d} /\ d.who = "download" /\ d.peer = p
    BY NewOne DEF Listed
  <2>3. \A e \in waiting \ done : e.who # "download"
    BY DEF Of
  <2>4. Of("download", {d}) # {}
    BY <2>2 DEF Of
  <2>5. Step(done, {d})
    BY <1>2, <2>1, <2>2, <2>3, <2>4 DEF Step, Askable, LoopStep
  <2> QED BY <2>5
<1> QED BY <1>1, <1>2 DEF Go
-----------------------------------------------------------------------------
(* Steps preserve the invariant, whatever they are.                          *)
LEMMA StepKeeps ==
    ASSUME RInv, NEW done, NEW new, Step(done, new), Shape(done), TypedStep
    PROVE  RInv'
<1>1. /\ done \subseteq waiting /\ new \subseteq Deferred \ waiting
      /\ map' = [p \in Peer |-> (map[p] \ done) \cup {d \in new : d.peer = p}]
      /\ timer' = (timer \ done) \cup new /\ waiting' = (waiting \ done) \cup new
  BY DEF Step, Settle, Askable
<1>2. waiting' \subseteq Deferred /\ timer' \subseteq Deferred
  BY <1>1 DEF RInv, RTypeOK
<1>3. map' \in [Peer -> SUBSET Deferred]
  BY <1>1 DEF RInv, RTypeOK
<1>4. loop' \in {"idle", "sleep", "asking", "dead"}
  BY DEF Step, LoopStep, RInv, RTypeOK
<1>5. RTypeOK'
  BY <1>2, <1>3, <1>4 DEF RTypeOK, TypedStep
<1>6. OpenExact'
  <2>1. timer' = waiting'
    BY <1>1 DEF RInv, OpenExact
  <2>2. ASSUME NEW p \in Peer PROVE map'[p] = {d \in waiting' : d.peer = p}
    <3>1. map'[p] = (map[p] \ done) \cup {d \in new : d.peer = p}
      BY <1>1
    <3>2. map[p] = {d \in waiting : d.peer = p}
      BY DEF RInv, OpenExact
    <3> QED BY <1>1, <3>1, <3>2
  <2> QED BY <2>1, <2>2 DEF OpenExact
<1>7. ASSUME NEW p \in Peer, link'[p] = "gone" PROVE map'[p] = {}
  <2>1. p \notin Listed' /\ \A d \in new : d.peer # p
    BY <1>7 DEF Listed, Step, Askable
  <2>2. map[p] = OpenTo(p)
    BY DEF RInv, OpenExact, OpenTo
  <2>3. map[p] = {} \/ OpenTo(p) \subseteq done
    <3>1. p \notin Listed => map[p] = {}
      BY DEF RInv, NobodyOrphaned, Listed
    <3> QED BY <2>1, <3>1 DEF Shape
  <2> QED BY <1>1, <2>1, <2>2, <2>3
<1>8. NobodyOrphaned'
  BY <1>7 DEF NobodyOrphaned, TypedStep
<1>9. LoopAlive'
  <2>1. CASE /\ loop' = loop /\ (loop = "idle" => ~wanted')
             /\ Of("download", done) = {} /\ Of("download", new) = {}
    <3>1. Of("download", waiting') = Of("download", waiting)
      BY <1>1, <2>1 DEF Of
    <3> QED BY <2>1, <3>1 DEF RInv, LoopAlive
  <2>2. CASE /\ loop' = "asking" /\ Of("download", waiting) \subseteq done
             /\ Of("download", new) # {}
    <3>1. Of("download", waiting') = Of("download", new)
      BY <1>1, <2>2 DEF Of
    <3>2. \A d, e \in new : d = e
      BY DEF Step, Askable
    <3> QED BY <2>2, <3>1, <3>2 DEF LoopAlive, Of
  <2>3. CASE /\ loop' \in {"idle", "sleep", "dead"} /\ (loop' = "idle" => ~wanted')
             /\ Of("download", waiting) \subseteq done /\ Of("download", new) = {}
    <3>1. Of("download", waiting') = {}
      BY <1>1, <2>3 DEF Of
    <3> QED BY <2>3, <3>1 DEF LoopAlive
  <2> QED BY <2>1, <2>2, <2>3 DEF Step, LoopStep
<1>10. OneEach'
  <2>1. \A d, e \in new : d = e
    BY DEF Step, Askable
  <2>2. \A d \in new, e \in waiting \ done : ~(e.who = d.who /\ e.peer = d.peer)
    BY DEF Step, Askable
  <2> QED BY <1>1, <2>1, <2>2 DEF RInv, OneEach
<1> QED BY <1>5, <1>6, <1>8, <1>9, <1>10 DEF RInv

(* Every action is such a step.                                              *)
LEMMA ActionStep ==
    ASSUME RInv, RNext
    PROVE  TypedStep /\ \E done, new : Step(done, new) /\ Shape(done)
<1> USE RequestsAssumption
<1> DEFINE Goal == TypedStep /\ \E done, new : Step(done, new) /\ Shape(done)
<1>0. /\ RTypeOK /\ OneEach /\ wanted \in BOOLEAN /\ (loop = "idle" => ~wanted)
      /\ \A p \in Peer : map[p] = OpenTo(p) /\ (link[p] = "gone" => left[p] = 0 /\ map[p] = {})
      /\ link \in [Peer -> {"gone", "listed", "closing"}]
      /\ left \in [Peer -> 0..(Pings - 1)]
      /\ \A d, e \in Of("download", waiting) : d = e
      /\ loop # "asking" => Of("download", waiting) = {}
  BY DEF RInv, OpenExact, NobodyOrphaned, LoopAlive, OpenTo, RTypeOK
<1>1. ASSUME NEW w \in BOOLEAN, NEW done \in SUBSET waiting, SetDesired(w, done), UNCHANGED link,
             Of("download", done) = {}
      PROVE  \E new : Step(done, new)
  <2>1. Listed' = Listed /\ wanted' = w
    BY <1>1 DEF Listed, SetDesired
  <2>2. CASE loop = "idle" /\ w
    BY <1>0, <1>1, <2>1, <2>2, GoOn DEF SetDesired
  <2>3. CASE ~(loop = "idle" /\ w)
    BY <1>1, <2>1, <2>3, Fire DEF SetDesired
  <2> QED BY <2>2, <2>3
<1>2. ASSUME NEW p \in Peer, NEW done \in SUBSET waiting, NextPing(p, done),
             p \in Listed', UNCHANGED <<loop, wanted>>,
             \A d \in done : d.who = "ping", \A e \in waiting \ done : ~(e.who = "ping" /\ e.peer = p)
      PROVE  (\E new : Step(done, new)) /\ left' \in [Peer -> 0..(Pings - 1)]
             /\ \A q \in Peer : q # p => left'[q] = left[q]
  <2>1. Of("download", done) = {}
    BY <1>2 DEF Of
  <2>2. CASE left[p] > 0
    <3>1. Step(done, New("ping", p))
      BY <1>0, <1>2, <2>1, <2>2, Ask DEF NextPing
    <3> QED BY <1>0, <1>2, <2>2, <3>1 DEF NextPing
  <2>3. CASE ~(left[p] > 0)
    BY <1>0, <1>2, <2>1, <2>3, Fire DEF NextPing
  <2> QED BY <2>2, <2>3
<1>3. ASSUME NEW p \in Peer, link' = link \/ link' = Closing(p)
      PROVE  Listed' = Listed /\ link' \in [Peer -> {"gone", "listed", "closing"}]
             /\ \A q \in Peer : link'[q] = "gone" => link[q] = "gone"
  BY <1>0, <1>3 DEF Closing, Listed
<1>4. ASSUME NEW p \in Peer, NEW s \in Deferred, s \in map[p], link' = link \/ link' = Closing(p),
             link[p] # "gone",
             \/ /\ s.who = "download" /\ Go(Listed, wanted', {s}) /\ wanted' \in BOOLEAN
                /\ UNCHANGED left
             \/ /\ s.who = "download" /\ loop' \in {"sleep", "dead"} /\ Settle({s}, {})
                /\ UNCHANGED <<left, wanted>>
             \/ /\ s.who = "hashes" /\ UNCHANGED <<left, link>>
                /\ \E w \in BOOLEAN : SetDesired(w, {s})
             \/ s.who = "hashes" /\ Settle({s}, {}) /\ UNCHANGED <<left, loop, wanted>>
             \/ s.who = "ping" /\ NextPing(p, {s}) /\ UNCHANGED <<loop, wanted>>
      PROVE  Goal
  <2>1. {s} \in SUBSET waiting /\ s.peer = p /\ s \in waiting
    BY <1>0, <1>4 DEF OpenTo
  <2>2. /\ Listed' = Listed /\ link' \in [Peer -> {"gone", "listed", "closing"}]
        /\ \A q \in Peer : link'[q] = "gone" => link[q] = "gone"
    BY <1>3, <1>4
  <2>3. Shape({s})
    BY <2>1, <2>2 DEF Shape
  <2>4. s.who = "download" => Of("download", waiting) \subseteq {s}
    BY <1>0, <2>1 DEF Of
  <2>5. s.who # "download" => Of("download", {s}) = {}
    BY DEF Of
  <2>6. CASE /\ s.who = "download" /\ Go(Listed, wanted', {s}) /\ wanted' \in BOOLEAN
             /\ UNCHANGED left
    <3>1. \E new : Step({s}, new)
      BY <1>0, <2>1, <2>2, <2>4, <2>6, GoOn
    <3> QED BY <1>0, <2>2, <2>3, <2>6, <3>1 DEF TypedStep
  <2>7. CASE /\ s.who = "download" /\ loop' \in {"sleep", "dead"} /\ Settle({s}, {})
             /\ UNCHANGED <<left, wanted>>
    <3>1. Step({s}, {})
      BY <2>1, <2>4, <2>7 DEF Step, Askable, LoopStep, Of
    <3> QED BY <1>0, <2>2, <2>3, <2>7, <3>1 DEF TypedStep
  <2>8. CASE /\ s.who = "hashes" /\ UNCHANGED <<left, link>>
             /\ \E w \in BOOLEAN : SetDesired(w, {s})
    <3>1. \E new : Step({s}, new)
      BY <1>1, <2>1, <2>5, <2>8
    <3>2. wanted' \in BOOLEAN
      BY <2>8 DEF SetDesired
    <3> QED BY <1>0, <2>2, <2>3, <2>8, <3>1, <3>2 DEF TypedStep
  <2>9. CASE s.who = "hashes" /\ Settle({s}, {}) /\ UNCHANGED <<left, loop, wanted>>
    <3>1. Step({s}, {})
      BY <1>0, <2>1, <2>5, <2>9, Fire
    <3> QED BY <1>0, <2>2, <2>3, <2>9, <3>1 DEF TypedStep
  <2>10. CASE s.who = "ping" /\ NextPing(p, {s}) /\ UNCHANGED <<loop, wanted>>
    <3>1. p \in Listed'
      BY <1>4, <2>2 DEF Listed
    <3>2. \A e \in waiting \ {s} : ~(e.who = "ping" /\ e.peer = p)
      BY <1>0, <2>1, <2>10 DEF OneEach
    <3>3. (\E new : Step({s}, new)) /\ left' \in [Peer -> 0..(Pings - 1)]
          /\ \A q \in Peer : q # p => left'[q] = left[q]
      BY <1>2, <2>1, <2>10, <3>1, <3>2
    <3> QED BY <1>0, <1>4, <2>2, <2>3, <2>10, <3>3 DEF TypedStep
  <2> QED BY <1>4, <2>6, <2>7, <2>8, <2>9, <2>10
<1>5. CASE desired_changed
  <2>1. \E new : Step({}, new)
    BY <1>0, <1>1, <1>5 DEF desired_changed, Of
  <2>2. Shape({})
    BY <1>5 DEF Shape, desired_changed, Listed
  <2>3. TypedStep
    BY <1>0, <1>5 DEF TypedStep, desired_changed, SetDesired
  <2> QED BY <2>1, <2>2, <2>3
<1>6. CASE wakes
  <2>1. Listed' = Listed /\ Of("download", waiting) \subseteq {}
    BY <1>0, <1>6 DEF wakes, Listed
  <2>2. \E new : Step({}, new)
    BY <1>0, <1>6, <2>1, GoOn DEF wakes
  <2>3. Shape({})
    BY <2>1 DEF Shape
  <2>4. TypedStep
    BY <1>0, <1>6 DEF TypedStep, wakes
  <2> QED BY <2>2, <2>3, <2>4
<1>7. ASSUME NEW p \in Peer, got_conn(p) PROVE Goal
  <2>1. /\ p \in Listed' /\ p \in Peer \ Listed /\ Listed' = Listed \cup {p}
        /\ link' \in [Peer -> {"gone", "listed", "closing"}]
        /\ \A q \in Peer : link'[q] = "gone" => link[q] = "gone"
    BY <1>0, <1>7 DEF got_conn, Listed
  <2>2. OpenTo(p) = {}
    BY <1>0, <1>7 DEF got_conn
  <2>3. Of("download", {}) = {}
    BY DEF Of
  <2>4. \E new : Step({}, new)
    <3>1. CASE Settle({}, {})
      BY <1>0, <1>7, <2>3, <3>1, Fire DEF got_conn
    <3>2. CASE Settle({}, New("hashes", p))
      BY <1>0, <1>7, <2>1, <2>2, <2>3, <3>2, Ask DEF got_conn, OpenTo
    <3> QED BY <1>7, <3>1, <3>2 DEF got_conn
  <2>5. Shape({})
    BY <2>1 DEF Shape
  <2>6. TypedStep
    BY <1>0, <1>7, <2>1 DEF TypedStep, got_conn
  <2> QED BY <2>4, <2>5, <2>6
<1>8. ASSUME NEW p \in Peer, do_ping(p) PROVE Goal
  <2>1. p \in Listed' /\ Listed' = Listed
    BY <1>8 DEF do_ping, Listed
  <2>2. \A e \in waiting : ~(e.who = "ping" /\ e.peer = p)
    BY <1>0, <1>8 DEF do_ping, OpenTo, Of
  <2>3. Of("download", {}) = {}
    BY DEF Of
  <2>4. Step({}, New("ping", p))
    BY <1>0, <1>8, <2>1, <2>2, <2>3, Ask DEF do_ping
  <2>5. Shape({})
    BY <2>1 DEF Shape
  <2>6. TypedStep
    BY <1>0, <1>8 DEF TypedStep, do_ping
  <2> QED BY <2>4, <2>5, <2>6
<1>9. ASSUME NEW p \in Peer, abort(p) PROVE Goal
  <2>1. /\ Listed' = Listed /\ link' \in [Peer -> {"gone", "listed", "closing"}]
        /\ \A q \in Peer : link'[q] = "gone" => link[q] = "gone"
    BY <1>3, <1>9 DEF abort
  <2>2. Settle({}, {})
    BY <1>0, <1>9 DEF abort, requests, Settle, RTypeOK
  <2>3. Of("download", {}) = {}
    BY DEF Of
  <2>4. Step({}, {})
    BY <1>0, <1>9, <2>2, <2>3, Fire DEF abort
  <2>5. Shape({})
    BY <2>1 DEF Shape
  <2>6. TypedStep
    BY <1>0, <1>9, <2>1 DEF TypedStep, abort
  <2> QED BY <2>4, <2>5, <2>6
<1>10. ASSUME NEW p \in Peer, respond_all(p) PROVE Goal
  <2>1. /\ p \in Listed /\ Listed' = Listed \ {p} /\ wanted' = wanted
        /\ link' \in [Peer -> {"gone", "listed", "closing"}]
        /\ left' \in [Peer -> 0..(Pings - 1)] /\ left'[p] = 0
        /\ \A q \in Peer : q # p => link'[q] = link[q] /\ left'[q] = left[q]
    BY <1>0, <1>10 DEF respond_all, Listed
  <2>2. map[p] = OpenTo(p) /\ map[p] \in SUBSET waiting
    BY <1>0 DEF OpenTo
  <2>3. \E new : Step(map[p], new)
    <3>1. CASE Of("download", map[p]) # {}
      <4>1. Of("download", waiting) \subseteq map[p]
        BY <1>0, <2>2, <3>1 DEF Of
      <4> QED BY <1>0, <1>10, <2>1, <2>2, <3>1, <4>1, GoOn DEF respond_all
    <3>2. CASE Of("download", map[p]) = {}
      BY <1>0, <1>10, <2>1, <2>2, <3>2, Fire DEF respond_all
    <3> QED BY <3>1, <3>2
  <2>4. Shape(map[p])
    BY <2>1, <2>2 DEF Shape
  <2>5. TypedStep
    BY <1>0, <2>1 DEF TypedStep
  <2> QED BY <2>3, <2>4, <2>5
<1>11. ASSUME NEW p \in Peer, NEW s \in Deferred, sharereply(p, s) PROVE Goal
  <2> USE <1>11 DEF sharereply
  <2>0. s.who \in {"download", "hashes", "ping"}
    BY DEF Deferred
  <2>1. CASE SharesCome(p, s)
    BY <1>4, <2>0, <2>1 DEF SharesCome, HandleSharesRaises
  <2>2. CASE NoSharesCome(p, s)
    BY <1>4, <2>0, <2>2 DEF NoSharesCome
  <2>3. CASE ErrorComes(p, s)
    BY <1>0, <1>4, <2>0, <2>3 DEF ErrorComes
  <2> QED BY <2>1, <2>2, <2>3
<1>12. ASSUME NEW p \in Peer, NEW s \in Deferred, times_out(p, s) PROVE Goal
  <2>1. s.who \in {"download", "hashes", "ping"} /\ link[p] # "gone"
    BY <1>0, <1>12 DEF Deferred, times_out
  <2> QED BY <1>0, <1>4, <1>12, <2>1 DEF times_out
<1> QED
  BY <1>5, <1>6, <1>7, <1>8, <1>9, <1>10, <1>11, <1>12 DEF RNext
-----------------------------------------------------------------------------
LEMMA InitRInv == RInit => RInv
<1> SUFFICES ASSUME RInit PROVE RInv
  OBVIOUS
<1>1. RTypeOK
  <2>1. link \in [Peer -> {"gone", "listed", "closing"}]
    BY DEF RInit
  <2>2. map \in [Peer -> SUBSET Deferred]
    BY DEF RInit
  <2>3. left \in [Peer -> 0..(Pings - 1)]
    BY RequestsAssumption DEF RInit
  <2> QED BY <2>1, <2>2, <2>3 DEF RInit, RTypeOK
<1>2. OpenExact /\ NobodyOrphaned /\ OneEach
  BY DEF RInit, OpenExact, NobodyOrphaned, OneEach
<1>3. LoopAlive
  BY DEF RInit, LoopAlive, Of
<1> QED BY <1>1, <1>2, <1>3 DEF RInv

LEMMA NextRInv == RInv /\ [RNext]_rvars => RInv'
<1> SUFFICES ASSUME RInv, [RNext]_rvars PROVE RInv'
  OBVIOUS
<1>1. CASE RNext
  BY <1>1, ActionStep, StepKeeps
<1>2. CASE UNCHANGED rvars
  BY <1>2 DEF rvars, requests, RInv, RTypeOK, OpenExact, NobodyOrphaned, LoopAlive, OneEach, Of
<1> QED BY <1>1, <1>2

LEMMA Inductive == RSpec => []RInv
BY InitRInv, NextRInv, PTL DEF RSpec

(* Nobody waits for a connection that is gone, whatever callers ask anew     *)
(* while their requests are failed.                                         *)
THEOREM NoOrphans == RSpec => []NobodyOrphaned
BY Inductive, PTL DEF RInv

(* Whatever its requests come to, the download loop has one request open or  *)
(* none, and rests only when nothing is desired; handle_shares may end it.   *)
THEOREM LoopStaysAlive == RSpec => []LoopAlive
BY Inductive, PTL DEF RInv

(* A step fires one Deferred at most, or all of a connection that is lost.   *)
LEMMA StepRefines ==
    ASSUME RInv, NEW done, NEW new, Step(done, new), Shape(done)
    PROVE  P!Next
<1>1. P!Turn(done, Listed')
  <2>1. waiting' = (waiting \ done) \cup new
    BY DEF Step, Settle
  <2>2. CASE new = {}
    BY <2>1, <2>2 DEF P!Turn
  <2>3. CASE \E d \in Deferred \ waiting : new = {d} /\ d.peer \in Listed'
    BY <2>1, <2>3 DEF P!Turn
  <2> QED BY <2>2, <2>3 DEF Step, Askable
<1>2. CASE Listed' = Listed /\ (done = {} \/ \E s \in waiting : done = {s})
  BY <1>1, <1>2 DEF P!Next, P!Answer
<1>3. CASE done = {} /\ \E p \in Peer \ Listed : Listed' = Listed \cup {p}
  BY <1>1, <1>3 DEF P!Next, P!Connect
<1>4. CASE \E p \in Listed : Listed' = Listed \ {p} /\ done = OpenTo(p)
  <2>1. PICK p \in Listed : Listed' = Listed \ {p} /\ done = OpenTo(p)
    BY <1>4
  <2>2. p \in Peer /\ done = P!OpenTo(p)
    BY <2>1 DEF Listed, OpenTo, P!OpenTo
  <2> QED BY <1>1, <2>1, <2>2 DEF P!Next, P!Disconnect
<1> QED BY <1>2, <1>3, <1>4 DEF Shape

(* GenericDeferrer, its timeouts and the callers that ask again while their  *)
(* requests fail implement the promise of a Deferred that fires once, and no *)
(* later than its connection is lost.                                       *)
THEOREM ImplementsPromises == RSpec => P!Safe
<1>1. RInit => P!Init
  BY DEF RInit, P!Init, Listed
<1>2. RInv /\ [RNext]_rvars => [P!Next]_(P!promises)
  <2>1. RInv /\ RNext => P!Next
    BY ActionStep, StepRefines
  <2>2. UNCHANGED rvars => UNCHANGED P!promises
    BY DEF rvars, requests, P!promises, Listed
  <2> QED BY <2>1, <2>2
<1> QED BY <1>1, <1>2, Inductive, PTL DEF RSpec, P!Safe
=============================================================================
