--------------------------- MODULE WorkersProofs ---------------------------
(***************************************************************************)
(* What the alerts say is so, for any number of workers and sockets, any    *)
(* thresholds and however often sessions authorize.                         *)
(***************************************************************************)
EXTENDS Workers, FiniteSetTheorems, TLAPS

Tellings == {"present", "absent", "open"}

(* What holds of each worker between two handlers.  A pending timer has     *)
(* something new to tell, a flapping worker has been told of as such, and   *)
(* of every other worker the last definite word is true.                    *)
Consistent(u) ==
    /\ u \in pendingConnect
         => conn_count[u] > 0 /\ u \notin flapping /\ told[u] # "present"
    /\ u \in pendingDisconnect => conn_count[u] = 0 /\ told[u] # "absent"
    /\ u \in flapping => told[u] = "open"
    /\ u \notin pendingConnect \cup pendingDisconnect
         => /\ told[u] = "present" => conn_count[u] > 0
            /\ told[u] = "absent" => conn_count[u] = 0

IInv ==
    /\ session \in [Sockets -> Users \cup {"closed", "new"}]
    /\ conn_count \in [Users -> Nat]
    /\ flapping \subseteq Users
    /\ pendingConnect \subseteq Users /\ pendingDisconnect \subseteq Users
    /\ told \in [Users -> Tellings]
    /\ \A u \in Users : Consistent(u)

-----------------------------------------------------------------------------
LEMMA SameTellings ==
    ASSUME NEW f \in [Users -> Tellings], NEW g \in [Users -> Tellings],
           \A u \in Users : f[u] = g[u]
    PROVE  f = g
OBVIOUS

(* A push changes what the reader takes to be so of the workers it names.   *)
LEMMA PushTells ==
    ASSUME NEW S, push(S), told \in [Users -> Tellings]
    PROVE  /\ told' \in [Users -> Tellings]
           /\ alerts' = S
           /\ \A u \in Users :
                 told'[u] = IF <<"worker_flapping", u>> \in S THEN "open"
                            ELSE IF <<"worker_connected", u>> \in S THEN "present"
                            ELSE IF <<"worker_disconnected", u>> \in S THEN "absent"
                            ELSE told[u]
<1>1. /\ alerts' = S
      /\ told' = [u \in Users |->
           IF u \in Of("worker_flapping", S) THEN "open"
           ELSE IF u \in Of("worker_connected", S) THEN "present"
           ELSE IF u \in Of("worker_disconnected", S) THEN "absent"
           ELSE told[u]]
  BY DEF push
<1>2. \A kind : \A u \in Users : u \in Of(kind, S) <=> <<kind, u>> \in S
  BY DEF Of
<1> QED
  BY <1>1, <1>2 DEF Tellings

(* Nothing pushed, nothing told.                                            *)
LEMMA QuietTells ==
    ASSUME push({}), told \in [Users -> Tellings]
    PROVE  told' = told /\ alerts' = {}
<1> DEFINE S == {}
<1>1. push(S) /\ \A u, kind : <<kind, u>> \notin S
  OBVIOUS
<1> HIDE DEF S
<1>2. /\ told' \in [Users -> Tellings] /\ alerts' = S
      /\ \A u \in Users : told'[u] = told[u]
  BY <1>1, PushTells
<1> QED
  BY <1>2, SameTellings DEF S

(* Recording a flap raises the flapping alert or says what is said          *)
(* otherwise, unless the worker flaps already; no other worker is touched.  *)
LEMMA RecordFlapTells ==
    ASSUME IInv, NEW u \in Users, NEW S, record_flap(u, S),
           S = {} \/ S = {<<"worker_disconnected", u>>}
    PROVE  /\ told' \in [Users -> Tellings]
           /\ flapping' \subseteq Users
           /\ \A v \in Users \ {u} :
                 told'[v] = told[v] /\ (v \in flapping' <=> v \in flapping)
           /\ \/ u \in flapping' /\ told'[u] = "open"
              \/ /\ u \notin flapping /\ u \notin flapping' /\ alerts' = S
                 /\ S = {} => told'[u] = told[u]
                 /\ S # {} => told'[u] = "absent"
<1>1. told \in [Users -> Tellings] /\ flapping \subseteq Users
  BY DEF IInv
<1>2. \/ /\ flapping' = flapping \cup {u}
         /\ push({<<"worker_flapping", u>>})
      \/ /\ flapping' = flapping
         /\ push(IF u \in flapping THEN {} ELSE S)
  BY DEF record_flap
<1>3. CASE flapping' = flapping \cup {u} /\ push({<<"worker_flapping", u>>})
  <2> DEFINE R == {<<"worker_flapping", u>>}
  <2>1. \A v \in Users : /\ <<"worker_flapping", v>> \in R <=> v = u
                         /\ <<"worker_connected", v>> \notin R
                         /\ <<"worker_disconnected", v>> \notin R
    OBVIOUS
  <2>2. push(R)
    BY <1>3
  <2> HIDE DEF R
  <2>3. /\ told' \in [Users -> Tellings]
        /\ \A v \in Users : told'[v] = IF v = u THEN "open" ELSE told[v]
    BY <1>1, <2>1, <2>2, PushTells
  <2> QED
    BY <1>1, <1>3, <2>3
<1>4. CASE flapping' = flapping /\ u \in flapping /\ push({})
  <2>1. told' = told
    BY <1>1, <1>4, QuietTells
  <2>2. told[u] = "open"
    BY <1>4 DEF IInv, Consistent
  <2> QED
    BY <1>1, <1>4, <2>1, <2>2
<1>5. CASE flapping' = flapping /\ u \notin flapping /\ push(S)
  <2>1. CASE S = {}
    <3>1. told' = told /\ alerts' = {}
      BY <1>1, <1>5, <2>1, QuietTells
    <3> QED
      BY <1>1, <1>5, <2>1, <3>1
  <2>2. CASE S = {<<"worker_disconnected", u>>}
    <3>1. \A v \in Users : /\ <<"worker_flapping", v>> \notin S
                           /\ <<"worker_connected", v>> \notin S
                           /\ <<"worker_disconnected", v>> \in S <=> v = u
      BY <2>2
    <3>2. /\ told' \in [Users -> Tellings] /\ alerts' = S
          /\ \A v \in Users : told'[v] = IF v = u THEN "absent" ELSE told[v]
      BY <1>1, <1>5, <3>1, PushTells
    <3> QED
      BY <1>1, <1>5, <2>2, <3>2
  <2> QED
    BY <2>1, <2>2
<1> QED
  BY <1>2, <1>3, <1>4, <1>5

-----------------------------------------------------------------------------
(* A worker's first socket.                                                 *)
LEMMA FirstConnected ==
    ASSUME IInv, NEW u \in Users, on_worker_connected(u), conn_count[u] = 0,
           conn_count' = [conn_count EXCEPT ![u] = @ + 1],
           session' \in [Sockets -> Users \cup {"closed", "new"}]
    PROVE  IInv'
<1>1. CASE u \in pendingDisconnect
  <2>1. /\ pendingDisconnect' = pendingDisconnect \ {u}
        /\ pendingConnect' = pendingConnect
        /\ record_flap(u, {})
    BY <1>1 DEF on_worker_connected
  <2>2. /\ told' \in [Users -> Tellings]
        /\ flapping' \subseteq Users
        /\ \A v \in Users \ {u} :
              told'[v] = told[v] /\ (v \in flapping' <=> v \in flapping)
        /\ \/ u \in flapping' /\ told'[u] = "open"
           \/ u \notin flapping' /\ told'[u] = told[u]
    BY <2>1, RecordFlapTells
  <2>3. told[u] # "absent" /\ u \notin pendingConnect
    BY <1>1 DEF IInv, Consistent
  <2>4. /\ conn_count' \in [Users -> Nat] /\ conn_count'[u] > 0
        /\ \A v \in Users \ {u} : conn_count'[v] = conn_count[v]
    BY DEF IInv
  <2>5. \A v \in Users \ {u} : Consistent(v)'
    BY <2>1, <2>2, <2>4 DEF IInv, Consistent
  <2>6. Consistent(u)'
    BY <2>1, <2>2, <2>3, <2>4 DEF IInv, Consistent
  <2> QED
    BY <2>1, <2>2, <2>4, <2>5, <2>6 DEF IInv
<1>2. CASE u \notin pendingDisconnect
  <2>1. /\ pendingConnect' = IF u \in flapping THEN pendingConnect
                             ELSE pendingConnect \cup {u}
        /\ pendingDisconnect' = pendingDisconnect /\ flapping' = flapping
        /\ push({})
    BY <1>2 DEF on_worker_connected
  <2>2. told' = told
    BY <2>1, QuietTells DEF IInv
  <2>3. u \notin pendingConnect
    BY DEF IInv, Consistent
  <2>4. told[u] # "present"
    BY <1>2, <2>3 DEF IInv, Consistent
  <2> QED
    BY <1>2, <2>1, <2>2, <2>3, <2>4 DEF IInv, Consistent
<1> QED
  BY <1>1, <1>2

(* A worker's last socket.                                                  *)
LEMMA LastDisconnected ==
    ASSUME IInv, NEW u \in Users, on_worker_disconnected(u), conn_count[u] = 1,
           conn_count' = [conn_count EXCEPT ![u] = 0],
           session' \in [Sockets -> Users \cup {"closed", "new"}]
    PROVE  IInv'
<1>1. CASE u \in pendingConnect
  <2>1. /\ pendingConnect' = pendingConnect \ {u}
        /\ pendingDisconnect' = pendingDisconnect
        /\ record_flap(u, {})
    BY <1>1 DEF on_worker_disconnected
  <2>2. /\ told' \in [Users -> Tellings]
        /\ flapping' \subseteq Users
        /\ \A v \in Users \ {u} :
              told'[v] = told[v] /\ (v \in flapping' <=> v \in flapping)
        /\ \/ u \in flapping' /\ told'[u] = "open"
           \/ u \notin flapping' /\ told'[u] = told[u]
    BY <2>1, RecordFlapTells
  <2>3. told[u] # "present" /\ u \notin pendingDisconnect
    BY <1>1 DEF IInv, Consistent
  <2> QED
    BY <2>1, <2>2, <2>3 DEF IInv, Consistent
<1>2. CASE u \notin pendingConnect
  <2>1. /\ pendingDisconnect' = pendingDisconnect \cup {u}
        /\ pendingConnect' = pendingConnect /\ flapping' = flapping
        /\ push({})
    BY <1>2 DEF on_worker_disconnected
  <2>2. told' = told
    BY <2>1, QuietTells DEF IInv
  <2>3. u \notin pendingDisconnect
    BY DEF IInv, Consistent
  <2>4. told[u] # "absent"
    BY <1>2, <2>3 DEF IInv, Consistent
  <2> QED
    BY <1>2, <2>1, <2>2, <2>3, <2>4 DEF IInv, Consistent
<1> QED
  BY <1>1, <1>2

(* Steps of no consequence to the reader.                                   *)
LEMMA NothingNew ==
    ASSUME IInv, NoAlert,
           conn_count' \in [Users -> Nat],
           \A u \in Users : conn_count'[u] > 0 <=> conn_count[u] > 0,
           session' \in [Sockets -> Users \cup {"closed", "new"}]
    PROVE  IInv'
<1>1. told' = told
  BY QuietTells DEF IInv, NoAlert
<1>2. UNCHANGED <<pendingConnect, pendingDisconnect, flapping>>
  BY DEF NoAlert, pusher
<1> QED
  BY <1>1, <1>2 DEF IInv, Consistent

-----------------------------------------------------------------------------
LEMMA AuthorizeIInv ==
    ASSUME IInv, NEW s \in Sockets, NEW u \in Users, rpc_authorize(s, u)
    PROVE  IInv'
<1>1. /\ session' = [session EXCEPT ![s] = u]
      /\ conn_count' = [conn_count EXCEPT ![u] = @ + 1]
      /\ IF u \in Connected THEN NoAlert ELSE on_worker_connected(u)
  BY DEF rpc_authorize, worker_connected
<1>2. session' \in [Sockets -> Users \cup {"closed", "new"}]
  BY <1>1 DEF IInv
<1>3. CASE u \in Connected
  <2>1. /\ conn_count' \in [Users -> Nat]
        /\ \A v \in Users : conn_count'[v] > 0 <=> conn_count[v] > 0
    BY <1>1, <1>3 DEF Connected, IInv
  <2> QED
    BY <1>1, <1>2, <1>3, <2>1, NothingNew
<1>4. CASE u \notin Connected
  <2>1. conn_count[u] = 0
    BY <1>4 DEF Connected, IInv
  <2> QED
    BY <1>1, <1>2, <1>4, <2>1, FirstConnected
<1> QED
  BY <1>3, <1>4

LEMMA ConnectionLostIInv ==
    ASSUME IInv, NEW s \in Sockets, connectionLost(s)
    PROVE  IInv'
<1>1. session' = [session EXCEPT ![s] = "closed"]
  BY DEF connectionLost
<1>2. session' \in [Sockets -> Users \cup {"closed", "new"}]
  BY <1>1 DEF IInv
<1>3. CASE session[s] = "new"
  <2>1. NoAlert /\ conn_count' = conn_count
    BY <1>3 DEF connectionLost
  <2> QED
    BY <1>2, <2>1, NothingNew DEF IInv
<1>4. CASE session[s] # "new"
  <2> DEFINE u == session[s]
  <2>1. u \in Users /\ worker_disconnected(u)
    BY <1>4 DEF connectionLost, IInv
  <2> HIDE DEF u
  <2>2. CASE conn_count[u] = 0 /\ conn_count' = conn_count /\ NoAlert
    BY <1>2, <2>2, NothingNew DEF IInv
  <2>3. CASE /\ conn_count[u] = 1 /\ on_worker_disconnected(u)
             /\ conn_count' = [conn_count EXCEPT ![u] = 0]
    BY <1>2, <2>1, <2>3, LastDisconnected
  <2>4. CASE /\ conn_count[u] > 1 /\ NoAlert
             /\ conn_count' = [conn_count EXCEPT ![u] = @ - 1]
    <3>1. /\ conn_count' \in [Users -> Nat]
          /\ \A v \in Users : conn_count'[v] > 0 <=> conn_count[v] > 0
      BY <2>1, <2>4 DEF IInv
    <3> QED
      BY <1>2, <2>4, <3>1, NothingNew
  <2> QED
    BY <2>1, <2>2, <2>3, <2>4 DEF worker_disconnected
<1> QED
  BY <1>3, <1>4

LEMMA FireConnectIInv ==
    ASSUME IInv, NEW u \in Users, fire_connect(u)
    PROVE  IInv'
<1>1. /\ u \in pendingConnect /\ pendingConnect' = pendingConnect \ {u}
      /\ push({<<"worker_connected", u>>})
      /\ UNCHANGED <<session, conn_count, pendingDisconnect, flapping>>
  BY DEF fire_connect
<1> DEFINE S == {<<"worker_connected", u>>}
<1>2. \A v \in Users : /\ <<"worker_flapping", v>> \notin S
                       /\ <<"worker_disconnected", v>> \notin S
                       /\ <<"worker_connected", v>> \in S <=> v = u
  OBVIOUS
<1> HIDE DEF S
<1>3. /\ told' \in [Users -> Tellings]
      /\ \A v \in Users : told'[v] = IF v = u THEN "present" ELSE told[v]
  BY <1>1, <1>2, PushTells DEF IInv, S
<1>4. conn_count[u] > 0 /\ u \notin flapping /\ u \notin pendingDisconnect
  BY <1>1 DEF IInv, Consistent
<1> QED
  BY <1>1, <1>2, <1>3, <1>4 DEF IInv, Consistent

LEMMA FireDisconnectIInv ==
    ASSUME IInv, NEW u \in Users, fire_disconnect(u)
    PROVE  IInv'
<1> DEFINE S == {<<"worker_disconnected", u>>}
<1>1. /\ u \in pendingDisconnect
      /\ pendingDisconnect' = pendingDisconnect \ {u}
      /\ record_flap(u, S)
      /\ UNCHANGED <<session, conn_count, pendingConnect>>
  BY DEF fire_disconnect
<1>2. /\ told' \in [Users -> Tellings]
      /\ flapping' \subseteq Users
      /\ \A v \in Users \ {u} :
            told'[v] = told[v] /\ (v \in flapping' <=> v \in flapping)
      /\ \/ u \in flapping' /\ told'[u] = "open"
         \/ u \notin flapping' /\ told'[u] = "absent"
  <2>1. S # {}
    OBVIOUS
  <2> QED
    BY <1>1, <2>1, RecordFlapTells
<1>3. conn_count[u] = 0 /\ u \notin pendingConnect
  BY <1>1 DEF IInv, Consistent
<1> QED
  BY <1>1, <1>2, <1>3 DEF IInv, Consistent

LEMMA PruneIInv ==
    ASSUME IInv, prune_flap_state
    PROVE  IInv'
<1>1. PICK cleared \in SUBSET flapping :
        /\ flapping' = flapping \ cleared
        /\ push({<<"worker_stable", u>> : u \in cleared})
        /\ UNCHANGED <<session, conn_count, pendingConnect, pendingDisconnect>>
  <2>1. PICK f \in [Users -> 0..FlapThreshold] :
          LET cleared == {u \in flapping : f[u] < FlapClear} IN
             /\ flapping' = flapping \ cleared
             /\ push({<<"worker_stable", u>> : u \in cleared})
             /\ UNCHANGED <<session, authorizes, conn_count, silent,
                            pendingConnect, pendingDisconnect>>
    BY DEF prune_flap_state
  <2>2. {u \in flapping : f[u] < FlapClear} \in SUBSET flapping
    OBVIOUS
  <2> QED
    BY <2>1, <2>2
<1> DEFINE S == {<<"worker_stable", u>> : u \in cleared}
<1>2. told' = told
  <2>1. \A u \in Users : /\ <<"worker_flapping", u>> \notin S
                         /\ <<"worker_connected", u>> \notin S
                         /\ <<"worker_disconnected", u>> \notin S
    OBVIOUS
  <2>2. push(S)
    BY <1>1
  <2> HIDE DEF S
  <2>3. /\ told' \in [Users -> Tellings] /\ told \in [Users -> Tellings]
        /\ \A u \in Users : told'[u] = told[u]
    BY <2>1, <2>2, PushTells DEF IInv
  <2> QED
    BY <2>3, SameTellings
<1> QED
  BY <1>1, <1>2 DEF IInv, Consistent

LEMMA CheckSilentIInv ==
    ASSUME IInv, check_silent_workers
    PROVE  IInv'
<1> DEFINE S == {<<"worker_silent", u>> : u \in silent' \ silent}
                  \cup {<<"worker_active_again", u>> : u \in silent \ silent'}
<1>1. /\ push(S) /\ UNCHANGED <<session, conn_count, pusher>>
  BY DEF check_silent_workers
<1>2. \A u \in Users : /\ <<"worker_flapping", u>> \notin S
                       /\ <<"worker_connected", u>> \notin S
                       /\ <<"worker_disconnected", u>> \notin S
  OBVIOUS
<1> HIDE DEF S
<1>3. told' = told
  <2>1. /\ told' \in [Users -> Tellings] /\ told \in [Users -> Tellings]
        /\ \A u \in Users : told'[u] = told[u]
    BY <1>1, <1>2, PushTells DEF IInv
  <2> QED
    BY <2>1, SameTellings
<1> QED
  BY <1>1, <1>3 DEF IInv, Consistent, pusher

-----------------------------------------------------------------------------
(* What recording a flap pushes.                                            *)
LEMMA RecordFlapPushes ==
    ASSUME NEW u, NEW S, record_flap(u, S),
           S = {} \/ S = {<<"worker_disconnected", u>>}
    PROVE  /\ \A v : <<"worker_connected", v>> \notin alerts'
           /\ \A v : <<"worker_disconnected", v>> \in alerts'
                     => v = u /\ S # {} /\ u \notin flapping
<1>1. alerts' \in {{<<"worker_flapping", u>>}, IF u \in flapping THEN {} ELSE S}
  BY DEF record_flap, push
<1>2. CASE alerts' = {<<"worker_flapping", u>>}
  BY <1>2
<1>3. CASE alerts' = IF u \in flapping THEN {} ELSE S
  BY <1>3
<1> QED
  BY <1>1, <1>2, <1>3

(* Sessions push no connect or disconnect alert themselves.                 *)
LEMMA SessionsPushNoNews ==
    ASSUME \/ NoAlert
           \/ \E u \in Users : on_worker_connected(u) \/ on_worker_disconnected(u)
    PROVE  News
<1>1. \/ push({})
      \/ \E u \in Users : record_flap(u, {})
  BY DEF NoAlert, on_worker_connected, on_worker_disconnected
<1>2. CASE push({})
  BY <1>2 DEF push, News
<1>3. CASE \E u \in Users : record_flap(u, {})
  BY <1>3, RecordFlapPushes DEF News
<1> QED
  BY <1>1, <1>2, <1>3

LEMMA NextNews ==
    ASSUME IInv, Next
    PROVE  News
<1>1. CASE \E s \in Sockets, u \in Users : rpc_authorize(s, u)
  BY <1>1, SessionsPushNoNews DEF rpc_authorize, worker_connected
<1>2. CASE \E s \in Sockets : connectionLost(s)
  <2>1. PICK s \in Sockets : connectionLost(s)
    BY <1>2
  <2>2. session[s] = "new" => NoAlert
    BY <2>1 DEF connectionLost
  <2>3. session[s] # "new" => session[s] \in Users /\ worker_disconnected(session[s])
    BY <2>1 DEF connectionLost, IInv
  <2> QED
    BY <2>2, <2>3, SessionsPushNoNews DEF worker_disconnected
<1>3. CASE \E s \in Sockets : connectionMade(s)
  BY <1>3, SessionsPushNoNews DEF connectionMade
<1>4. CASE \E u \in Users : fire_connect(u)
  <2>1. PICK u \in Users : fire_connect(u)
    BY <1>4
  <2>2. /\ alerts' = {<<"worker_connected", u>>}
        /\ u \in pendingConnect /\ conn_count' = conn_count
    BY <2>1 DEF fire_connect, push
  <2>3. told[u] # "present" /\ u \in Connected' /\ u \notin flapping
    BY <2>2 DEF IInv, Consistent, Connected
  <2> QED
    BY <2>2, <2>3 DEF News
<1>5. CASE \E u \in Users : fire_disconnect(u)
  <2>1. PICK u \in Users : fire_disconnect(u)
    BY <1>5
  <2>2. /\ record_flap(u, {<<"worker_disconnected", u>>})
        /\ u \in pendingDisconnect /\ conn_count' = conn_count
    BY <2>1 DEF fire_disconnect
  <2>3. told[u] # "absent" /\ u \notin Connected'
    BY <2>2 DEF IInv, Consistent, Connected
  <2>4. /\ \A v : <<"worker_connected", v>> \notin alerts'
        /\ \A v : <<"worker_disconnected", v>> \in alerts'
                  => v = u /\ u \notin flapping
    BY <2>2, RecordFlapPushes
  <2> QED
    BY <2>3, <2>4, Zenon DEF News
<1>6. CASE prune_flap_state
  BY <1>6 DEF prune_flap_state, push, News
<1>7. CASE check_silent_workers
  BY <1>7 DEF check_silent_workers, push, News
<1> QED
  BY <1>1, <1>2, <1>3, <1>4, <1>5, <1>6, <1>7 DEF Next

-----------------------------------------------------------------------------
LEMMA InitIInv == Init => IInv
BY DEF Init, IInv, Consistent, Tellings

LEMMA NextIInv == IInv /\ [Next]_vars => IInv'
<1> SUFFICES ASSUME IInv, [Next]_vars
             PROVE  IInv'
  OBVIOUS
<1>1. CASE \E s \in Sockets : connectionMade(s)
  <2>1. PICK s \in Sockets : connectionMade(s)
    BY <1>1
  <2> QED
    BY <2>1, NothingNew DEF connectionMade, IInv
<1>2. CASE \E s \in Sockets : connectionLost(s)
  BY <1>2, ConnectionLostIInv
<1>3. CASE \E s \in Sockets, u \in Users : rpc_authorize(s, u)
  BY <1>3, AuthorizeIInv
<1>5. CASE \E u \in Users : fire_connect(u)
  BY <1>5, FireConnectIInv
<1>6. CASE \E u \in Users : fire_disconnect(u)
  BY <1>6, FireDisconnectIInv
<1>8. CASE prune_flap_state
  BY <1>8, PruneIInv
<1>9. CASE check_silent_workers
  BY <1>9, CheckSilentIInv
<1>10. CASE UNCHANGED vars
  BY <1>10 DEF vars, pusher, reader, IInv, Consistent
<1> QED
  BY <1>1, <1>2, <1>3, <1>5, <1>6, <1>8, <1>9, <1>10 DEF Next

LEMMA InductiveInvariant == Spec => []IInv
<1> QED
  BY InitIInv, NextIInv, PTL DEF Spec

(* A timer that is pending belongs to the state the worker is in: whatever  *)
(* sessions, timers and sweeps do, a connect alert waits only for a worker  *)
(* that is connected and not flapping, a disconnect alert for one that is   *)
(* gone.                                                                    *)
THEOREM PendingAgrees == Spec => []TimersAgree
<1>1. IInv => TimersAgree
  BY DEF IInv, Consistent, TimersAgree, Connected
<1> QED
  BY <1>1, InductiveInvariant, PTL

(* Nobody is told the same twice: a connect or disconnect alert is news,    *)
(* true when it is sent, and never about a flapping worker.                 *)
THEOREM AlertsAreNews == Spec => AlertsAlternate
<1>1. IInv /\ [Next]_vars => [News]_vars
  BY NextNews
<1> QED
  BY <1>1, InductiveInvariant, PTL DEF Spec, AlertsAlternate

-----------------------------------------------------------------------------
(* A session that has not called authorize goes by no name, and one that    *)
(* has, does.                                                               *)
CountedOnce ==
    /\ session \in [Sockets -> Users \cup {"closed", "new"}]
    /\ authorizes \in [Sockets -> Nat]
    /\ conn_count \in [Users -> Nat]
    /\ \A s \in Sockets : /\ session[s] = "new" => authorizes[s] = 0
                          /\ session[s] \in Users => authorizes[s] > 0

(* A socket changes from one name to another, and nobody else moves.        *)
LEMMA Renamed ==
    ASSUME session \in [Sockets -> Users \cup {"closed", "new"}],
           NEW s \in Sockets, NEW n \in Users \cup {"closed", "new"},
           session' = [session EXCEPT ![s] = n]
    PROVE  \A u \in Users :
              /\ Cardinality(Sessions(u)) \in Nat
              /\ Cardinality(Sessions(u)')
                   = Cardinality(Sessions(u)) + (IF n = u THEN 1 ELSE 0)
                       - (IF session[s] = u THEN 1 ELSE 0)
<1> SUFFICES ASSUME NEW u \in Users
    PROVE  /\ Cardinality(Sessions(u)) \in Nat
           /\ Cardinality(Sessions(u)')
                = Cardinality(Sessions(u)) + (IF n = u THEN 1 ELSE 0)
                    - (IF session[s] = u THEN 1 ELSE 0)
  OBVIOUS
<1> DEFINE S == Sessions(u)
<1> DEFINE T == Sessions(u)'
<1>1. IsFiniteSet(S) /\ IsFiniteSet(T)
  BY FS_Subset, WorkersAssumption DEF Sessions
<1>2. Cardinality(S) \in Nat
  BY <1>1, FS_CardinalityType
<1>3. /\ s \in T <=> n = u
      /\ s \in S <=> session[s] = u
      /\ T \ {s} = S \ {s}
  BY DEF Sessions
<1> HIDE DEF S, T
<1>4. /\ Cardinality(S \ {s}) = IF s \in S THEN Cardinality(S) - 1 ELSE Cardinality(S)
      /\ Cardinality(T \ {s}) = IF s \in T THEN Cardinality(T) - 1 ELSE Cardinality(T)
      /\ Cardinality(T) \in Nat
  BY <1>1, FS_RemoveElement, FS_CardinalityType
<1>5. Cardinality(T) = Cardinality(S) + (IF s \in T THEN 1 ELSE 0)
                          - (IF s \in S THEN 1 ELSE 0)
  BY <1>2, <1>3, <1>4
<1>6. Cardinality(T) = Cardinality(S) + (IF n = u THEN 1 ELSE 0)
                          - (IF session[s] = u THEN 1 ELSE 0)
  BY <1>3, <1>5
<1> QED
  BY <1>2, <1>6 DEF S, T

LEMMA NextCountedOnce == CountedOnce /\ [Next]_vars => CountedOnce'
<1> SUFFICES ASSUME CountedOnce, [Next]_vars PROVE CountedOnce'
  OBVIOUS
<1>1. CASE UNCHANGED vars
  BY <1>1 DEF vars, CountedOnce
<1>2. ASSUME NEW s \in Sockets, connectionMade(s) PROVE CountedOnce'
  BY <1>2, WorkersAssumption DEF connectionMade, CountedOnce
<1>3. ASSUME NEW s \in Sockets, connectionLost(s) PROVE CountedOnce'
  <2>1. /\ session' = [session EXCEPT ![s] = "closed"] /\ authorizes' = authorizes
        /\ conn_count' \in [Users -> Nat]
    BY <1>3 DEF connectionLost, worker_disconnected, CountedOnce
  <2> QED
    BY <2>1, WorkersAssumption DEF CountedOnce
<1>4. ASSUME NEW s \in Sockets, NEW u \in Users, rpc_authorize(s, u) PROVE CountedOnce'
  <2>1. /\ session' = [session EXCEPT ![s] = u]
        /\ authorizes' = [authorizes EXCEPT ![s] = @ + 1]
        /\ conn_count' = [conn_count EXCEPT ![u] = @ + 1]
    BY <1>4 DEF rpc_authorize, worker_connected
  <2> QED
    BY <2>1, WorkersAssumption DEF CountedOnce
<1>5. CASE UNCHANGED <<session, authorizes, conn_count>>
  BY <1>5 DEF CountedOnce
<1>6. CASE Next
  BY <1>6, <1>2, <1>3, <1>4, <1>5
     DEF Next, fire_connect, fire_disconnect,
         prune_flap_state, check_silent_workers
<1> QED
  BY <1>1, <1>6

(* What a step does to the number of sessions of a name and to its count:   *)
(* they move together, but for a session that has a name and takes another. *)
LEMMA StepCounts ==
    ASSUME CountedOnce, [Next]_vars, NEW u \in Users
    PROVE  LET before == Cardinality(Sessions(u))
               after == Cardinality(Sessions(u)')
           IN /\ before \in Nat /\ after \in Nat
              /\ \/ after = before /\ conn_count'[u] = conn_count[u]
                 \/ after = before + 1 /\ conn_count'[u] = conn_count[u] + 1
                 \/ /\ after = before - 1
                    /\ conn_count'[u] = IF conn_count[u] = 0 THEN 0 ELSE conn_count[u] - 1
                 \/ /\ MaxAuthorize > 1
                    /\ \/ after = before /\ conn_count'[u] = conn_count[u] + 1
                       \/ after = before - 1 /\ conn_count'[u] = conn_count[u]
<1> DEFINE before == Cardinality(Sessions(u))
<1> DEFINE after == Cardinality(Sessions(u)')
<1> DEFINE Goal == /\ before \in Nat /\ after \in Nat
              /\ \/ after = before /\ conn_count'[u] = conn_count[u]
                 \/ after = before + 1 /\ conn_count'[u] = conn_count[u] + 1
                 \/ /\ after = before - 1
                    /\ conn_count'[u] = IF conn_count[u] = 0 THEN 0 ELSE conn_count[u] - 1
                 \/ /\ MaxAuthorize > 1
                    /\ \/ after = before /\ conn_count'[u] = conn_count[u] + 1
                       \/ after = before - 1 /\ conn_count'[u] = conn_count[u]
<1>0. before \in Nat /\ after \in Nat
  BY FS_Subset, FS_CardinalityType, WorkersAssumption DEF Sessions
<1> SUFFICES Goal
  OBVIOUS
<1> HIDE DEF before, after
<1>moves. ASSUME NEW s \in Sockets, NEW n \in Users \cup {"closed", "new"},
                 session' = [session EXCEPT ![s] = n]
          PROVE  after = before + (IF n = u THEN 1 ELSE 0)
                             - (IF session[s] = u THEN 1 ELSE 0)
  <2>1. session \in [Sockets -> Users \cup {"closed", "new"}]
    BY DEF CountedOnce
  <2>2. \A v \in Users :
           Cardinality(Sessions(v)')
             = Cardinality(Sessions(v)) + (IF n = v THEN 1 ELSE 0)
                 - (IF session[s] = v THEN 1 ELSE 0)
    BY <1>moves, <2>1, Renamed, Zenon
  <2> QED
    BY <2>2 DEF before, after
<1>1. CASE UNCHANGED <<session, conn_count>>
  BY <1>0, <1>1 DEF Sessions, before, after
<1>2. ASSUME NEW s \in Sockets, connectionMade(s) PROVE Goal
  <2>1. /\ session' = [session EXCEPT ![s] = "new"] /\ session[s] = "closed"
        /\ conn_count' = conn_count
    BY <1>2 DEF connectionMade
  <2>2. after = before
    <3>1. after = before + (IF "new" = u THEN 1 ELSE 0) - (IF session[s] = u THEN 1 ELSE 0)
      BY <1>moves, <2>1
    <3>2. "new" # u /\ session[s] # u
      BY <2>1, WorkersAssumption
    <3> QED
      BY <1>0, <3>1, <3>2
  <2> QED
    BY <1>0, <2>1, <2>2
<1>3. ASSUME NEW s \in Sockets, connectionLost(s) PROVE Goal
  <2>1. /\ session' = [session EXCEPT ![s] = "closed"]
        /\ session[s] # "closed"
        /\ session[s] = "new" => conn_count' = conn_count
        /\ session[s] # "new" => worker_disconnected(session[s])
    BY <1>3 DEF connectionLost
  <2>2. after = before - (IF session[s] = u THEN 1 ELSE 0)
    <3>1. after = before + (IF "closed" = u THEN 1 ELSE 0) - (IF session[s] = u THEN 1 ELSE 0)
      BY <1>moves, <2>1
    <3>2. "closed" # u
      BY WorkersAssumption
    <3> QED
      BY <1>0, <3>1, <3>2
  <2>3. CASE session[s] = u
    <3>1. conn_count'[u] = IF conn_count[u] = 0 THEN 0 ELSE conn_count[u] - 1
      BY <2>1, <2>3, WorkersAssumption DEF worker_disconnected, CountedOnce
    <3> QED
      BY <1>0, <2>2, <2>3, <3>1
  <2>4. CASE session[s] # u
    <3>1. conn_count'[u] = conn_count[u]
      BY <2>1, <2>4, WorkersAssumption DEF worker_disconnected, CountedOnce
    <3> QED
      BY <1>0, <2>2, <2>4, <3>1
  <2> QED
    BY <2>3, <2>4
<1>4. ASSUME NEW s \in Sockets, NEW n \in Users, rpc_authorize(s, n) PROVE Goal
  <2>1. /\ session' = [session EXCEPT ![s] = n]
        /\ session[s] # "closed" /\ authorizes[s] < MaxAuthorize
        /\ conn_count' = [conn_count EXCEPT ![n] = @ + 1]
    BY <1>4 DEF rpc_authorize, worker_connected
  <2>2. after = before + (IF n = u THEN 1 ELSE 0) - (IF session[s] = u THEN 1 ELSE 0)
    BY <1>moves, <2>1
  <2>3. session[s] = u => MaxAuthorize > 1
    BY <2>1, WorkersAssumption DEF CountedOnce
  <2>4. conn_count'[u] = IF n = u THEN conn_count[u] + 1 ELSE conn_count[u]
    BY <2>1 DEF CountedOnce
  <2> QED
    BY <1>0, <2>2, <2>3, <2>4
<1>5. CASE Next
  BY <1>1, <1>2, <1>3, <1>4, <1>5
     DEF Next, fire_connect, fire_disconnect,
         prune_flap_state, check_silent_workers
<1> QED
  BY <1>1, <1>5 DEF vars

LEMMA InitCounts == Init => CountedOnce /\ NeverUndercounts
<1> SUFFICES ASSUME Init PROVE CountedOnce /\ NeverUndercounts
  OBVIOUS
<1>1. CountedOnce
  BY WorkersAssumption DEF Init, CountedOnce
<1>2. \A u \in Users : Sessions(u) = {}
  BY WorkersAssumption DEF Init, Sessions
<1>3. Cardinality({}) = 0
  BY FS_EmptySet
<1> QED
  BY <1>1, <1>2, <1>3 DEF NeverUndercounts, Init

(* conn_count never says fewer sockets than a worker has, however often     *)
(* its sessions authorize: an entry is not deleted under a live session.    *)
THEOREM CountNeverLow == Spec => []NeverUndercounts
<1> DEFINE Inv == CountedOnce /\ NeverUndercounts
<1>1. Init => Inv
  BY InitCounts
<1>2. Inv /\ [Next]_vars => Inv'
  <2> SUFFICES ASSUME Inv, [Next]_vars PROVE Inv'
    OBVIOUS
  <2>1. CountedOnce'
    BY NextCountedOnce
  <2>2. ASSUME NEW u \in Users
        PROVE  conn_count'[u] >= Cardinality(Sessions(u)')
    <3>1. conn_count[u] >= Cardinality(Sessions(u)) /\ conn_count[u] \in Nat
      BY DEF NeverUndercounts, CountedOnce
    <3> QED
      BY <3>1, StepCounts
  <2> QED
    BY <2>1, <2>2 DEF NeverUndercounts
<1>3. Inv => NeverUndercounts
  OBVIOUS
<1> HIDE DEF Inv
<1> QED
  BY <1>1, <1>2, <1>3, PTL DEF Spec

(* What the reader of the alerts was last told, once no timer is pending:   *)
(* a worker said to be gone has no entry and not one live socket, and one   *)
(* said to be there has an entry.                                           *)
THEOREM AlertsAreTrue == Spec => []ReaderKnows
<1>1. IInv /\ NeverUndercounts => ReaderKnows
  <2> SUFFICES ASSUME IInv, NeverUndercounts, NEW u \in Users,
                      u \notin pendingConnect \cup pendingDisconnect
               PROVE  /\ told[u] = "present" => u \in Connected
                      /\ told[u] = "absent" => u \notin Connected /\ Sessions(u) = {}
    BY DEF ReaderKnows
  <2>1. /\ told[u] = "present" => u \in Connected
        /\ told[u] = "absent" => conn_count[u] = 0 /\ u \notin Connected
    BY DEF IInv, Consistent, Connected
  <2>2. conn_count[u] = 0 => Sessions(u) = {}
    <3>1. IsFiniteSet(Sessions(u))
      BY FS_Subset, WorkersAssumption DEF Sessions
    <3>2. Cardinality(Sessions(u)) \in Nat /\ conn_count[u] >= Cardinality(Sessions(u))
      BY <3>1, FS_CardinalityType DEF NeverUndercounts
    <3>3. Cardinality(Sessions(u)) = 0 => Sessions(u) = {}
      BY <3>1, FS_EmptySet
    <3> QED
      BY <3>2, <3>3
  <2> QED
    BY <2>1, <2>2
<1> QED
  BY <1>1, InductiveInvariant, CountNeverLow, PTL

=============================================================================
