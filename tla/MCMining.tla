------------------------------ MODULE MCMining ------------------------------
(* Two workers of one address, u2 with a difficulty of its own.  Two of them *)
(* mine at a node with the default settings, one at nodes that escalate the  *)
(* difficulty, that raise it with every job, that keep it at a minimum, and  *)
(* whose net takes no target as easy as that of a share for sane.           *)
EXTENDS Mining, TLC

CONSTANTS s1, s2, nobody, u1, u2, poolAddress, minerAddress, easy, good
TwoAddresses == [u \in Users |-> IF u = u2 THEN minerAddress ELSE poolAddress]
Suffixed == [u \in Users |-> IF u = u2 THEN 1 ELSE 0]
Levels == (easy :> 2) @@ (good :> 1)
TwoAndOne == (s1 :> 2) @@ (s2 :> 1)

Default ==
    [fixed |-> 0, min |-> 0, hardest |-> 1, floor |-> 2, ratchet |-> FALSE,
     perNotify |-> FALSE, downshift |-> FALSE, workerFee |-> FALSE,
     miners |-> {s1, s2}, users |-> {u1}, shares |-> {2}, local |-> {2},
     saneMin |-> 1, saneMax |-> 2, credits |-> 1]
Alone ==
    [Default EXCEPT !.miners = {s1}, !.shares = {1, 2}, !.local = {1}, !.credits = 2]
Escalating ==
    [Alone EXCEPT !.users = {u1, u2}, !.credits = 1, !.fixed = 2, !.ratchet = TRUE,
                  !.downshift = TRUE]
PerJob == [Alone EXCEPT !.fixed = 2, !.perNotify = TRUE]
Minimum ==
    [Alone EXCEPT !.min = 1, !.credits = 1, !.workerFee = TRUE, !.users = {u2}, !.local = {2}]
Narrow == [Alone EXCEPT !.saneMax = 1, !.shares = {2}, !.users = {u2}]
AllSettings == {Default, Escalating, PerJob, Minimum, Narrow}
=============================================================================
