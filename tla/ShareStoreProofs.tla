-------------------------- MODULE ShareStoreProofs --------------------------
(***************************************************************************)
(* What the share store keeps, over any crashes, for any shares and files.  *)
(***************************************************************************)
EXTENDS ShareStore, WellFoundedInduction, FiniteSetTheorems, TLAPS

(* A file that is not there holds nothing.                                   *)
Absent ==
    \A f \in File \ files :
       readable[f] = {} /\ known[f] = {} /\ desired[f] = {} /\ loose[f] = {} /\ ~open[f]

(* While the process is down nothing is known; when it is up, all that can    *)
(* be read is.                                                              *)
Loaded ==
    /\ phase = "down" => saved = {} /\ \A f \in File : known[f] = {}
    /\ phase # "down" => \A f \in File : readable[f] \subseteq known[f]

(* What is desired is what was saved.                                        *)
Wanted ==
    /\ \A f \in File : desired[f] \subseteq known[f] \cap saved
    /\ \A line \in saved : \E f \in File : line \in desired[f]

(* Nothing the tracker dropped is kept or added.                             *)
Current ==
    /\ todo \subseteq Tracked /\ (todo # {} => phase = "running")
    /\ phase = "running" => saved \subseteq Tracked

(* Only the last file is written to, so only it can end inside a line and    *)
(* be continued.                                                            *)
Continued(f) == f \in files /\ open[f] /\ size[f] < Capacity
OnlyLastContinued ==
    /\ \A f \in File : Continued(f) => \A g \in files : g <= f
    /\ \A f \in File : \A x, y \in loose[f] : x = y

(* Lines that are known and cannot be read: none before the file that ends   *)
(* inside a line is continued, two at most after that.                      *)
Lost == {line \in Line : (\E f \in File : line \in known[f]) /\ line \notin Readable}
LostFew ==
    /\ \E x, y : Lost \subseteq {x, y}
    /\ (\E f \in File : Continued(f)) => Lost = {}

IInv == /\ TypeOK /\ Absent /\ Loaded /\ Wanted /\ Current /\ OnceOnDisk
        /\ OnlyLastContinued /\ LostFew

-----------------------------------------------------------------------------
(* The last file is the one with the highest number.                         *)
LEMMA LastFile ==
    ASSUME NEW S \in SUBSET File, S # {}
    PROVE  Max(S) \in S /\ \A f \in S : f <= Max(S)
<1> DEFINE less == OpToRel(<, Nat)
           below == {Files - f : f \in S}
<1>1. \A f \in File : f \in Nat /\ Files - f \in Nat
  BY StoreAssumption DEF File
<1>2. \A i, j \in Nat : i < j => <<i, j>> \in less
  BY DEF OpToRel
<1>3. below \subseteq Nat /\ below # {}
  BY <1>1
<1>4. PICK x \in below : \A y \in below : <<y, x>> \notin less
  <2> HIDE DEF less, below
  <2> QED BY <1>3, NatLessThanWellFounded, WFMin DEF less
<1>5. PICK f \in S : x = Files - f
  BY <1>4
<1>6. ASSUME NEW g \in S PROVE g <= f
  <2>1. Files - g \in below /\ Files - g \in Nat /\ x \in Nat
    BY <1>1, <1>3, <1>4
  <2>2. ~(Files - g < x)
    BY <1>2, <1>4, <2>1
  <2> QED BY <1>1, <1>5, <2>2, StoreAssumption
<1> QED BY <1>1, <1>6 DEF Max
(* A line is written to a file that is not full: the last one, or a new one  *)
(* behind it.                                                               *)
LEMMA TargetIsLast ==
    ASSUME TypeOK, Target \in File
    PROVE  /\ \A g \in files : g <= Target
           /\ Target \in files => size[Target] < Capacity
           /\ \A f \in files : f # Target /\ (\A g \in files : g <= f) => ~(size[f] < Capacity)
<1> USE StoreAssumption
<1>0. \A f \in File : f \in Nat
  BY DEF File
<1>1. CASE files = {}
  BY <1>1 DEF Target
<1>2. CASE files # {}
  <2>1. Max(files) \in files /\ \A f \in files : f <= Max(files)
    BY <1>2, LastFile DEF TypeOK
  <2>2. CASE size[Max(files)] < Capacity
    <3>1. Target = Max(files)
      BY <1>2, <2>2 DEF Target
    <3>2. \A f \in files : (\A g \in files : g <= f) => f = Max(files)
      BY <1>0, <2>1 DEF TypeOK
    <3> QED BY <2>1, <2>2, <3>1, <3>2
  <2>3. CASE ~(size[Max(files)] < Capacity)
    <3>1. Target = Max(files) + 1
      BY <1>2, <2>3 DEF Target
    <3>2. \A f \in files : (\A g \in files : g <= f) => f = Max(files)
      BY <1>0, <2>1 DEF TypeOK
    <3>3. Max(files) \in Nat /\ \A f \in files : f \in Nat
      BY <1>0, <2>1 DEF TypeOK
    <3>4. Target \notin files /\ \A g \in files : g <= Target
      BY <2>1, <3>1, <3>3
    <3> QED BY <2>3, <3>2, <3>4
  <2> QED BY <2>2, <2>3
<1> QED BY <1>1, <1>2

(* add_share and add_verified_hash preserve what they disturb.               *)
LEMMA AddKeeps ==
    ASSUME IInv, phase # "down", NEW line \in Line, Add(line)
    PROVE  /\ Absent' /\ OnceOnDisk' /\ OnlyLastContinued' /\ LostFew' /\ Wanted'
           /\ \A f \in File : readable'[f] \subseteq known'[f]
           /\ files' \subseteq File /\ readable' \in [File -> SUBSET Line]
           /\ size' \in [File -> Nat] /\ open' \in [File -> BOOLEAN]
           /\ loose' \in [File -> SUBSET Line]
           /\ known' \in [File -> SUBSET Line] /\ desired' \in [File -> SUBSET Line]
           /\ saved' \subseteq Line
<1> USE StoreAssumption
<1>0. /\ TypeOK /\ Absent /\ OnceOnDisk /\ OnlyLastContinued /\ LostFew /\ Wanted
      /\ \A f \in File : readable[f] \subseteq known[f]
      /\ saved' = saved \cup {line}
  BY DEF IInv, Loaded, Add
<1>1. ASSUME NEW t \in Holding(line), desired' = [desired EXCEPT ![t] = @ \cup {line}],
             UNCHANGED <<disk, known>>
      PROVE  /\ Absent' /\ OnceOnDisk' /\ OnlyLastContinued' /\ LostFew' /\ Wanted'
             /\ \A f \in File : readable'[f] \subseteq known'[f]
             /\ desired' \in [File -> SUBSET Line]
  <2>1. t \in files /\ t \in File /\ line \in known[t]
    BY <1>0, <1>1 DEF Holding, TypeOK
  <2>2. desired' \in [File -> SUBSET Line]
    BY <1>0, <1>1, <2>1 DEF TypeOK
  <2>3. Wanted'
    BY <1>0, <1>1, <2>1 DEF Wanted, disk, TypeOK
  <2>4. Absent'
    BY <1>0, <1>1, <2>1 DEF Absent, disk, TypeOK
  <2>5. OnceOnDisk' /\ OnlyLastContinued'
    BY <1>0, <1>1 DEF OnceOnDisk, OnlyLastContinued, Continued, disk
  <2>6. LostFew'
    <3>1. Lost' = Lost
      BY <1>1 DEF Lost, Readable, disk
    <3> QED BY <1>0, <1>1, <3>1 DEF LostFew, Continued, disk
  <2> QED BY <1>0, <1>1, <2>2, <2>3, <2>4, <2>5, <2>6 DEF disk
<1>2. ASSUME Holding(line) = {}, _add_line(line)
      PROVE  /\ Absent' /\ OnceOnDisk' /\ OnlyLastContinued' /\ LostFew' /\ Wanted'
             /\ \A f \in File : readable'[f] \subseteq known'[f]
             /\ files' \subseteq File /\ readable' \in [File -> SUBSET Line]
             /\ size' \in [File -> Nat] /\ open' \in [File -> BOOLEAN]
             /\ loose' \in [File -> SUBSET Line]
             /\ known' \in [File -> SUBSET Line] /\ desired' \in [File -> SUBSET Line]
  <2> DEFINE t == Target
  <2>1. t \in File /\ files' = files \cup {t}
    BY <1>2 DEF _add_line
  <2>2. /\ \A f \in File \ {t} : /\ readable'[f] = readable[f] /\ known'[f] = known[f]
                                 /\ desired'[f] = desired[f] /\ open'[f] = open[f]
                                 /\ loose'[f] = loose[f] /\ size'[f] = size[f]
        /\ known'[t] = known[t] \cup {line} /\ desired'[t] = desired[t] \cup {line}
        /\ open'[t] = FALSE /\ loose'[t] = {} /\ size'[t] = size[t] + 1
        /\ readable'[t] = IF open[t] THEN readable[t] \ loose[t] ELSE readable[t] \cup {line}
    <3> HIDE DEF t
    <3>1. /\ readable' = [readable EXCEPT ![t] = IF open[t] THEN @ \ loose[t] ELSE @ \cup {line}]
          /\ size' = [size EXCEPT ![t] = @ + 1] /\ open' = [open EXCEPT ![t] = FALSE]
          /\ loose' = [loose EXCEPT ![t] = {}] /\ known' = [known EXCEPT ![t] = @ \cup {line}]
          /\ desired' = [desired EXCEPT ![t] = @ \cup {line}]
      BY <1>2 DEF _add_line, t
    <3> QED BY <1>0, <2>1, <3>1 DEF TypeOK
  <2>3. /\ files' \subseteq File /\ readable' \in [File -> SUBSET Line]
        /\ size' \in [File -> Nat] /\ open' \in [File -> BOOLEAN]
        /\ loose' \in [File -> SUBSET Line]
        /\ known' \in [File -> SUBSET Line] /\ desired' \in [File -> SUBSET Line]
    BY <1>0, <1>2, <2>1 DEF _add_line, TypeOK
  <2>4. \A f \in File : line \notin known[f] /\ line \notin readable[f]
    BY <1>0, <1>2 DEF Holding, Absent
  <2>5. /\ \A g \in files : g <= t
        /\ t \in files => size[t] < Capacity
        /\ \A f \in files : f # t /\ (\A g \in files : g <= f) => ~(size[f] < Capacity)
    BY <1>0, <2>1, TargetIsLast
  <2> HIDE DEF t
  <2>6. Absent'
    BY <1>0, <2>1, <2>2 DEF Absent
  <2>7. \A f \in File : readable'[f] \subseteq known'[f]
    BY <1>0, <2>2
  <2>8. OnceOnDisk'
    BY <1>0, <2>2, <2>4 DEF OnceOnDisk
  <2>9. \A f \in File : ~Continued(f)'
    <3>1. ASSUME NEW f \in File, f # t PROVE ~Continued(f)'
      BY <1>0, <2>1, <2>2, <2>5, <3>1 DEF Continued, OnlyLastContinued
    <3> QED BY <2>2, <3>1 DEF Continued
  <2>10. OnlyLastContinued'
    BY <1>0, <2>2, <2>9 DEF OnlyLastContinued
  <2>11. Wanted'
    BY <1>0, <2>1, <2>2 DEF Wanted
  <2>12. \E x, y : Lost' \subseteq {x, y}
    <3>1. CASE ~open[t]
      <4>1. ASSUME NEW x \in Lost' PROVE x \in Lost
        <5>1. x # line
          BY <2>1, <2>2, <3>1 DEF Lost, Readable
        <5>2. \E f \in File : x \in known[f]
          BY <2>1, <2>2, <5>1 DEF Lost
        <5>3. \A f \in File : x \notin readable[f]
          BY <2>1, <2>2, <3>1 DEF Lost, Readable
        <5> QED BY <5>2, <5>3 DEF Lost, Readable
      <4> QED BY <1>0, <4>1 DEF LostFew
    <3>2. CASE open[t]
      <4>1. Continued(t)
        BY <1>0, <2>1, <2>5, <3>2 DEF Continued, Absent
      <4>2. Lost = {}
        BY <1>0, <2>1, <4>1 DEF LostFew
      <4>3. ASSUME NEW x \in Lost', x # line PROVE x \in loose[t]
        <5>1. PICK f \in File : x \in known[f]
          BY <2>1, <2>2, <4>3 DEF Lost
        <5>2. PICK g \in File : x \in readable[g]
          BY <4>2, <5>1 DEF Lost, Readable
        <5>3. x \notin readable'[g]
          BY DEF Lost, Readable
        <5> QED BY <2>2, <5>2, <5>3
      <4>4. \A x, y \in loose[t] : x = y
        BY <1>0, <2>1 DEF OnlyLastContinued
      <4> QED BY <4>3, <4>4
    <3> QED BY <3>1, <3>2
  <2>13. LostFew'
    BY <2>9, <2>12 DEF LostFew
  <2> QED BY <2>3, <2>6, <2>7, <2>8, <2>10, <2>11, <2>13
<1>3. saved' \subseteq Line
  BY <1>0 DEF TypeOK
<1>4. CASE Holding(line) = {} /\ _add_line(line)
  BY <1>2, <1>3, <1>4
<1>5. CASE \E f \in Holding(line) : desired' = [desired EXCEPT ![f] = @ \cup {line}]
                                  /\ UNCHANGED <<disk, known>>
  BY <1>0, <1>1, <1>3, <1>5 DEF disk, TypeOK
<1> QED BY <1>4, <1>5 DEF Add
(* forget_share and forget_verified_share, too.                              *)
LEMMA ForgetKeeps ==
    ASSUME IInv, phase # "down", NEW line, Forget(line)
    PROVE  /\ Absent' /\ OnceOnDisk' /\ OnlyLastContinued' /\ LostFew' /\ Wanted'
           /\ \A f \in File : readable'[f] \subseteq known'[f]
           /\ files' \subseteq File /\ readable' \in [File -> SUBSET Line]
           /\ size' \in [File -> Nat] /\ open' \in [File -> BOOLEAN]
           /\ loose' \in [File -> SUBSET Line]
           /\ known' \in [File -> SUBSET Line] /\ desired' \in [File -> SUBSET Line]
           /\ saved' \subseteq Line
<1>0. /\ TypeOK /\ Absent /\ OnceOnDisk /\ OnlyLastContinued /\ LostFew /\ Wanted
      /\ \A f \in File : readable[f] \subseteq known[f]
      /\ saved' = saved \ {line}
  BY DEF IInv, Loaded, Forget
<1> DEFINE left == [f \in File |-> desired[f] \ {line}]
           gone == Unwanted(left)
<1>1. /\ gone \subseteq files /\ \A f \in gone : desired[f] \ {line} = {}
  BY <1>0 DEF Unwanted, TypeOK
<1>2. /\ files' = files \ gone
      /\ \A f \in File \ gone : /\ readable'[f] = readable[f] /\ known'[f] = known[f]
                               /\ size'[f] = size[f] /\ open'[f] = open[f]
                               /\ loose'[f] = loose[f] /\ desired'[f] = desired[f] \ {line}
      /\ \A f \in File \cap gone : /\ readable'[f] = {} /\ known'[f] = {} /\ size'[f] = 0
                                  /\ open'[f] = FALSE /\ loose'[f] = {} /\ desired'[f] = {}
  BY DEF Forget
<1>3. /\ readable' \in [File -> SUBSET Line] /\ known' \in [File -> SUBSET Line]
  BY <1>0 DEF Forget, TypeOK
<1>4. /\ size' \in [File -> Nat] /\ open' \in [File -> BOOLEAN]
  BY <1>0 DEF Forget, TypeOK
<1>5. /\ loose' \in [File -> SUBSET Line] /\ desired' \in [File -> SUBSET Line]
  BY <1>0 DEF Forget, TypeOK
<1> HIDE DEF left, gone
<1>6. files' \subseteq File /\ saved' \subseteq Line
  BY <1>0, <1>2 DEF TypeOK
<1>7. Absent'
  BY <1>0, <1>1, <1>2 DEF Absent
<1>8. OnceOnDisk'
  BY <1>0, <1>2 DEF OnceOnDisk
<1>9. \A f \in File : readable'[f] \subseteq known'[f]
  BY <1>0, <1>2
<1>10. \A f \in File : Continued(f)' => Continued(f)
  BY <1>0, <1>1, <1>2 DEF Continued
<1>11. OnlyLastContinued'
  BY <1>0, <1>2, <1>10 DEF OnlyLastContinued
<1>12. Wanted'
  <2>1. \A f \in File : desired'[f] \subseteq known'[f] \cap saved'
    BY <1>0, <1>1, <1>2 DEF Wanted
  <2>2. \A l \in saved' : \E f \in File : l \in desired'[f]
    BY <1>0, <1>1, <1>2 DEF Wanted
  <2> QED BY <2>1, <2>2 DEF Wanted
<1>13. Lost' \subseteq Lost
  BY <1>0, <1>2 DEF Lost, Readable, OnceOnDisk
<1>14. LostFew'
  BY <1>0, <1>10, <1>13 DEF LostFew
<1> QED BY <1>3, <1>4, <1>5, <1>6, <1>7, <1>8, <1>9, <1>11, <1>12, <1>14

-----------------------------------------------------------------------------
LEMMA InitIInv == Init => IInv
<1> SUFFICES ASSUME Init PROVE IInv
  OBVIOUS
<1>1. /\ readable = [f \in File |-> {}] /\ known = [f \in File |-> {}]
      /\ desired = [f \in File |-> {}] /\ loose = [f \in File |-> {}]
      /\ open = [f \in File |-> FALSE] /\ size = [f \in File |-> 0]
  BY DEF Init, Nothing
<1>2. readable \in [File -> SUBSET Line] /\ known \in [File -> SUBSET Line]
  BY <1>1
<1>3. desired \in [File -> SUBSET Line] /\ loose \in [File -> SUBSET Line]
  BY <1>1
<1>4. open \in [File -> BOOLEAN]
  BY <1>1
<1>5. size \in [File -> Nat]
  BY <1>1
<1>6. TypeOK
  BY <1>2, <1>3, <1>4, <1>5 DEF Init, TypeOK
<1>7. /\ \A f \in File : readable[f] = {} /\ known[f] = {} /\ desired[f] = {} /\ loose[f] = {}
                       /\ ~open[f]
      /\ files = {} /\ saved = {} /\ todo = {} /\ phase = "down"
  BY <1>1 DEF Init
<1>8. Absent /\ Loaded /\ Wanted /\ Current /\ OnceOnDisk
  BY <1>7 DEF Absent, Loaded, Wanted, Current, OnceOnDisk
<1>9. OnlyLastContinued /\ LostFew
  BY <1>7 DEF OnlyLastContinued, LostFew, Lost, Continued
<1> QED BY <1>6, <1>8, <1>9 DEF IInv

(* What the tracker does, and the store's other steps, leave the files alone. *)
LEMMA FilesAlone ==
    ASSUME IInv, UNCHANGED <<disk, known, desired, saved>>
    PROVE  /\ Absent' /\ OnceOnDisk' /\ OnlyLastContinued' /\ LostFew' /\ Wanted'
           /\ (phase # "down" => \A f \in File : readable'[f] \subseteq known'[f])
           /\ files' \subseteq File /\ readable' \in [File -> SUBSET Line]
           /\ size' \in [File -> Nat] /\ open' \in [File -> BOOLEAN]
           /\ loose' \in [File -> SUBSET Line]
           /\ known' \in [File -> SUBSET Line] /\ desired' \in [File -> SUBSET Line]
           /\ saved' \subseteq Line
<1>1. Absent' /\ OnceOnDisk' /\ Wanted'
  BY DEF IInv, Absent, OnceOnDisk, Wanted, disk
<1>2. OnlyLastContinued'
  BY DEF IInv, OnlyLastContinued, Continued, disk
<1>3. LostFew'
  <2>1. Lost' = Lost
    BY DEF Lost, Readable, disk
  <2> QED BY <2>1 DEF IInv, LostFew, Continued, disk
<1> QED BY <1>1, <1>2, <1>3 DEF IInv, Loaded, TypeOK, disk

(* The rest of the invariant after a step while the process is up.           *)
LEMMA UpStep ==
    ASSUME IInv, phase # "down", phase' \in {"starting", "forgetting", "running"},
           \/ UNCHANGED <<disk, known, desired, saved>>
           \/ \E line \in Line : Add(line)
           \/ \E line : Forget(line),
           items' \subseteq Share, verified' \subseteq items', best' \in Share \cup {0},
           todo' \subseteq Line, Current'
    PROVE  IInv'
<1>1. /\ Absent' /\ OnceOnDisk' /\ OnlyLastContinued' /\ LostFew' /\ Wanted'
      /\ \A f \in File : readable'[f] \subseteq known'[f]
      /\ files' \subseteq File /\ readable' \in [File -> SUBSET Line]
      /\ size' \in [File -> Nat] /\ open' \in [File -> BOOLEAN]
      /\ loose' \in [File -> SUBSET Line]
      /\ known' \in [File -> SUBSET Line] /\ desired' \in [File -> SUBSET Line]
      /\ saved' \subseteq Line
  <2>1. CASE UNCHANGED <<disk, known, desired, saved>>
    BY <2>1, FilesAlone
  <2>2. CASE \E line \in Line : Add(line)
    BY <2>2, AddKeeps
  <2>3. CASE \E line : Forget(line)
    BY <2>3, ForgetKeeps
  <2> QED BY <2>1, <2>2, <2>3
<1>2. TypeOK'
  BY <1>1 DEF TypeOK
<1>3. Loaded'
  BY <1>1 DEF Loaded
<1> QED BY <1>1, <1>2, <1>3 DEF IInv

(* A step of the running process, action by action.                          *)
LEMMA UpNext ==
    ASSUME IInv,
           \/ started \/ forget_or_watch \/ save_shares \/ add_next
           \/ \E s \in Share :
                 tracker_adds(s) \/ tracker_verifies(s) \/ best_changes(s) \/ tracker_removes(s)
    PROVE  IInv'
<1>0. TypeOK /\ Current
  BY DEF IInv
<1>1. CASE started
  <2>1. Current'
    BY <1>0, <1>1 DEF started, tracker, Current, Tracked
  <2> QED BY <1>0, <1>1, <2>1, UpStep DEF started, tracker, TypeOK
<1>2. CASE forget_or_watch
  <2>1. CASE \E line \in saved \ Tracked : Forget(line) /\ UNCHANGED phase
    <3>1. Current'
      BY <1>0, <1>2, <2>1 DEF forget_or_watch, tracker, Current, Tracked
    <3> QED BY <1>0, <1>2, <2>1, <3>1, UpStep DEF forget_or_watch, tracker, TypeOK
  <2>2. CASE saved \subseteq Tracked /\ phase' = "running" /\ UNCHANGED <<disk, known, desired, saved>>
    <3>1. Current'
      BY <1>0, <1>2, <2>2 DEF forget_or_watch, tracker, Current, Tracked
    <3> QED BY <1>0, <1>2, <2>2, <3>1, UpStep DEF forget_or_watch, tracker, TypeOK
  <2> QED BY <1>2, <2>1, <2>2 DEF forget_or_watch
<1>3. CASE save_shares
  <2>1. todo' \subseteq Tracked
    BY <1>3 DEF save_shares
  <2>2. Tracked \subseteq Line
    BY <1>0 DEF TypeOK, Tracked, Line
  <2>3. Current'
    BY <1>0, <1>3, <2>1 DEF save_shares, tracker, Current, Tracked
  <2> QED BY <1>0, <1>3, <2>1, <2>2, <2>3, UpStep DEF save_shares, tracker, TypeOK
<1>4. CASE add_next
  <2>1. PICK line \in todo : Add(line) /\ todo' = todo \ {line} /\ UNCHANGED <<phase, tracker>>
    BY <1>4 DEF add_next
  <2>2. line \in Line /\ saved' = saved \cup {line} /\ phase = "running"
    BY <1>0, <2>1 DEF TypeOK, Add, Current
  <2>3. Current'
    BY <1>0, <2>1, <2>2 DEF tracker, Current, Tracked
  <2> QED BY <1>0, <2>1, <2>2, <2>3, UpStep DEF tracker, TypeOK
<1>5. ASSUME NEW s \in Share, tracker_adds(s) PROVE IInv'
  <2>1. Current'
    BY <1>0, <1>5 DEF tracker_adds, Current, Tracked
  <2> QED BY <1>0, <1>5, <2>1, UpStep DEF tracker_adds, Idle, TypeOK
<1>6. ASSUME NEW s \in Share, tracker_verifies(s) PROVE IInv'
  <2>1. Current'
    BY <1>0, <1>6 DEF tracker_verifies, Current, Tracked
  <2> QED BY <1>0, <1>6, <2>1, UpStep DEF tracker_verifies, Idle, TypeOK
<1>7. ASSUME NEW s \in Share, best_changes(s) PROVE IInv'
  <2>1. Current'
    BY <1>0, <1>7 DEF best_changes, Current, Tracked
  <2> QED BY <1>0, <1>7, <2>1, UpStep DEF best_changes, Idle, TypeOK
<1>8. ASSUME NEW s \in Share, tracker_removes(s) PROVE IInv'
  <2>1. Idle /\ todo = {} /\ UNCHANGED <<phase, best, todo>>
    BY <1>8 DEF tracker_removes, Idle
  <2>2. ASSUME NEW line, Tell(line), items' \subseteq items, verified' \subseteq items',
               verified' \subseteq verified, Tracked \ {line} \subseteq Tracked'
        PROVE  IInv'
    <3>1. CASE phase = "running"
      <4>1. Forget(line) /\ saved' = saved \ {line}
        BY <2>2, <3>1 DEF Tell, Forget
      <4>2. Current'
        BY <1>0, <2>1, <2>2, <4>1 DEF Current
      <4> QED BY <1>0, <2>1, <2>2, <3>1, <4>1, <4>2, UpStep DEF TypeOK
    <3>2. CASE phase # "running"
      <4>1. UNCHANGED <<disk, known, desired, saved>>
        BY <2>2, <3>2 DEF Tell
      <4>2. Current'
        BY <1>0, <2>1, <3>2 DEF Current
      <4>3. phase = "starting"
        BY <2>1, <3>2 DEF Idle
      <4> QED BY <1>0, <2>1, <2>2, <4>1, <4>2, <4>3, UpStep DEF TypeOK
    <3> QED BY <3>1, <3>2
  <2>3. CASE s \in verified
    <3>1. verified' = verified \ {s} /\ Tell(<<"verified", s>>) /\ items' = items
      BY <1>8, <2>3 DEF tracker_removes
    <3>2. Tracked \ {<<"verified", s>>} \subseteq Tracked'
      BY <3>1 DEF Tracked
    <3> QED BY <1>0, <2>2, <3>1, <3>2 DEF TypeOK
  <2>4. CASE s \notin verified
    <3>1. items' = items \ {s} /\ Tell(<<"share", s>>) /\ verified' = verified
      BY <1>8, <2>4 DEF tracker_removes
    <3>2. Tracked \ {<<"share", s>>} \subseteq Tracked'
      BY <3>1 DEF Tracked
    <3> QED BY <1>0, <2>2, <2>4, <3>1, <3>2 DEF TypeOK
  <2> QED BY <2>3, <2>4
<1> QED BY <1>1, <1>2, <1>3, <1>4, <1>5, <1>6, <1>7, <1>8

(* A start reads the files, and forgets what was lost.                       *)
LEMMA StartStep == IInv /\ start => IInv'
<1> SUFFICES ASSUME IInv, start PROVE IInv'
  OBVIOUS
<1>0. /\ TypeOK /\ Absent /\ OnceOnDisk /\ OnlyLastContinued /\ todo = {}
      /\ phase' = "starting" /\ UNCHANGED <<best, disk, todo>>
      /\ known' = readable /\ desired' = readable /\ saved' = Readable
      /\ items' \subseteq Share /\ verified' \subseteq items'
  BY DEF start, IInv, Current
<1>1. TypeOK'
  BY <1>0 DEF TypeOK, disk, Readable
<1>2. Absent' /\ OnceOnDisk' /\ Loaded'
  BY <1>0 DEF Absent, OnceOnDisk, Loaded, disk
<1>3. Wanted' /\ Current'
  BY <1>0 DEF Wanted, Current, Readable, disk, TypeOK
<1>4. OnlyLastContinued'
  BY <1>0 DEF OnlyLastContinued, Continued, disk
<1>5. Lost' = {}
  BY <1>0 DEF Lost, Readable, disk
<1> QED BY <1>1, <1>2, <1>3, <1>4, <1>5 DEF IInv, LostFew

(* What is left in memory after a crash, whatever the disk holds.            *)
LEMMA MemoryGone ==
    ASSUME IInv, Memory, files' \subseteq File, readable' \in [File -> SUBSET Line],
           size' \in [File -> Nat], open' \in [File -> BOOLEAN],
           loose' \in [File -> SUBSET Line],
           \A f \in File \ files' : readable'[f] = {} /\ loose'[f] = {} /\ ~open'[f],
           \A f, g \in File : f # g => readable'[f] \cap readable'[g] = {},
           OnlyLastContinued'
    PROVE  IInv'
<1>1. known' = [f \in File |-> {}] /\ desired' = [f \in File |-> {}]
  BY DEF Memory, Nothing
<1>2. /\ \A f \in File : known'[f] = {} /\ desired'[f] = {}
      /\ saved' = {} /\ todo' = {} /\ phase' = "down" /\ items' = {} /\ verified' = {} /\ best' = 0
  BY <1>1 DEF Memory
<1>3. known' \in [File -> SUBSET Line] /\ desired' \in [File -> SUBSET Line]
  BY <1>1
<1>4. TypeOK'
  BY <1>2, <1>3 DEF TypeOK
<1>5. Absent' /\ OnceOnDisk' /\ Loaded' /\ Wanted' /\ Current'
  BY <1>2 DEF Absent, OnceOnDisk, Loaded, Wanted, Current
<1>6. Lost' = {}
  BY <1>2 DEF Lost
<1> QED BY <1>4, <1>5, <1>6 DEF IInv, LostFew

LEMMA CrashStep == IInv /\ crash => IInv'
<1> SUFFICES ASSUME IInv, crash PROVE IInv'
  OBVIOUS
<1>1. Memory /\ UNCHANGED disk
  BY DEF crash
<1>2. OnlyLastContinued'
  BY <1>1 DEF IInv, OnlyLastContinued, Continued, disk
<1> QED BY <1>1, <1>2, MemoryGone DEF IInv, TypeOK, Absent, OnceOnDisk, disk

(* A crash inside a write leaves the last file open, or the only one behind  *)
(* it.                                                                      *)
LEMMA CrashWritingStep == IInv /\ crash_writing => IInv'
<1> SUFFICES ASSUME IInv, crash_writing PROVE IInv'
  OBVIOUS
<1> DEFINE t == Target
<1>1. PICK line \in todo :
         /\ Holding(line) = {} /\ t \in File
         /\ files' = files \cup {t} /\ size' = [size EXCEPT ![t] = @ + 1]
         /\ open' = [open EXCEPT ![t] = TRUE]
         /\ \/ /\ loose' = [loose EXCEPT ![t] = {}]
               /\ readable' = [readable EXCEPT ![t] = @ \ loose[t]]
            \/ /\ loose' = [loose EXCEPT ![t] = {line}]
               /\ readable' = [readable EXCEPT ![t] = @ \cup {line}]
  BY DEF crash_writing
<1>2. /\ TypeOK /\ Absent /\ OnceOnDisk /\ OnlyLastContinued /\ Memory /\ line \in Line
      /\ \A f \in File : readable[f] \subseteq known[f]
  BY <1>1 DEF IInv, TypeOK, Loaded, Memory, crash_writing
<1>3. /\ \A g \in files : g <= t
      /\ \A f \in files : f # t /\ (\A g \in files : g <= f) => ~(size[f] < Capacity)
  BY <1>1, <1>2, TargetIsLast
<1>4. t <= t
  BY <1>1 DEF File
<1> HIDE DEF t
<1>5. /\ files' \subseteq File /\ readable' \in [File -> SUBSET Line]
      /\ size' \in [File -> Nat] /\ open' \in [File -> BOOLEAN]
      /\ loose' \in [File -> SUBSET Line]
  BY <1>1, <1>2 DEF TypeOK
<1>6. \A f \in File \ {t} : /\ readable'[f] = readable[f] /\ size'[f] = size[f]
                            /\ open'[f] = open[f] /\ loose'[f] = loose[f]
  BY <1>1, <1>2 DEF TypeOK
<1>7. readable'[t] \subseteq readable[t] \cup {line} /\ loose'[t] \subseteq {line}
  BY <1>1, <1>2 DEF TypeOK
<1>8. \A f \in File : line \notin readable[f]
  BY <1>1, <1>2 DEF Holding, Absent
<1>9. \A f \in File \ files' : readable'[f] = {} /\ loose'[f] = {} /\ ~open'[f]
  BY <1>1, <1>2, <1>6 DEF Absent
<1>10. \A f, g \in File : f # g => readable'[f] \cap readable'[g] = {}
  BY <1>2, <1>6, <1>7, <1>8 DEF OnceOnDisk
<1>11. OnlyLastContinued'
  <2>1. \A f \in File : Continued(f)' => f = t
    BY <1>1, <1>2, <1>3, <1>6 DEF Continued, OnlyLastContinued
  <2>2. \A f \in File : Continued(f)' => \A g \in files' : g <= f
    BY <1>1, <1>3, <1>4, <2>1
  <2>3. \A f \in File : \A x, y \in loose'[f] : x = y
    BY <1>2, <1>6, <1>7 DEF OnlyLastContinued
  <2> QED BY <2>2, <2>3 DEF OnlyLastContinued
<1> QED BY <1>2, <1>5, <1>9, <1>10, <1>11, MemoryGone

LEMMA NextIInv == IInv /\ [Next]_vars => IInv'
<1> SUFFICES ASSUME IInv, [Next]_vars PROVE IInv'
  OBVIOUS
<1>1. CASE UNCHANGED vars
  <2>1. Lost' = Lost /\ UNCHANGED disk
    BY <1>1 DEF vars, Lost, Readable, disk
  <2>2. Current'
    BY <1>1 DEF vars, tracker, IInv, Current, Tracked
  <2>3. Absent' /\ OnceOnDisk' /\ Wanted' /\ Loaded' /\ TypeOK'
    BY <1>1 DEF vars, tracker, disk, IInv, Absent, OnceOnDisk, Wanted, Loaded, TypeOK
  <2>4. OnlyLastContinued' /\ LostFew'
    BY <1>1, <2>1 DEF vars, disk, IInv, OnlyLastContinued, LostFew, Continued
  <2> QED BY <2>2, <2>3, <2>4 DEF IInv
<1>2. CASE Next
  BY <1>2, StartStep, UpNext, CrashStep, CrashWritingStep DEF Next
<1> QED BY <1>1, <1>2

LEMMA Inductive == Spec => []IInv
<1>1. Init => IInv
  BY InitIInv
<1>2. IInv /\ [Next]_vars => IInv'
  BY NextIInv
<1> QED BY <1>1, <1>2, PTL DEF Spec

-----------------------------------------------------------------------------
(* However shares come back and whatever a crash tore, each line is in one    *)
(* file at most (_add_line is reached only for a line no file is known to    *)
(* hold, and what is known is what can be read).                            *)
THEOREM EachLineInOneFile == Spec => []OnceOnDisk
<1>1. IInv => OnceOnDisk
  BY DEF IInv
<1> QED BY <1>1, Inductive, PTL

(* While the node runs, a file is kept for a share the tracker has           *)
(* (main.py forgets what was removed before it watches, and watches both     *)
(* removals).                                                               *)
THEOREM NothingKeptInVain == Spec => []KeptForTracker
<1>1. IInv => KeptForTracker
  BY DEF IInv, Current, Wanted, KeptForTracker
<1> QED BY <1>1, Inductive, PTL

(* What was saved can be read back, but for two lines: the one a crash tore   *)
(* and the one written behind it.                                           *)
THEOREM SavedSurvives == Spec => []Durable
<1>1. ASSUME IInv PROVE Durable
  <2>1. \A f \in File : desired[f] \subseteq known[f]
    BY <1>1 DEF IInv, Wanted
  <2>2. saved \ Readable \subseteq Lost
    BY <1>1, <2>1 DEF IInv, Wanted, Lost, TypeOK
  <2>3. PICK x, y : Lost \subseteq {x, y}
    BY <1>1 DEF IInv, LostFew
  <2>4. IsFiniteSet({y}) /\ Cardinality({y}) = 1
    BY FS_Singleton
  <2>5. IsFiniteSet({y} \cup {x}) /\ Cardinality({y} \cup {x}) <= 2
    BY <2>4, FS_AddElement
  <2>6. saved \ Readable \subseteq {y} \cup {x}
    BY <2>2, <2>3
  <2>7. Cardinality(saved \ Readable) <= Cardinality({y} \cup {x})
    BY <2>5, <2>6, FS_Subset
  <2>8. Cardinality(saved \ Readable) \in Nat /\ Cardinality({y} \cup {x}) \in Nat
    BY <2>5, <2>6, FS_Subset, FS_CardinalityType
  <2> QED BY <2>1, <2>5, <2>7, <2>8 DEF Durable
<1>2. IInv => Durable
  BY <1>1
<1> QED BY <1>2, Inductive, PTL
=============================================================================
