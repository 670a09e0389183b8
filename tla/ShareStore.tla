----------------------------- MODULE ShareStore -----------------------------
(***************************************************************************)
(* ShareStore (data.py): the files shares are kept in, with what main.py     *)
(* does to it: it loads them, forgets what the tracker did not keep, watches *)
(* what the tracker removes, and saves the best chain once a minute.        *)
(*                                                                         *)
(* A line says that a share was seen or that it was verified.  A crash while *)
(* a line is written leaves nothing of it, a part, or all of it but the line *)
(* end; what is written next continues that line, and neither can be read.   *)
(* (What is left of a verified hash may be read as a hash nobody knows, which *)
(* is forgotten at once.)  The tracker is external: it adds, verifies and    *)
(* removes as it likes, but keeps its best share.                           *)
(***************************************************************************)
EXTENDS Integers, FiniteSetsExt

CONSTANTS
    Share,           \* natural numbers: share s - 1 is the previous share of s
    Capacity,        \* lines of a file that is full (10e6 bytes)
    ChainLength,     \* shares that are saved at most (2 * CHAIN_LENGTH)
    Files            \* bound: files at a time

File == 1..Files
Line == {"share", "verified"} \X Share

ASSUME StoreAssumption ==
    /\ IsFiniteSet(Share) /\ Share \subseteq Nat \ {0}
    /\ Capacity \in Nat \ {0} /\ ChainLength \in Nat /\ Files \in Nat \ {0}

VARIABLES
    phase,           \* "down", "starting", "forgetting" or "running"
    items, verified, \* of the tracker
    best,            \* best_share_var, 0 for None
    files,           \* those there are, on disk and as keys of known
    readable,        \* of each file, lines that can be read
    size,            \* lines written to it
    open,            \* whether it ends inside a line,
    loose,           \* and that line, if it is whole
    known, desired,  \* by file
    todo,            \* what save_shares has still to add
    saved            \* history: lines loaded or added, and not forgotten since

disk == <<files, readable, size, open, loose>>
tracker == <<items, verified, best>>
vars == <<phase, tracker, disk, known, desired, todo, saved>>

Readable == {line \in Line : \E f \in File : line \in readable[f]}
Tracked == ({"share"} \X items) \cup ({"verified"} \X verified)
Nothing == [f \in File |-> {}]

-----------------------------------------------------------------------------
(* get_filenames_and_next                                                   *)
Target ==
    IF files = {} THEN 1
    ELSE IF size[Max(files)] < Capacity THEN Max(files) ELSE Max(files) + 1

_add_line(line) ==
    /\ Target \in File                             \* bound
    /\ files' = files \cup {Target}
    /\ readable' = [readable EXCEPT ![Target] =
                       IF open[Target] THEN @ \ loose[Target] ELSE @ \cup {line}]
    /\ size' = [size EXCEPT ![Target] = @ + 1]
    /\ open' = [open EXCEPT ![Target] = FALSE]
    /\ loose' = [loose EXCEPT ![Target] = {}]
    /\ known' = [known EXCEPT ![Target] = @ \cup {line}]
    /\ desired' = [desired EXCEPT ![Target] = @ \cup {line}]

HoldingDesired(line) == {f \in files : line \in desired[f]}    \* mutant of Holding
Holding(line) == {f \in files : line \in known[f]}

(* add_share and add_verified_hash                                          *)
Add(line) ==
    /\ saved' = saved \cup {line}
    /\ \/ Holding(line) = {} /\ _add_line(line)
       \/ \E f \in Holding(line) :
             /\ desired' = [desired EXCEPT ![f] = @ \cup {line}]
             /\ UNCHANGED <<disk, known>>

IgnoresVerified(left) ==                           \* mutant of Unwanted
    {f \in files : left[f] \cap ({"share"} \X Share) = {}}
Unwanted(left) == {f \in files : left[f] = {}}

(* forget_share and forget_verified_share, which call check_remove          *)
Forget(line) ==
    LET left == [f \in File |-> desired[f] \ {line}]
        gone == Unwanted(left)
        Without(table, none) == [f \in File |-> IF f \in gone THEN none ELSE table[f]]
    IN /\ saved' = saved \ {line}
       /\ files' = files \ gone
       /\ readable' = Without(readable, {}) /\ size' = Without(size, 0)
       /\ open' = Without(open, FALSE) /\ loose' = Without(loose, {})
       /\ known' = Without(known, {}) /\ desired' = Without(left, {})

-----------------------------------------------------------------------------
(* A file without a line that can be read is known, too.                    *)
start ==
    /\ phase = "down" /\ phase' = "starting"
    /\ known' = readable /\ desired' = readable /\ saved' = Readable
    /\ items' = {s \in Share : <<"share", s>> \in Readable}
    /\ verified' = {s \in items' : <<"verified", s>> \in Readable}
    /\ UNCHANGED <<best, disk, todo>>

(* node and broadcaster are started                                         *)
started ==
    /\ phase = "starting" /\ phase' = "forgetting"
    /\ UNCHANGED <<tracker, disk, known, desired, todo, saved>>

StartWatching ==                                   \* mutant of forget_or_watch
    /\ phase = "forgetting" /\ phase' = "running"
    /\ UNCHANGED <<tracker, disk, known, desired, todo, saved>>

forget_or_watch ==
    /\ phase = "forgetting"
    /\ \/ \E line \in saved \ Tracked : Forget(line) /\ UNCHANGED phase
       \/ /\ saved \subseteq Tracked /\ phase' = "running"
          /\ UNCHANGED <<disk, known, desired, saved>>
    /\ UNCHANGED <<tracker, todo>>

save_shares ==
    /\ phase = "running" /\ todo = {}
    /\ LET chain == {s \in items : best - s < ChainLength /\ s <= best /\ s..best \subseteq items}
       IN todo' = {line \in Tracked : line[2] \in chain}
    /\ UNCHANGED <<phase, tracker, disk, known, desired, saved>>

(* From the best share down, a share before its verified hash.              *)
add_next ==
    \E line \in todo :
       /\ \A other \in todo :
             \/ line[2] > other[2] \/ line = other
             \/ line[2] = other[2] /\ line[1] = "share"
       /\ Add(line)
       /\ todo' = todo \ {line}
       /\ UNCHANGED <<phase, tracker>>

(* The tracker, which may change while nothing is saved or forgotten.       *)
Idle == phase \in {"starting", "running"} /\ todo = {}

tracker_adds(s) ==
    /\ Idle /\ items' = items \cup {s} /\ items' # items
    /\ UNCHANGED <<phase, verified, best, disk, known, desired, todo, saved>>

tracker_verifies(s) ==
    /\ Idle /\ s \in items \ verified /\ verified' = verified \cup {s}
    /\ UNCHANGED <<phase, items, best, disk, known, desired, todo, saved>>

best_changes(s) ==
    /\ Idle /\ s \in verified \ {best} /\ best' = s
    /\ UNCHANGED <<phase, items, verified, disk, known, desired, todo, saved>>

Tell(line) ==
    IF phase = "running" THEN Forget(line) ELSE UNCHANGED <<disk, known, desired, saved>>

tracker_removes(s) ==
    /\ Idle /\ s \in items /\ s # best
    /\ IF s \in verified THEN /\ verified' = verified \ {s} /\ Tell(<<"verified", s>>)
                              /\ UNCHANGED items
       ELSE /\ items' = items \ {s} /\ Tell(<<"share", s>>)
            /\ UNCHANGED verified
    /\ UNCHANGED <<phase, best, todo>>

-----------------------------------------------------------------------------
(* The process ends, perhaps inside a write.                                *)
Memory ==
    /\ phase # "down" /\ phase' = "down"
    /\ items' = {} /\ verified' = {} /\ best' = 0
    /\ known' = Nothing /\ desired' = Nothing /\ todo' = {} /\ saved' = {}

crash == Memory /\ UNCHANGED disk

crash_writing ==
    /\ Memory
    /\ \E line \in todo :
          /\ Holding(line) = {} /\ Target \in File
          /\ files' = files \cup {Target}
          /\ size' = [size EXCEPT ![Target] = @ + 1]
          /\ open' = [open EXCEPT ![Target] = TRUE]
          /\ \/ /\ loose' = [loose EXCEPT ![Target] = {}]
                /\ readable' = [readable EXCEPT ![Target] = @ \ loose[Target]]
             \/ /\ ~open[Target]
                /\ loose' = [loose EXCEPT ![Target] = {line}]
                /\ readable' = [readable EXCEPT ![Target] = @ \cup {line}]

Init ==
    /\ phase = "down" /\ items = {} /\ verified = {} /\ best = 0
    /\ files = {} /\ readable = Nothing /\ size = [f \in File |-> 0]
    /\ open = [f \in File |-> FALSE] /\ loose = Nothing
    /\ known = Nothing /\ desired = Nothing /\ todo = {} /\ saved = {}

Next ==
    \/ start \/ started \/ forget_or_watch \/ save_shares \/ add_next
    \/ crash \/ crash_writing
    \/ \E s \in Share :
          tracker_adds(s) \/ tracker_verifies(s) \/ best_changes(s) \/ tracker_removes(s)

Spec == Init /\ [][Next]_vars

-----------------------------------------------------------------------------
TypeOK ==
    /\ phase \in {"down", "starting", "forgetting", "running"}
    /\ verified \subseteq items /\ items \subseteq Share /\ best \in Share \cup {0}
    /\ files \subseteq File /\ readable \in [File -> SUBSET Line]
    /\ size \in [File -> Nat] /\ open \in [File -> BOOLEAN]
    /\ loose \in [File -> SUBSET Line]
    /\ known \in [File -> SUBSET Line] /\ desired \in [File -> SUBSET Line]
    /\ todo \subseteq Line /\ saved \subseteq Line

(* What was saved can be read back while the tracker has it, but for what a  *)
(* crash tore and the line behind it: no file that is still needed goes, and *)
(* no line is taken to be saved before it is.                               *)
Durable ==
    /\ \A f \in File : desired[f] \subseteq known[f]
    /\ Cardinality(saved \ Readable) <= 2

(* However often shares leave the best chain and the tracker and come back,  *)
(* and whatever was lost on the way, a line is in one file only: the file    *)
(* can go when nothing in it is desired.                                    *)
OnceOnDisk ==
    \A f, g \in File : f # g => readable[f] \cap readable[g] = {} /\ known[f] \cap known[g] = {}

(* What keeps a file is in the tracker, also if it was removed while the     *)
(* node started and nobody watched.                                         *)
KeptForTracker ==
    phase = "running" => \A f \in File : desired[f] \subseteq Tracked
=============================================================================
