------------------------------- MODULE NasSmart -------------------------------
(***************************************************************************)
(* scripts/nas_smart.py: every two hours the SMART attributes of the NAS   *)
(* disks are read over SSH and their positive increments are added up in   *)
(* a state file, disk by disk.  One fault attribute stands for all; a      *)
(* value is reduced to its count.  The fields seen and base are history:   *)
(* how far the disk's true count had come when it was read, and when the   *)
(* running sum began.                                                      *)
(***************************************************************************)
EXTENDS Integers, FiniteSets

CONSTANTS Bays, Disks, NoState, MaxCount, MaxSwaps   \* MaxCount, MaxSwaps: bounds

VARIABLES
    inBay,      \* the disk in each bay
    raw,        \* the attribute as each disk reports it
    grown,      \* history: the true sum of each disk's increments
    swaps,      \* disk changes and counter resets so far
    smartFile,  \* the state file
    memory,     \* Collector: state, success
    poll        \* the running poll_once

vars == <<inBay, raw, grown, swaps, smartFile, memory, poll>>
nas == <<inBay, raw, grown, swaps>>

Init ==
    /\ inBay \in {f \in [Bays -> Disks] : \A a, b \in Bays : f[a] = f[b] => a = b}
    /\ raw = [d \in Disks |-> 0] /\ grown = raw /\ swaps = 0
    /\ smartFile = NoState
    /\ memory = [state |-> NoState, success |-> FALSE]
    /\ poll = [pc |-> "idle", previous |-> NoState, candidate |-> NoState]

-----------------------------------------------------------------------------
(* The NAS                                                                 *)

Grow(d) ==
    /\ grown[d] < MaxCount
    /\ raw' = [raw EXCEPT ![d] = @ + 1] /\ grown' = [grown EXCEPT ![d] = @ + 1]
    /\ UNCHANGED <<inBay, swaps>>
Reset(d) ==
    /\ swaps < MaxSwaps /\ swaps' = swaps + 1
    /\ raw' = [raw EXCEPT ![d] = 0] /\ UNCHANGED <<inBay, grown>>
Swap(b, d) ==
    /\ swaps < MaxSwaps /\ swaps' = swaps + 1
    /\ \A c \in Bays : inBay[c] # d
    /\ inBay' = [inBay EXCEPT ![b] = d] /\ UNCHANGED <<raw, grown>>
Nas ==
    /\ \/ \E d \in Disks : Grow(d) \/ Reset(d)
       \/ \E b \in Bays, d \in Disks : Swap(b, d)
    /\ UNCHANGED <<smartFile, memory, poll>>

-----------------------------------------------------------------------------
(* poll_once                                                               *)

\* parse_snapshot: all bays, each with one disk and a count.
Snapshot == [b \in Bays |-> [disk_id |-> inBay[b], raw |-> raw[inBay[b]], seen |-> grown[inBay[b]]]]

\* Mutant of Advance: a disk in the same bay is taken for the same disk.
AdvanceByBay(previous, disks) ==
    [b \in Bays |->
        LET new == disks[b]
            old == previous[b]
            same == previous # NoState
            more == IF same /\ new.raw > old.raw THEN new.raw - old.raw ELSE 0
        IN [disk_id |-> new.disk_id, raw |-> new.raw, seen |-> new.seen,
            increments |-> IF same THEN old.increments + more ELSE 0,
            base |-> IF same THEN old.base ELSE new.seen]]
Advance(previous, disks) ==
    [b \in Bays |->
        LET new == disks[b]
            old == previous[b]
            same == previous # NoState /\ old.disk_id = new.disk_id
            more == IF same /\ new.raw > old.raw THEN new.raw - old.raw ELSE 0
        IN [disk_id |-> new.disk_id, raw |-> new.raw, seen |-> new.seen,
            increments |-> IF same THEN old.increments + more ELSE 0,
            base |-> IF same THEN old.base ELSE new.seen]]

Quiet == poll' = [pc |-> "idle", previous |-> NoState, candidate |-> NoState]
Failed == memory' = [memory EXCEPT !.success = FALSE]

\* The state file is read again at every poll, whatever the last one did.
Load ==
    /\ poll.pc = "idle"
    /\ \/ /\ poll' = [poll EXCEPT !.pc = "fetch", !.previous = smartFile]
          /\ memory' = [memory EXCEPT !.state = smartFile]
       \/ Failed /\ Quiet
    /\ UNCHANGED <<nas, smartFile>>
Fetch ==
    /\ poll.pc = "fetch"
    /\ \/ /\ poll' = [poll EXCEPT !.pc = "save", !.candidate = Advance(poll.previous, Snapshot)]
          /\ UNCHANGED memory
       \/ Failed /\ Quiet
    /\ UNCHANGED <<nas, smartFile>>
\* A failed save may have replaced the file before it failed.
Save ==
    /\ poll.pc = "save"
    /\ \/ smartFile' = poll.candidate /\ poll' = [poll EXCEPT !.pc = "done"] /\ UNCHANGED memory
       \/ smartFile' \in {smartFile, poll.candidate} /\ Failed /\ Quiet
    /\ UNCHANGED nas
Done ==
    /\ poll.pc = "done"
    /\ memory' = [state |-> poll.candidate, success |-> TRUE] /\ Quiet
    /\ UNCHANGED <<nas, smartFile>>
\* What metrics shows of the disks.
Exported == IF memory.success THEN memory.state ELSE NoState
Restart ==
    /\ memory' = [state |-> NoState, success |-> FALSE] /\ Quiet
    /\ UNCHANGED <<nas, smartFile>>

Next == Nas \/ Load \/ Fetch \/ Save \/ Done \/ Restart
Spec == Init /\ [][Next]_vars

-----------------------------------------------------------------------------
(* The sums are true: an increment in the file never exceeds what that     *)
(* disk's counter grew since its sum began, and without a disk change or a *)
(* counter reset it is exactly that, whatever saves failed, before or      *)
(* after the file was replaced, and whatever restarts came between.  What  *)
(* metrics exports is never ahead of the file.                             *)
IncrementsTrue ==
    /\ smartFile # NoState => \A b \in Bays :
           LET d == smartFile[b] IN
           /\ d.increments <= d.seen - d.base
           /\ swaps = 0 => d.increments = d.seen - d.base
    /\ Exported # NoState => \A b \in Bays :
           Exported[b].disk_id = smartFile[b].disk_id
               => Exported[b].increments <= smartFile[b].increments
=============================================================================
