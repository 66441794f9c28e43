---------------------------- MODULE NasFileLogs ----------------------------
(***************************************************************************)
(* The NAS file-log collector: scripts/nas_file_logs_collector.py and      *)
(* nas_file_logs_core.py, the snapshot script it calls over SSH, the NAS   *)
(* that writes and rotates the files meanwhile, and Loki, which it pushes  *)
(* to.                                                                     *)
(*                                                                         *)
(* One log source is modelled; the sources of SOURCES share the state file *)
(* and the outbox and nothing else.  A line is named by its place in the   *)
(* order of writing, which also stands for its bytes, so the digest of a   *)
(* prefix is the prefix itself; a cursor's offset counts lines.            *)
(***************************************************************************)
EXTENDS Integers, Sequences, FiniteSets

CONSTANTS
  Depth,      (* generations in the snapshot: current and its rotations     *)
  BootTail,   (* lines sent of a file never seen before (50 in the code)    *)
  BatchSize,  (* lines that fit into one push                               *)
  Headers,    (* lines that open a multi-line record (Samba, HAL daemon)    *)
  Normal,     (* lines the normal-pattern filter counts and drops           *)
  Clocks,     (* what the wall clock may say                                *)
  Styles,     (* how the NAS rotates: "rename", "truncate" (a copy is kept) *)
  MaxLines,   (* bound: lines written                                       *)
  MaxRotations, (* bound: rotations                                         *)
  MaxCrashes  (* bound: restarts of the collector                           *)

ASSUME NasAssumption ==
  /\ Depth \in Nat \ {0}
  /\ BootTail \in Nat \ {0}
  /\ BatchSize \in Nat \ {0}
  /\ MaxLines \in Nat \ {0}
  /\ MaxRotations \in Nat
  /\ MaxCrashes \in Nat
  /\ Clocks \subseteq Nat
  /\ Styles \subseteq {"rename", "truncate"}

Lines  == 1..MaxLines
Inodes == 1..(MaxRotations + 1)

(* A file: its inode, its lines, and whether the last one is unfinished.    *)
Files   == [ino : Inodes, lines : Seq(Lines), open : BOOLEAN]
Missing == [ino |-> 0, lines |-> <<>>, open |-> FALSE]
Size(f) == <<Len(f.lines), f.open>>

NoCursor == [ino |-> 0, prefix |-> <<>>, seen |-> <<0, FALSE>>]
Cursors  == [ino : 0..(MaxRotations + 1), prefix : Seq(Lines), seen : Nat \X BOOLEAN]

Entries == [ts : Nat, line : Lines]

(* The state file: what is acknowledged, and the outbox with the state      *)
(* that replaces this one once the outbox is delivered.                     *)
Acked  == [cursor : Cursors, last : Nat, gaps : Nat]
NoBox  == [entries |-> <<>>, next |-> [cursor |-> NoCursor, last |-> 0, gaps |-> 0]]
States == [acked : Acked, full : BOOLEAN, box : [entries : Seq(Entries), next : Acked]]
InitialState == [acked |-> NoBox.next, full |-> FALSE, box |-> NoBox]

VARIABLES
  nas,       (* the generations on the NAS, the current file first          *)
  written,   (* lines written so far                                        *)
  rotations, (* rotations so far                                            *)
  disk,      (* state.json                                                  *)
  mem,       (* self.state                                                  *)
  loaded,    (* self.state is not None                                      *)
  snap,      (* the generations read so far by the snapshot under way       *)
  upto,      (* history: lines written when its current file was read       *)
  boot,      (* history: the same for the first poll of the source           *)
  pc,        (* "wait" between polls, "snap" or "push" within one           *)
  pushed,    (* batches of the outbox sent in this poll                     *)
  loki,      (* entries Loki has                                            *)
  crashes

nasVars == <<nas, written, rotations>>
vars == <<nas, written, rotations, disk, mem, loaded, snap, upto, boot, pc, pushed,
          loki, crashes>>

TypeOK ==
  /\ nas \in Seq(Files) /\ Len(nas) \in 1..Depth
  /\ written \in 0..MaxLines
  /\ rotations \in 0..MaxRotations
  /\ disk \in States
  /\ mem \in States
  /\ loaded \in BOOLEAN
  /\ snap \in Seq(Files \cup {Missing}) /\ Len(snap) <= Depth
  /\ upto \in 0..MaxLines
  /\ boot \in 0..MaxLines
  /\ pc \in {"wait", "snap", "push"}
  /\ pushed \in Nat
  /\ loki \subseteq Entries
  /\ crashes \in 0..MaxCrashes

Init ==
  /\ nas = <<[ino |-> 1, lines |-> <<>>, open |-> FALSE]>>
  /\ written = 0
  /\ rotations = 0
  /\ disk = InitialState
  /\ mem = InitialState
  /\ loaded = FALSE
  /\ snap = <<>>
  /\ upto = 0
  /\ boot = 0
  /\ pc = "wait"
  /\ pushed = 0
  /\ loki = {}
  /\ crashes = 0

-----------------------------------------------------------------------------
(* The NAS.                                                                 *)

(* A line is written, in one piece or its beginning first.                  *)
WriteLine(part) ==
  /\ written < MaxLines
  /\ ~nas[1].open
  /\ nas' = [nas EXCEPT ![1] = [ino |-> @.ino, lines |-> Append(@.lines, written + 1),
                                 open |-> part]]
  /\ written' = written + 1
  /\ UNCHANGED <<rotations, disk, mem, loaded, snap, upto, pc, pushed, loki, boot, crashes>>

FinishLine ==
  /\ nas[1].open
  /\ nas' = [nas EXCEPT ![1].open = FALSE]
  /\ UNCHANGED <<written, rotations, disk, mem, loaded, snap, upto, pc, pushed, loki,
                 boot, crashes>>

(* Rename: the old generation keeps the inode.  Copy and truncate: the      *)
(* current file keeps it and the copy gets a new one.                       *)
Rotate(style) ==
  /\ rotations < MaxRotations
  /\ rotations' = rotations + 1
  /\ LET kept == nas[1].ino
         new  == rotations + 2
         cur  == [ino |-> IF style = "rename" THEN new ELSE kept, lines |-> <<>>,
                  open |-> FALSE]
         old  == [nas[1] EXCEPT !.ino = IF style = "rename" THEN kept ELSE new]
     IN nas' = SubSeq(<<cur, old>> \o Tail(nas), 1,
                      IF Len(nas) < Depth THEN Len(nas) + 1 ELSE Depth)
  /\ UNCHANGED <<written, disk, mem, loaded, snap, upto, pc, pushed, loki, boot, crashes>>

-----------------------------------------------------------------------------
(* prepare: the outbox a snapshot gives.                                    *)

Present(s) == {k \in DOMAIN s : s[k] # Missing}

Offset(c) == Len(c.prefix)

MatchesPrefix(f, c) ==
  /\ Len(f.lines) >= Offset(c)
  /\ SubSeq(f.lines, 1, Offset(c)) = c.prefix

Oldest(S) == CHOOSE k \in S : \A j \in S : j <= k

(* The generation the cursor points into: the oldest one with its inode and *)
(* prefix, else the oldest one with its prefix, else none (0).              *)
Found(s, c) ==
  LET prefixed == {k \in Present(s) : MatchesPrefix(s[k], c)}
      same     == {k \in prefixed : s[k].ino = c.ino}
  IN IF same # {} THEN Oldest(same) ELSE IF prefixed # {} THEN Oldest(prefixed) ELSE 0

(* Mutant: what a rotated file ends with is kept back like an open line.    *)
ReadToWholeLines(f, offset, seen, rotated) ==
  LET end == IF f.open THEN Len(f.lines) - 1 ELSE Len(f.lines)
  IN IF ~rotated /\ end > offset /\ f.lines[end] \in Headers /\ seen # Size(f)
     THEN end - 1
     ELSE IF end > offset THEN end ELSE offset

(* completed_records: the last line read of a file from an offset.  The     *)
(* rest of an unfinished line waits unless the file is rotated away, and so *)
(* does a lone header at the end, for one poll that finds the size of the   *)
(* poll before.                                                             *)
ReadTo(f, offset, seen, rotated) ==
  LET end == IF f.open /\ ~rotated THEN Len(f.lines) - 1 ELSE Len(f.lines)
  IN IF ~rotated /\ end > offset /\ f.lines[end] \in Headers /\ seen # Size(f)
     THEN end - 1
     ELSE IF end > offset THEN end ELSE offset

(* What is read: generation `oldest' from the offset, then each younger one *)
(* from its beginning, down to the current file.                            *)
ReadLines(s, oldest, offset, seen) ==
  LET from(k) == IF k = oldest THEN offset ELSE 0
      part(k) == SubSeq(s[k].lines, from(k) + 1, ReadTo(s[k], from(k), seen, k # 1))
      read[n \in 0..oldest] ==
        IF n = 0 THEN <<>> ELSE read[n - 1] \o part(oldest - n + 1)
  IN read[oldest]

(* The normal-pattern filter.                                               *)
Unfiltered(q) ==
  LET kept[n \in 0..Len(q)] ==
        IF n = 0 THEN <<>>
        ELSE IF q[n] \in Normal THEN kept[n - 1] ELSE Append(kept[n - 1], q[n])
  IN kept[Len(q)]

LastOf(q, n) == IF Len(q) <= n THEN q ELSE SubSeq(q, Len(q) - n + 1, Len(q))

(* Mutant: the clock alone stamps an entry.                                 *)
FirstStampClock(a, now) == now

(* Each entry is stamped with the clock, or one past the last stamp.        *)
FirstStamp(a, now) == IF now > a.last THEN now ELSE a.last + 1

(* The lines to send.  Of a source never seen before only the tail counts;  *)
(* with no generation found the current file is read from its beginning.    *)
Work(a, s) ==
  LET c     == a.cursor
      lines == CASE c = NoCursor -> LastOf(ReadLines(s, 1, 0, c.seen), BootTail)
                 [] c # NoCursor /\ Found(s, c) = 0 -> ReadLines(s, 1, 0, c.seen)
                 [] OTHER -> ReadLines(s, Found(s, c), Offset(c), c.seen)
  IN Unfiltered(lines)

(* Mutant: the size of the file is not taken over into the cursor.          *)
CursorAfterSizeLost(a, s) ==
  LET c    == a.cursor
      from == IF c # NoCursor /\ Found(s, c) = 1 THEN Offset(c) ELSE 0
  IN [ino |-> s[1].ino,
      prefix |-> SubSeq(s[1].lines, 1, ReadTo(s[1], from, c.seen, FALSE)),
      seen |-> c.seen]

(* The cursor goes to the last line read of the current file.               *)
CursorAfter(a, s) ==
  LET c    == a.cursor
      from == IF c # NoCursor /\ Found(s, c) = 1 THEN Offset(c) ELSE 0
  IN [ino |-> s[1].ino,
      prefix |-> SubSeq(s[1].lines, 1, ReadTo(s[1], from, c.seen, FALSE)),
      seen |-> Size(s[1])]

Candidate(st, s, now) ==
  LET a    == st.acked
      work == Work(a, s)
      t    == FirstStamp(a, now)
  IN [st EXCEPT
        !.full = TRUE,
        !.box = [entries |-> [i \in 1..Len(work) |-> [ts |-> t + i - 1, line |-> work[i]]],
                 next |-> [cursor |-> CursorAfter(a, s),
                           last |-> IF work = <<>> THEN a.last ELSE t + Len(work) - 1,
                           gaps |-> IF a.cursor # NoCursor /\ Found(s, a.cursor) = 0
                                    THEN a.gaps + 1 ELSE a.gaps]]]

-----------------------------------------------------------------------------
(* poll_once.                                                               *)

(* The outcomes of atomic_save: the new state is in place; or an exception, *)
(* before the file was replaced or after it (the directory's fsync).        *)
Saved(new)      == disk' = new
SaveFailed(new) == disk' \in {disk, new}

(* Mutant: the poll takes a new snapshot though the outbox is full.         *)
StartPollAnew ==
  /\ pc = "wait"
  /\ mem' = IF loaded THEN mem ELSE disk
  /\ loaded' = TRUE
  /\ pc' = "snap"
  /\ snap' = <<>>
  /\ upto' = 0
  /\ pushed' = 0
  /\ UNCHANGED <<nasVars, disk, loki, boot, crashes>>

StartPoll ==
  /\ pc = "wait"
  /\ mem' = IF loaded THEN mem ELSE disk
  /\ loaded' = TRUE
  /\ pc' = IF mem'.full THEN "push" ELSE "snap"
  /\ snap' = <<>>
  /\ upto' = 0
  /\ pushed' = 0
  /\ UNCHANGED <<nasVars, disk, loki, boot, crashes>>

(* The snapshot script prints the generations one after the other, the      *)
(* current file first, while the NAS goes on.                               *)
ReadGeneration ==
  /\ pc = "snap"
  /\ Len(snap) < Depth
  /\ snap' = Append(snap, IF Len(snap) < Len(nas) THEN nas[Len(snap) + 1] ELSE Missing)
  /\ upto' = IF snap = <<>> THEN written ELSE upto
  /\ UNCHANGED <<nasVars, disk, mem, loaded, pc, pushed, loki, boot, crashes>>

EndPoll == pc' = "wait" /\ snap' = <<>> /\ upto' = 0 /\ pushed' = 0

(* SSH, the protocol or a limit: the poll raises.                           *)
FetchFails ==
  /\ pc = "snap"
  /\ EndPoll
  /\ UNCHANGED <<nasVars, disk, mem, loaded, loki, boot, crashes>>

Prepare(now) ==
  /\ pc = "snap"
  /\ Len(snap) = Depth
  /\ mem' = Candidate(mem, snap, now)
  /\ Saved(mem')
  /\ pc' = "push"
  /\ snap' = <<>>
  /\ upto' = 0
  /\ boot' = (IF mem.acked.cursor = NoCursor THEN upto ELSE boot)
  /\ UNCHANGED <<nasVars, loaded, pushed, loki, crashes>>

PrepareNotSaved(now) ==
  /\ pc = "snap"
  /\ Len(snap) = Depth
  /\ SaveFailed(Candidate(mem, snap, now))
  /\ EndPoll
  /\ boot' = (IF mem.acked.cursor = NoCursor THEN upto ELSE boot)
  /\ UNCHANGED <<nasVars, mem, loaded, loki, crashes>>

Batch(b, k) == {b[i] : i \in {j \in DOMAIN b : j > k * BatchSize /\ j <= (k + 1) * BatchSize}}
AllPushed(b, k) == k * BatchSize >= Len(b)

Push ==
  /\ pc = "push"
  /\ ~AllPushed(mem.box.entries, pushed)
  /\ loki' = loki \cup Batch(mem.box.entries, pushed)
  /\ pushed' = pushed + 1
  /\ UNCHANGED <<nasVars, disk, mem, loaded, snap, upto, pc, boot, crashes>>

(* Mutant: a failed push is logged and the next batch is sent.              *)
PushFailsOnwards ==
  /\ pc = "push"
  /\ ~AllPushed(mem.box.entries, pushed)
  /\ pushed' = pushed + 1
  /\ UNCHANGED <<nasVars, disk, mem, loaded, snap, upto, pc, loki, boot, crashes>>

(* The push raises, the answer is not 204, or the poll's time is used up;   *)
(* Loki may have the batch all the same.                                    *)
PushFails ==
  /\ pc = "push"
  /\ ~AllPushed(mem.box.entries, pushed)
  /\ loki' \in {loki, loki \cup Batch(mem.box.entries, pushed)}
  /\ EndPoll
  /\ UNCHANGED <<nasVars, disk, mem, loaded, boot, crashes>>

(* Mutant: the outbox itself is committed, not the state in it.             *)
CommittedBox(st) == [acked |-> st.box, full |-> FALSE, box |-> NoBox]

Committed(st) == [acked |-> st.box.next, full |-> FALSE, box |-> NoBox]

Commit ==
  /\ pc = "push"
  /\ AllPushed(mem.box.entries, pushed)
  /\ mem' = Committed(mem)
  /\ Saved(mem')
  /\ EndPoll
  /\ UNCHANGED <<nasVars, loaded, loki, boot, crashes>>

CommitNotSaved ==
  /\ pc = "push"
  /\ AllPushed(mem.box.entries, pushed)
  /\ SaveFailed(Committed(mem))
  /\ EndPoll
  /\ UNCHANGED <<nasVars, mem, loaded, loki, boot, crashes>>

(* The container is restarted: self.state is gone.                          *)
Crash ==
  /\ crashes < MaxCrashes
  /\ crashes' = crashes + 1
  /\ loaded' = FALSE
  /\ mem' = InitialState
  /\ EndPoll
  /\ UNCHANGED <<nasVars, disk, loki, boot>>

-----------------------------------------------------------------------------

Nas == (\E part \in BOOLEAN : WriteLine(part)) \/ FinishLine
       \/ (\E style \in Styles : Rotate(style))

(* The steps of a poll that goes well, and the ways it fails.               *)
Progress ==
  \/ StartPoll \/ ReadGeneration \/ (\E now \in Clocks : Prepare(now))
  \/ Push \/ Commit
Failure ==
  \/ FetchFails \/ (\E now \in Clocks : PrepareNotSaved(now))
  \/ PushFails \/ CommitNotSaved

Next == Nas \/ Progress \/ Failure \/ Crash

Spec == Init /\ [][Next]_vars

(* main() polls for ever.  For anything to arrive the NAS, the state file   *)
(* and Loki must at some time be there to stay.                             *)
FairSpec == Spec /\ WF_vars(Progress) /\ <>[][~Failure]_vars

-----------------------------------------------------------------------------
(* Properties.                                                              *)

BoxEntries(st) == {st.box.entries[i] : i \in DOMAIN st.box.entries}

(* The collector implements the durable outbox: whatever order of crashes,  *)
(* failed saves and failed pushes, the entries on disk go away only when    *)
(* Loki has all of them, and are replaced only before the first one left.   *)
Outbox == INSTANCE DurableOutbox
            WITH box <- BoxEntries(disk), arrived <- loki
OutboxSpec == Outbox!Spec

(* No two lines are ever sent under one timestamp, however the wall clock   *)
(* jumps between polls and restarts: Loki would keep them in either order   *)
(* or take one for a repetition.                                            *)
StampsDistinct ==
  \A x, y \in loki \cup BoxEntries(disk) \cup BoxEntries(mem) :
    x.ts = y.ts => x.line = y.line

(* Of a source with one file, a line is sent under one timestamp only: a    *)
(* retry resends the outbox on disk, which Loki recognises, and no crash or *)
(* failed save makes a new one of lines that left.  (A rotation during the  *)
(* snapshot of several generations shows a file twice and its lines again.) *)
OneStampPerLine == \A x, y \in loki : x.line = y.line => x.ts = y.ts

(* A snapshot passes over a line if neither the new outbox has it nor the    *)
(* current file behind the new cursor, where the next poll reads on.         *)
PassedOver(l) ==
  LET box == mem'.box
  IN /\ \A i \in DOMAIN box.entries : box.entries[i].line # l
     /\ \A i \in DOMAIN snap[1].lines :
          snap[1].lines[i] = l => i <= Offset(box.next.cursor)

(* A known source is read and the outbox is filled.                          *)
Preparing == pc = "snap" /\ pc' = "push" /\ mem.acked.cursor # NoCursor

(* A line that rotation took out of reach is never passed over in silence:  *)
(* once the cursor has a prefix to be recognised by, every line after it is *)
(* in the outbox or a gap is counted.  The files may be rotated between two *)
(* reads of one snapshot, with a line cut in two.                           *)
SkipsAreCounted ==
  [][LET c == mem.acked.cursor
     IN Preparing /\ Offset(c) > 0 /\ mem'.box.next.gaps = mem.acked.gaps =>
          \A l \in (c.prefix[Offset(c)] + 1 .. upto) \ Normal : ~PassedOver(l)]_vars

(* At-least-once delivery: while no gap is counted, every line written      *)
(* since the first poll of the source and before this one is at Loki or on  *)
(* its way.                                                                 *)
AtLeastOnce ==
  [][Preparing /\ mem'.box.next.gaps = 0 =>
       \A l \in (boot + 1 .. upto) \ Normal :
         ~PassedOver(l) \/ \E e \in loki : e.line = l]_vars

Current(l) == \E i \in DOMAIN nas[1].lines :
                nas[1].lines[i] = l /\ (i < Len(nas[1].lines) \/ ~nas[1].open)

(* The first poll of a source found l with a whole tail of lines behind it, *)
(* and sends the tail only.                                                 *)
BehindTail(l) == l + BootTail <= boot

(* Every finished line of the current file reaches Loki, a lone header at   *)
(* its end included, unless it is rotated away first or was there at the    *)
(* source's first poll with BootTail lines after it: prepare then sends the *)
(* last 50 records only and the cursor passes the rest.                     *)
LineArrives ==
  \A l \in Lines \ Normal :
    Current(l) ~> (\E e \in loki : e.line = l) \/ ~Current(l) \/ BehindTail(l)
=============================================================================
