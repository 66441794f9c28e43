---------------------- MODULE SecurityCapture_proofs ----------------------
(***************************************************************************)
(* Proofs about SecurityCapture, for every size of the spool and of the    *)
(* receipt store and any number of captures and crashes.                   *)
(*                                                                         *)
(* A crash may end any command between two of its file operations, so what *)
(* a command relies on must follow from the files alone.  The inductive    *)
(* invariant says what each run contains while serve works on it (Serving) *)
(* and what ack has secured before it deletes (Acking); the rest relates   *)
(* the spool, the request, the receipts and the last result when nobody    *)
(* holds the lock.                                                         *)
(***************************************************************************)
EXTENDS SecurityCapture, FiniteSetTheorems, TLAPS

(* Directories, ids and receipts fit together.                              *)
Spooled ==
  /\ \A i \in Ids : i \notin runs => files[i] = {}
  /\ \A i \in runs : i <= made
  /\ request <= made
  /\ receipts \subseteq published

(* request works with an id that nothing else has seen.                     *)
Requesting ==
  holder.op = "request" => /\ holder.step \in {"request", "result"}
                           /\ holder.id \in Ids \ runs
                           /\ holder.id = made
                           /\ request \in {0, holder.id}

(* What is in the run while serve works on it.                              *)
Contents(step) ==
  CASE step = "started" -> {}
    [] step \in {"running", "unlink", "filter"} -> {"started"}
    [] step = "compile" -> {"started", "filter"}
    [] step \in {"dump", "close"} -> {"started", "filter", "part"}
    [] step = "manifest" -> {"started", "filter", "pcap"}
    [] OTHER -> {"started", "filter", "pcap", "manifest"}

Serving ==
  holder.op = "serve" =>
    /\ holder.step \in {"check", "started", "running", "unlink", "filter", "compile",
                        "dump", "close", "manifest", "complete", "failed"}
    /\ holder.step \in {"check", "started", "running", "unlink"} => request = holder.id
    /\ holder.step \notin {"check", "started", "running", "unlink"} => request = 0
    /\ holder.step # "check" => holder.id \in runs
    /\ holder.step \notin {"check", "failed"} => files[holder.id] = Contents(holder.step)
    /\ holder.step = "failed" => "failed" \in files[holder.id]

(* What ack has made sure of before the next step.                          *)
Acking ==
  holder.op = "ack" =>
    /\ holder.step \in {"check", "receipt", "delete"}
    /\ holder.id \in Ids
    /\ holder.step # "check" => holder.id \in runs /\ files[holder.id] \subseteq Allowed
    /\ holder.step = "delete" => holder.id \in receipts

(* What the last result says of a finished capture is so.                   *)
Reported ==
  /\ last.status \in {"complete", "failed"} => last.id \in Ids
  /\ last.status = "complete" => Exportable(last.id) \/ last.id \in published
  /\ last.status = "failed" => "failed" \in files[last.id]

IInv ==
  /\ TypeOK
  /\ Spooled /\ ManifestLast /\ RequestUnserved
  /\ Requesting /\ Serving /\ Acking
  /\ Reported

-----------------------------------------------------------------------------
(* Each action keeps the invariant: the types, what is in the spool, what   *)
(* the holder of the lock relies on, and what the last result says.         *)

USE CaptureAssumption
    DEF IInv, Ids, Lock, At, Goto, Release, Add, Remove, Report, Nobody,
        stateVars, spoolVars, ackVars

(* request takes an id that no run has yet.                                 *)
LEMMA RequestTakenInv ==
  ASSUME IInv, RequestTaken
  PROVE  IInv'
<1>1. TypeOK'
  BY DEF RequestTaken, TypeOK, Holders
<1>2. Spooled' /\ ManifestLast' /\ RequestUnserved'
  BY DEF RequestTaken, TypeOK, Spooled, ManifestLast, RequestUnserved,
         Exportable
<1>3. Requesting' /\ Serving' /\ Acking'
  BY DEF RequestTaken, TypeOK, Spooled, Requesting, Serving, Acking
<1>4. Reported'
  BY DEF RequestTaken, Reported, Exportable
<1> QED BY <1>1, <1>2, <1>3, <1>4

(* The id becomes the pending request; its run does not exist.              *)
LEMMA PublishRequestInv ==
  ASSUME IInv, PublishRequest
  PROVE  IInv'
<1>1. TypeOK'
  BY DEF PublishRequest, TypeOK, Holders
<1>2. Spooled' /\ ManifestLast' /\ RequestUnserved'
  BY DEF PublishRequest, TypeOK, Requesting, Spooled, ManifestLast,
         RequestUnserved, Exportable
<1>3. Requesting' /\ Serving' /\ Acking'
  BY DEF PublishRequest, Requesting, Serving, Acking
<1>4. Reported'
  BY DEF PublishRequest, Reported, Exportable
<1> QED BY <1>1, <1>2, <1>3, <1>4

(* The result file says that the request is pending.                        *)
LEMMA PublishPendingInv ==
  ASSUME IInv, PublishPending
  PROVE  IInv'
<1>1. TypeOK'
  BY DEF PublishPending, TypeOK, Holders, Requesting
<1>2. Spooled' /\ ManifestLast' /\ RequestUnserved'
  BY DEF PublishPending, Spooled, ManifestLast, RequestUnserved, Exportable
<1>3. Requesting' /\ Serving' /\ Acking'
  BY DEF PublishPending, Requesting, Serving, Acking
<1>4. Reported'
  BY DEF PublishPending, Reported, Exportable
<1> QED BY <1>1, <1>2, <1>3, <1>4

(* procd starts serve; no file changes.                                     *)
LEMMA LaunchInv ==
  ASSUME IInv, Launch
  PROVE  IInv'
<1>1. TypeOK'
  BY DEF Launch, TypeOK, Holders
<1>2. Spooled' /\ ManifestLast' /\ RequestUnserved'
  BY DEF Launch, Spooled, ManifestLast, RequestUnserved, Exportable
<1>3. Requesting' /\ Serving' /\ Acking'
  BY DEF Launch, Requesting, Serving, Acking
<1>4. Reported'
  BY DEF Launch, Reported, Exportable
<1> QED BY <1>1, <1>2, <1>3, <1>4

(* serve reads the request under the lock.                                  *)
LEMMA ServeLockedInv ==
  ASSUME IInv, ServeLocked
  PROVE  IInv'
<1>1. TypeOK'
  BY DEF ServeLocked, TypeOK, Holders
<1>2. Spooled' /\ ManifestLast' /\ RequestUnserved'
  BY DEF ServeLocked, Spooled, ManifestLast, RequestUnserved, Exportable
<1>3. Requesting' /\ Serving' /\ Acking'
  BY DEF ServeLocked, TypeOK, Requesting, Serving, Acking
<1>4. Reported'
  BY DEF ServeLocked, Reported, Exportable
<1> QED BY <1>1, <1>2, <1>3, <1>4

(* serve gives up; no file changes.                                         *)
LEMMA ServeBusyInv ==
  ASSUME IInv, ServeBusy
  PROVE  IInv'
<1>1. TypeOK'
  BY DEF ServeBusy, TypeOK, Holders
<1>2. Spooled' /\ ManifestLast' /\ RequestUnserved'
  BY DEF ServeBusy, Spooled, ManifestLast, RequestUnserved, Exportable
<1>3. Requesting' /\ Serving' /\ Acking'
  BY DEF ServeBusy, Requesting, Serving, Acking
<1>4. Reported'
  BY DEF ServeBusy, Reported, Exportable
<1> QED BY <1>1, <1>2, <1>3, <1>4

(* The run is made; it was not there, so nothing is in it.                  *)
LEMMA ServeBeginsInv ==
  ASSUME IInv, ServeBegins
  PROVE  IInv'
<1>1. TypeOK'
  BY DEF ServeBegins, TypeOK, Holders, Serving
<1>2. Spooled' /\ ManifestLast' /\ RequestUnserved'
  BY DEF ServeBegins, TypeOK, Serving, Spooled, ManifestLast, RequestUnserved,
         Exportable
<1>3. Requesting' /\ Serving' /\ Acking'
  BY DEF ServeBegins, TypeOK, Spooled, Contents, Requesting, Serving, Acking
<1>4. Reported'
  BY DEF ServeBegins, TypeOK, Reported, Exportable
<1> QED BY <1>1, <1>2, <1>3, <1>4

(* serve ends before its try block.                                         *)
LEMMA ServeRefusedInv ==
  ASSUME IInv, ServeRefused
  PROVE  IInv'
<1>1. TypeOK'
  BY DEF ServeRefused, TypeOK, Holders
<1>2. Spooled' /\ ManifestLast' /\ RequestUnserved'
  BY DEF ServeRefused, Spooled, ManifestLast, RequestUnserved, Exportable
<1>3. Requesting' /\ Serving' /\ Acking'
  BY DEF ServeRefused, Requesting, Serving, Acking
<1>4. Reported'
  BY DEF ServeRefused, Reported, Exportable
<1> QED BY <1>1, <1>2, <1>3, <1>4

(* started.json is the first file of the run.                               *)
LEMMA ServeStartedInv ==
  ASSUME IInv, ServeStarted
  PROVE  IInv'
<1>1. TypeOK'
  BY DEF ServeStarted, TypeOK, Holders, Files, Serving
<1>2. Spooled' /\ ManifestLast' /\ RequestUnserved'
  BY DEF ServeStarted, TypeOK, Serving, Contents, Spooled, ManifestLast,
         RequestUnserved, Exportable
<1>3. Requesting' /\ Serving' /\ Acking'
  BY DEF ServeStarted, TypeOK, Contents, Requesting, Serving, Acking
<1>4. Reported'
  BY DEF ServeStarted, TypeOK, Reported, Exportable
<1> QED BY <1>1, <1>2, <1>3, <1>4

(* The result file says that the capture is running.                        *)
LEMMA ServeRunningInv ==
  ASSUME IInv, ServeRunning
  PROVE  IInv'
<1>1. TypeOK'
  BY DEF ServeRunning, TypeOK, Holders, Serving
<1>2. Spooled' /\ ManifestLast' /\ RequestUnserved'
  BY DEF ServeRunning, Spooled, ManifestLast, RequestUnserved, Exportable
<1>3. Requesting' /\ Serving' /\ Acking'
  BY DEF ServeRunning, Contents, Requesting, Serving, Acking
<1>4. Reported'
  BY DEF ServeRunning, Reported, Exportable
<1> QED BY <1>1, <1>2, <1>3, <1>4

(* The request goes before anything is captured.                            *)
LEMMA ServeUnlinkInv ==
  ASSUME IInv, ServeUnlink
  PROVE  IInv'
<1>1. TypeOK'
  <2>1. holder' \in Holders
    BY DEF ServeUnlink, TypeOK, Holders
  <2> QED BY <2>1 DEF ServeUnlink, TypeOK
<1>2. Spooled' /\ ManifestLast' /\ RequestUnserved'
  BY DEF ServeUnlink, TypeOK, Spooled, ManifestLast, RequestUnserved,
         Exportable
<1>3. Requesting' /\ Serving' /\ Acking'
  BY DEF ServeUnlink, Contents, Requesting, Serving, Acking
<1>4. Reported'
  BY DEF ServeUnlink, Reported, Exportable
<1> QED BY <1>1, <1>2, <1>3, <1>4

(* The filter is written; no request is pending.                            *)
LEMMA ServeFilterInv ==
  ASSUME IInv, ServeFilter
  PROVE  IInv'
<1>1. TypeOK'
  BY DEF ServeFilter, TypeOK, Holders, Files, Serving
<1>2. Spooled' /\ ManifestLast' /\ RequestUnserved'
  BY DEF ServeFilter, TypeOK, Serving, Contents, Spooled, ManifestLast,
         RequestUnserved, Exportable
<1>3. Requesting' /\ Serving' /\ Acking'
  BY DEF ServeFilter, TypeOK, Contents, Requesting, Serving, Acking
<1>4. Reported'
  BY DEF ServeFilter, TypeOK, Reported, Exportable
<1> QED BY <1>1, <1>2, <1>3, <1>4

(* tcpdump opens the part file.                                             *)
LEMMA ServeDumpsInv ==
  ASSUME IInv, ServeDumps
  PROVE  IInv'
<1>1. TypeOK'
  BY DEF ServeDumps, TypeOK, Holders, Files, Serving
<1>2. Spooled' /\ ManifestLast' /\ RequestUnserved'
  BY DEF ServeDumps, TypeOK, Serving, Contents, Spooled, ManifestLast,
         RequestUnserved, Exportable
<1>3. Requesting' /\ Serving' /\ Acking'
  BY DEF ServeDumps, TypeOK, Contents, Requesting, Serving, Acking
<1>4. Reported'
  BY DEF ServeDumps, TypeOK, Serving, Contents, Reported, Exportable
<1> QED BY <1>1, <1>2, <1>3, <1>4

(* tcpdump has ended; the files stay.                                       *)
LEMMA DumpEndsInv ==
  ASSUME IInv, DumpEnds
  PROVE  IInv'
<1>1. TypeOK'
  BY DEF DumpEnds, TypeOK, Holders
<1>2. Spooled' /\ ManifestLast' /\ RequestUnserved'
  BY DEF DumpEnds, Spooled, ManifestLast, RequestUnserved, Exportable
<1>3. Requesting' /\ Serving' /\ Acking'
  BY DEF DumpEnds, Contents, Requesting, Serving, Acking
<1>4. Reported'
  BY DEF DumpEnds, Reported, Exportable
<1> QED BY <1>1, <1>2, <1>3, <1>4

(* The part file becomes the pcap; there is no manifest yet.                *)
LEMMA ServeCloseInv ==
  ASSUME IInv, ServeClose
  PROVE  IInv'
<1>1. TypeOK'
  BY DEF ServeClose, TypeOK, Holders, Files, Serving
<1>2. Spooled' /\ ManifestLast' /\ RequestUnserved'
  BY DEF ServeClose, TypeOK, Serving, Contents, Spooled, ManifestLast,
         RequestUnserved, Exportable
<1>3. Requesting' /\ Serving' /\ Acking'
  BY DEF ServeClose, TypeOK, Contents, Requesting, Serving, Acking
<1>4. Reported'
  BY DEF ServeClose, TypeOK, Serving, Contents, Reported, Exportable
<1> QED BY <1>1, <1>2, <1>3, <1>4

(* The manifest joins a closed pcap.                                        *)
LEMMA ServeManifestInv ==
  ASSUME IInv, ServeManifest
  PROVE  IInv'
<1>1. TypeOK'
  BY DEF ServeManifest, TypeOK, Holders, Files, Serving
<1>2. Spooled' /\ ManifestLast' /\ RequestUnserved'
  <2>1. /\ files' = [files EXCEPT ![holder.id] = @ \cup {"manifest"}]
        /\ files[holder.id] = {"started", "filter", "pcap"}
        /\ holder.id \in runs /\ runs' = runs
        /\ request' = 0
    BY DEF ServeManifest, Serving, Contents
  <2>2. Spooled' /\ RequestUnserved'
    BY <2>1 DEF ServeManifest, TypeOK, Spooled, RequestUnserved
  <2>3. ManifestLast'
    BY <2>1 DEF ServeManifest, TypeOK, ManifestLast, Exportable
  <2> QED BY <2>2, <2>3
<1>3. Requesting' /\ Serving' /\ Acking'
  BY DEF ServeManifest, TypeOK, Contents, Requesting, Serving, Acking
<1>4. Reported'
  BY DEF ServeManifest, TypeOK, Reported, Exportable
<1> QED BY <1>1, <1>2, <1>3, <1>4

(* The result follows the manifest.                                         *)
LEMMA ServeCompleteInv ==
  ASSUME IInv, ServeComplete
  PROVE  IInv'
<1>1. TypeOK'
  BY DEF ServeComplete, TypeOK, Holders, Serving
<1>2. Spooled' /\ ManifestLast' /\ RequestUnserved'
  BY DEF ServeComplete, Spooled, ManifestLast, RequestUnserved, Exportable
<1>3. Requesting' /\ Serving' /\ Acking'
  BY DEF ServeComplete, Requesting, Serving, Acking
<1>4. Reported'
  BY DEF ServeComplete, TypeOK, Serving, Contents, Reported, Exportable
<1> QED BY <1>1, <1>2, <1>3, <1>4

(* failed.json joins whatever the run holds.                                *)
LEMMA ServeFailsInv ==
  ASSUME IInv, ServeFails
  PROVE  IInv'
<1>1. TypeOK'
  BY DEF ServeFails, TypeOK, Holders, Files, Serving
<1>2. Spooled' /\ ManifestLast' /\ RequestUnserved'
  BY DEF ServeFails, TypeOK, Serving, Contents, Spooled, ManifestLast,
         RequestUnserved, Exportable
<1>3. Requesting' /\ Serving' /\ Acking'
  BY DEF ServeFails, TypeOK, Requesting, Serving, Acking
<1>4. Reported'
  BY DEF ServeFails, TypeOK, Reported, Exportable
<1> QED BY <1>1, <1>2, <1>3, <1>4

(* A temporary file left behind does not matter to the rest.                *)
LEMMA ManifestTornInv ==
  ASSUME IInv, ManifestTorn
  PROVE  IInv'
<1>1. TypeOK'
  BY DEF ManifestTorn, TypeOK, Holders, Files, Serving
<1>2. Spooled' /\ ManifestLast' /\ RequestUnserved'
  BY DEF ManifestTorn, TypeOK, Serving, Contents, Spooled, ManifestLast,
         RequestUnserved, Exportable
<1>3. Requesting' /\ Serving' /\ Acking'
  BY DEF ManifestTorn, TypeOK, Requesting, Serving, Acking
<1>4. Reported'
  BY DEF ManifestTorn, TypeOK, Reported, Exportable
<1> QED BY <1>1, <1>2, <1>3, <1>4

(* The result follows failed.json.                                          *)
LEMMA ServeFailedInv ==
  ASSUME IInv, ServeFailed
  PROVE  IInv'
<1>1. TypeOK'
  BY DEF ServeFailed, TypeOK, Holders, Serving
<1>2. Spooled' /\ ManifestLast' /\ RequestUnserved'
  BY DEF ServeFailed, Spooled, ManifestLast, RequestUnserved, Exportable
<1>3. Requesting' /\ Serving' /\ Acking'
  BY DEF ServeFailed, Requesting, Serving, Acking
<1>4. Reported'
  BY DEF ServeFailed, TypeOK, Serving, Reported, Exportable
<1> QED BY <1>1, <1>2, <1>3, <1>4

(* An export changes no file.                                               *)
LEMMA ExportStartInv ==
  ASSUME IInv, NEW i \in Ids, ExportStart(i)
  PROVE  IInv'
<1>1. TypeOK'
  BY DEF ExportStart, TypeOK, Holders
<1>2. Spooled' /\ ManifestLast' /\ RequestUnserved'
  BY DEF ExportStart, Spooled, ManifestLast, RequestUnserved, Exportable
<1>3. Requesting' /\ Serving' /\ Acking'
  BY DEF ExportStart, Requesting, Serving, Acking
<1>4. Reported'
  BY DEF ExportStart, Reported, Exportable
<1> QED BY <1>1, <1>2, <1>3, <1>4

(* An export changes no file.                                               *)
LEMMA ExportSentInv ==
  ASSUME IInv, ExportSent
  PROVE  IInv'
<1>1. TypeOK'
  BY DEF ExportSent, TypeOK, Holders
<1>2. Spooled' /\ ManifestLast' /\ RequestUnserved'
  BY DEF ExportSent, Spooled, ManifestLast, RequestUnserved, Exportable
<1>3. Requesting' /\ Serving' /\ Acking'
  BY DEF ExportSent, Requesting, Serving, Acking
<1>4. Reported'
  BY DEF ExportSent, Reported, Exportable
<1> QED BY <1>1, <1>2, <1>3, <1>4

(* An export changes no file.                                               *)
LEMMA ExportTimeoutInv ==
  ASSUME IInv, ExportTimeout
  PROVE  IInv'
<1>1. TypeOK'
  BY DEF ExportTimeout, TypeOK, Holders
<1>2. Spooled' /\ ManifestLast' /\ RequestUnserved'
  BY DEF ExportTimeout, Spooled, ManifestLast, RequestUnserved, Exportable
<1>3. Requesting' /\ Serving' /\ Acking'
  BY DEF ExportTimeout, Requesting, Serving, Acking
<1>4. Reported'
  BY DEF ExportTimeout, Reported, Exportable
<1> QED BY <1>1, <1>2, <1>3, <1>4

(* ack drops receipts, never the memory that they were written.             *)
LEMMA AckStartInv ==
  ASSUME IInv, NEW i \in Ids, NEW expired \in SUBSET receipts, AckStart(i, expired)
  PROVE  IInv'
<1>1. TypeOK'
  BY DEF AckStart, TypeOK, Holders
<1>2. Spooled' /\ ManifestLast' /\ RequestUnserved'
  BY DEF AckStart, Spooled, ManifestLast, RequestUnserved, Exportable
<1>3. Requesting' /\ Serving' /\ Acking'
  BY DEF AckStart, Requesting, Serving, Acking
<1>4. Reported'
  BY DEF AckStart, Reported, Exportable
<1> QED BY <1>1, <1>2, <1>3, <1>4

(* ack goes on with a run that holds known files only.                      *)
LEMMA AckCheckedInv ==
  ASSUME IInv, NEW right \in BOOLEAN, AckChecked(right)
  PROVE  IInv'
<1>1. TypeOK'
  BY DEF AckChecked, TypeOK, Holders
<1>2. Spooled' /\ ManifestLast' /\ RequestUnserved'
  BY DEF AckChecked, Spooled, ManifestLast, RequestUnserved, Exportable
<1>3. Requesting' /\ Serving' /\ Acking'
  BY DEF AckChecked, AckAllowed, Exportable, Spooled, Requesting, Serving,
         Acking
<1>4. Reported'
  BY DEF AckChecked, Reported, Exportable
<1> QED BY <1>1, <1>2, <1>3, <1>4

(* ack refuses; no file changes.                                            *)
LEMMA AckEndsInv ==
  ASSUME IInv, NEW right \in BOOLEAN, AckEnds(right)
  PROVE  IInv'
<1>1. TypeOK'
  BY DEF AckEnds, TypeOK, Holders
<1>2. Spooled' /\ ManifestLast' /\ RequestUnserved'
  BY DEF AckEnds, Spooled, ManifestLast, RequestUnserved, Exportable
<1>3. Requesting' /\ Serving' /\ Acking'
  BY DEF AckEnds, Requesting, Serving, Acking
<1>4. Reported'
  BY DEF AckEnds, Reported, Exportable
<1> QED BY <1>1, <1>2, <1>3, <1>4

(* The receipt is written before anything is deleted.                       *)
LEMMA AckReceiptInv ==
  ASSUME IInv, AckReceipt
  PROVE  IInv'
<1>1. TypeOK'
  BY DEF AckReceipt, TypeOK, Holders, Acking
<1>2. Spooled' /\ ManifestLast' /\ RequestUnserved'
  BY DEF AckReceipt, Spooled, ManifestLast, RequestUnserved, Exportable
<1>3. Requesting' /\ Serving' /\ Acking'
  BY DEF AckReceipt, Requesting, Serving, Acking
<1>4. Reported'
  BY DEF AckReceipt, Reported, Exportable
<1> QED BY <1>1, <1>2, <1>3, <1>4

(* A file goes; its receipt is there, and failed.json is not among them.    *)
LEMMA AckUnlinkInv ==
  ASSUME IInv, NEW f \in Files, AckUnlink(f)
  PROVE  IInv'
<1>1. TypeOK'
  BY DEF AckUnlink, TypeOK, Holders, Acking
<1>2. Spooled' /\ ManifestLast' /\ RequestUnserved'
  BY DEF AckUnlink, TypeOK, Acking, Spooled, ManifestLast, RequestUnserved,
         Exportable
<1>3. Requesting' /\ Serving' /\ Acking'
  BY DEF AckUnlink, TypeOK, Requesting, Serving, Acking
<1>4. Reported'
  BY DEF AckUnlink, TypeOK, Acking, Allowed, Spooled, Reported, Exportable
<1> QED BY <1>1, <1>2, <1>3, <1>4

(* The empty run goes.                                                      *)
LEMMA AckRmdirInv ==
  ASSUME IInv, AckRmdir
  PROVE  IInv'
<1>1. TypeOK'
  <2>1. runs' \subseteq Ids
    BY DEF AckRmdir, TypeOK, Unknown
  <2>2. holder' \in Holders
    BY DEF AckRmdir, Holders
  <2> QED BY <2>1, <2>2 DEF AckRmdir, TypeOK
<1>2. Spooled' /\ ManifestLast' /\ RequestUnserved'
  BY DEF AckRmdir, TypeOK, Acking, Spooled, ManifestLast, RequestUnserved,
         Exportable
<1>3. Requesting' /\ Serving' /\ Acking'
  BY DEF AckRmdir, Requesting, Serving, Acking
<1>4. Reported'
  BY DEF AckRmdir, TypeOK, Acking, Spooled, Reported, Exportable
<1> QED BY <1>1, <1>2, <1>3, <1>4

(* The lock is free again; the files stay.                                  *)
LEMMA CrashInv ==
  ASSUME IInv, Crash
  PROVE  IInv'
<1>1. TypeOK'
  BY DEF Crash, TypeOK, Holders
<1>2. Spooled' /\ ManifestLast' /\ RequestUnserved'
  BY DEF Crash, Spooled, ManifestLast, RequestUnserved, Exportable
<1>3. Requesting' /\ Serving' /\ Acking'
  BY DEF Crash, Requesting, Serving, Acking
<1>4. Reported'
  BY DEF Crash, Reported, Exportable
<1> QED BY <1>1, <1>2, <1>3, <1>4

(* A publish cut off leaves a file nobody knows, and no other.              *)
LEMMA TornInv ==
  ASSUME IInv, Torn
  PROVE  IInv'
<1>1. CASE holder.op = "serve"
  <2>1. /\ files' = [files EXCEPT ![holder.id] = @ \cup {"tmp"}]
        /\ torn' = torn
        /\ holder.id \in runs
        /\ holder.step = "started" \/ request = 0
    BY <1>1 DEF Torn, Serving
  <2>2. TypeOK'
    <3>1. files' \in [Ids -> SUBSET Files]
      BY <2>1 DEF TypeOK, Files
    <3>2. holder' \in Holders
      BY DEF Torn, Holders
    <3> QED BY <2>1, <3>1, <3>2 DEF Torn, TypeOK
  <2>3. Spooled' /\ ManifestLast'
    BY <2>1 DEF Torn, TypeOK, Spooled, ManifestLast, Exportable
  <2>4. RequestUnserved'
    BY <1>1, <2>1 DEF Torn, TypeOK, Serving, Contents, RequestUnserved
  <2>5. Reported'
    BY <2>1 DEF Torn, TypeOK, Reported, Exportable
  <2>6. Requesting' /\ Serving' /\ Acking'
    BY DEF Torn, Requesting, Serving, Acking
  <2> QED BY <2>2, <2>3, <2>4, <2>5, <2>6
<1>2. CASE holder.op # "serve"
  <2>1. files' = files /\ torn' = torn \cup {holder.id} /\ holder.id \in Ids
    BY <1>2 DEF Torn, Acking
  <2>2. TypeOK'
    <3>1. holder' \in Holders
      BY DEF Torn, Holders
    <3>2. files' \in [Ids -> SUBSET Files] /\ torn' \subseteq Ids
      BY <2>1 DEF TypeOK
    <3> QED BY <3>1, <3>2 DEF Torn, TypeOK
  <2>3. Spooled' /\ ManifestLast' /\ RequestUnserved'
    BY <2>1 DEF Torn, Spooled, ManifestLast, RequestUnserved, Exportable
  <2>4. Reported'
    BY <2>1 DEF Torn, Reported, Exportable
  <2>5. Requesting' /\ Serving' /\ Acking'
    BY DEF Torn, Requesting, Serving, Acking
  <2> QED BY <2>2, <2>3, <2>4, <2>5
<1> QED BY <1>1, <1>2

(* What is on the tmpfs goes, the spool and the receipts stay.              *)
LEMMA RebootInv ==
  ASSUME IInv, Reboot
  PROVE  IInv'
<1>1. TypeOK'
  <2>1. request' \in 0..MaxCaptures /\ crashes' \in 0..MaxCrashes /\ made' \in 0..MaxCaptures
    BY DEF Reboot, TypeOK
  <2>2. last' \in [status : {"unknown", "pending", "running", "complete", "failed"},
                  id : 0..MaxCaptures]
    BY DEF Reboot, Unknown
  <2>3. holder' \in Holders
    BY DEF Reboot, Holders
  <2>4. launched' \in BOOLEAN
    BY DEF Reboot
  <2>5. /\ runs' \subseteq Ids /\ files' \in [Ids -> SUBSET Files]
        /\ receipts' \subseteq Ids /\ torn' \subseteq Ids /\ published' \subseteq Ids
    BY DEF Reboot, TypeOK
  <2> QED BY <2>1, <2>2, <2>3, <2>4, <2>5 DEF TypeOK
<1>2. Spooled' /\ ManifestLast' /\ RequestUnserved'
  BY DEF Reboot, TypeOK, Spooled, ManifestLast, RequestUnserved, Exportable
<1>3. Requesting' /\ Serving' /\ Acking'
  BY DEF Reboot, Requesting, Serving, Acking
<1>4. Reported'
  BY DEF Reboot, Unknown, Reported, Exportable
<1> QED BY <1>1, <1>2, <1>3, <1>4

-----------------------------------------------------------------------------
(* The initial state is as the invariant says.                              *)
LEMMA InitInv == Init => IInv
<1> SUFFICES ASSUME Init PROVE IInv
  OBVIOUS
<1>1. TypeOK
  <2>1. last \in [status : {"unknown", "pending", "running", "complete", "failed"},
                 id : 0..MaxCaptures]
    BY CaptureAssumption DEF Init, Unknown
  <2>2. holder \in Holders
    BY CaptureAssumption DEF Init, Nobody, Holders
  <2>3. /\ made \in 0..MaxCaptures
        /\ request \in 0..MaxCaptures
        /\ crashes \in 0..MaxCrashes
    BY CaptureAssumption DEF Init
  <2>4. /\ files \in [Ids -> SUBSET Files]
        /\ runs \subseteq Ids
        /\ receipts \subseteq Ids
        /\ torn \subseteq Ids
        /\ published \subseteq Ids
    BY DEF Init
  <2>5. launched \in BOOLEAN
    BY DEF Init
  <2> QED BY <2>1, <2>2, <2>3, <2>4, <2>5 DEF TypeOK
<1>2. Spooled /\ ManifestLast /\ RequestUnserved
  BY DEF Init, Spooled, ManifestLast, RequestUnserved
<1>3. Requesting /\ Serving /\ Acking /\ Reported
  BY DEF Init, Unknown, Requesting, Serving, Acking, Reported
<1> QED BY <1>1, <1>2, <1>3

(* Nor does a step that changes nothing disturb the invariant.              *)
LEMMA StutterInv ==
  ASSUME IInv, UNCHANGED vars
  PROVE  IInv'
BY DEF vars, TypeOK, Spooled, ManifestLast, RequestUnserved, Exportable, Requesting,
       Serving, Contents, Acking, Reported

(* The invariant is inductive.                                              *)
LEMMA NextInv == IInv /\ [Next]_vars => IInv'
<1> SUFFICES ASSUME IInv, [Next]_vars PROVE IInv'
  OBVIOUS
<1>1. CASE RequestTaken \/ Launch \/ PublishRequest \/ PublishPending
  BY <1>1, RequestTakenInv, LaunchInv, PublishRequestInv, PublishPendingInv
<1>2. CASE ServeLocked \/ ServeBusy \/ ServeBegins \/ ServeRefused \/ ServeStarted
            \/ ServeRunning \/ ServeUnlink
  BY <1>2, ServeLockedInv, ServeBusyInv, ServeBeginsInv, ServeRefusedInv,
     ServeStartedInv, ServeRunningInv, ServeUnlinkInv
<1>3. CASE ServeFilter \/ ServeDumps \/ DumpEnds \/ ServeClose \/ ServeManifest
            \/ ServeComplete \/ ServeFails \/ ManifestTorn \/ ServeFailed
  BY <1>3, ServeFilterInv, ServeDumpsInv, DumpEndsInv, ServeCloseInv,
     ServeManifestInv, ServeCompleteInv, ServeFailsInv, ManifestTornInv, ServeFailedInv
<1>4. CASE (\E i \in Ids : ExportStart(i)) \/ ExportSent \/ ExportTimeout
  BY <1>4, ExportStartInv, ExportSentInv, ExportTimeoutInv
<1>5. CASE \E i \in Ids, expired \in SUBSET receipts : AckStart(i, expired)
  BY <1>5, AckStartInv
<1>6. CASE \E right \in BOOLEAN : AckChecked(right) \/ AckEnds(right)
  BY <1>6, AckCheckedInv, AckEndsInv
<1>7. CASE AckReceipt \/ (\E f \in Files : AckUnlink(f)) \/ AckRmdir
  BY <1>7, AckReceiptInv, AckUnlinkInv, AckRmdirInv
<1>8. CASE Crash \/ Torn \/ Reboot \/ UNCHANGED vars
  BY <1>8, CrashInv, TornInv, RebootInv, StutterInv
<1> QED BY <1>1, <1>2, <1>3, <1>4, <1>5, <1>6, <1>7, <1>8 DEF Next, Steps

(* IInv holds in every reachable state.                                     *)
LEMMA Invariance == Spec => []IInv
BY InitInv, NextInv, PTL DEF Spec

-----------------------------------------------------------------------------

(* The types of the files, the lock and the counters.                       *)
THEOREM TypeCorrect == Spec => []TypeOK
<1>1. IInv => TypeOK
  OBVIOUS
<1> QED BY Invariance, <1>1, PTL

(* The spool never holds more than MaxSpool runs, whatever is requested,    *)
(* crashes or is acknowledged between the two counts of guards.             *)
THEOREM SpoolIsBounded == Spec => []SpoolBounded
<1>1. Init => SpoolBounded
  BY FS_EmptySet DEF Init, SpoolBounded
<1>2. IInv /\ SpoolBounded /\ [Next]_vars => SpoolBounded'
  <2> SUFFICES ASSUME IInv, SpoolBounded, [Next]_vars PROVE SpoolBounded'
    OBVIOUS
  <2>1. IsFiniteSet(runs)
    <3>1. IsFiniteSet(1..MaxCaptures)
      BY CaptureAssumption, FS_Interval
    <3>2. runs \subseteq 1..MaxCaptures
      BY DEF TypeOK, Ids
    <3> QED BY <3>1, <3>2, FS_Subset
  <2>2. CASE ServeBegins
    <3>1. holder.id \notin runs /\ runs' = runs \cup {holder.id}
      BY <2>2 DEF ServeBegins
    <3>2. Cardinality(runs') = Cardinality(runs) + 1
      BY <2>1, <3>1, FS_AddElement
    <3>3. Cardinality(runs) < MaxSpool
      BY <2>2 DEF ServeBegins, Guards
    <3>4. Cardinality(runs) \in Nat
      BY <2>1, FS_CardinalityType
    <3> QED BY <3>2, <3>3, <3>4, CaptureAssumption DEF SpoolBounded
  <2>3. CASE AckRmdir
    <3>1. runs' = runs \ {holder.id}
      BY <2>3 DEF AckRmdir
    <3>2. Cardinality(runs') <= Cardinality(runs)
      BY <2>1, <3>1, FS_Subset
    <3>3. Cardinality(runs) \in Nat /\ Cardinality(runs') \in Nat
      BY <2>1, <3>1, FS_Subset, FS_CardinalityType
    <3> QED BY <3>2, <3>3, CaptureAssumption DEF SpoolBounded
  <2>4. CASE runs' = runs
    BY <2>4 DEF SpoolBounded
  <2>5. ServeBegins \/ AckRmdir \/ runs' = runs
    BY DEF Next, Steps, vars, RequestTaken, PublishRequest, PublishPending, Launch,
           ServeLocked, ServeBusy, ServeRefused, ServeStarted, ServeRunning, ServeUnlink,
           ServeFilter, ServeDumps, DumpEnds, ServeClose, ServeManifest, ServeComplete,
           ServeFails, ManifestTorn, ServeFailed, ExportStart, ExportSent, ExportTimeout,
           AckStart, AckChecked, AckEnds, AckReceipt, AckUnlink, Crash, Torn, Reboot
  <2> QED BY <2>2, <2>3, <2>4, <2>5
<1> QED BY Invariance, <1>1, <1>2, PTL DEF Spec

(* A manifest marks a complete artifact after a crash at any point.         *)
THEOREM ManifestIsLast == Spec => []ManifestLast
<1>1. IInv => ManifestLast
  OBVIOUS
<1> QED BY Invariance, <1>1, PTL

(* What status reports of a finished capture is so.                         *)
THEOREM StatusIsTrue == Spec => []StatusHolds
<1>1. IInv => StatusHolds
  BY DEF Reported, StatusHolds, Status, TypeOK
<1> QED BY Invariance, <1>1, PTL

(* No request that has captured anything is left to be served again.        *)
THEOREM RequestsServedOnce == Spec => []RequestUnserved
<1>1. IInv => RequestUnserved
  OBVIOUS
<1> QED BY Invariance, <1>1, PTL

(* Deletion follows a receipt and spares failed captures: only ack removes  *)
(* files, and Acking says what it has made sure of.                         *)
THEOREM DeletionsAreAcknowledged == Spec => KeptUntilAcknowledged
<1>1. ASSUME IInv, [Next]_vars, NEW i \in Ids, NEW g \in Files \ {"part"},
             g \in files[i], g \notin files'[i]
      PROVE  i \in receipts /\ "failed" \notin files[i]
  <2>1. CASE \E f \in Files : AckUnlink(f)
    BY <1>1, <2>1 DEF AckUnlink, Acking, Allowed, TypeOK
  <2>2. CASE ServeStarted \/ ServeFilter \/ ServeDumps \/ ServeClose \/ ServeManifest
             \/ ServeFails \/ ManifestTorn \/ Torn
    BY <1>1, <2>2 DEF ServeStarted, ServeFilter, ServeDumps, ServeClose, ServeManifest,
                ServeFails, ManifestTorn, Torn, TypeOK
  <2>3. CASE files' = files
    BY <1>1, <2>3
  <2>4. \/ \E f \in Files : AckUnlink(f)
        \/ ServeStarted \/ ServeFilter \/ ServeDumps \/ ServeClose \/ ServeManifest
        \/ ServeFails \/ ManifestTorn \/ Torn
        \/ files' = files
    BY <1>1 DEF Next, Steps, vars, RequestTaken, PublishRequest, PublishPending, Launch,
           ServeLocked, ServeBusy, ServeBegins, ServeRefused, ServeRunning, ServeUnlink,
           DumpEnds, ServeComplete, ServeFailed, ExportStart, ExportSent, ExportTimeout,
           AckStart, AckChecked, AckEnds, AckReceipt, AckRmdir, Crash, Reboot
  <2> QED BY <2>1, <2>2, <2>3, <2>4
<1>2. IInv /\ [Next]_vars =>
        [\A i \in Ids, f \in Files \ {"part"} :
           f \in files[i] /\ f \notin files'[i] =>
             i \in receipts /\ "failed" \notin files[i]]_vars
  BY <1>1
<1> QED BY <1>2, Invariance, PTL DEF Spec, KeptUntilAcknowledged
=============================================================================
