-------------------------- MODULE SecurityCapture --------------------------
(***************************************************************************)
(* The router's bounded packet capture: ansible/openwrt/roles/             *)
(* openwrt_security_capture/files/security_capture.py.  Its commands       *)
(* (request, serve, ssh-export, ack, status) are processes of their own    *)
(* that meet in files and in one lock that none of them waits for.         *)
(*                                                                         *)
(* A capture is named by the number of its request.  What a pcap contains  *)
(* is left out: its hash is the capture's, and a caller of ack gives this  *)
(* hash or a wrong one.  Checks of the environment (mount, disk, memory,   *)
(* load, file modes, a request's age, the configuration's hash) may refuse *)
(* at any time; a refusal changes nothing, so it shows only where a        *)
(* process ends by it.                                                     *)
(***************************************************************************)
EXTENDS Integers, FiniteSets

CONSTANTS
  MaxSpool,    (* runs the spool may hold (2 in the code)                   *)
  MaxReceipts, (* receipts kept (64 in the code)                            *)
  MaxCaptures, (* bound: capture ids                                        *)
  MaxCrashes   (* bound: killed processes and reboots                       *)

ASSUME CaptureAssumption ==
  /\ MaxSpool \in Nat \ {0}
  /\ MaxReceipts \in Nat \ {0}
  /\ MaxCaptures \in Nat \ {0}
  /\ MaxCrashes \in Nat

Ids     == 1..MaxCaptures
Files   == {"started", "filter", "part", "pcap", "manifest", "failed", "tmp"}
Allowed == {"started", "filter", "pcap", "manifest"}

Nobody  == [op |-> "none", step |-> "none", id |-> 0]
Holders == [op : {"none", "request", "serve", "export", "ack"},
            step : {"none", "request", "result", "check", "started", "running",
                    "unlink", "filter", "compile", "dump", "close", "manifest",
                    "complete", "failed", "send", "receipt", "delete"},
            id : 0..MaxCaptures]

VARIABLES
  made,      (* capture ids given out                                       *)
  request,   (* STATE/request.json: the id in it, 0 when there is none      *)
  last,      (* STATE/last-result.json                                      *)
  runs,      (* the directories in SPOOL                                    *)
  files,     (* what is in each of them                                     *)
  receipts,  (* the receipts in ACKROOT                                     *)
  torn,      (* temporary files of publish left in ACKROOT: receipts of     *)
  published, (* history: receipts ever written                              *)
  holder,    (* the process that holds capture.lock, where it is            *)
  launched,  (* procd has started a serve that has not tried the lock yet   *)
  crashes

stateVars == <<request, last>>
spoolVars == <<runs, files>>
ackVars   == <<receipts, torn, published>>
vars == <<made, request, last, runs, files, receipts, torn, published, holder,
          launched, crashes>>

Unknown == [status |-> "unknown", id |-> 0]

TypeOK ==
  /\ made \in 0..MaxCaptures
  /\ request \in 0..MaxCaptures
  /\ last \in [status : {"unknown", "pending", "running", "complete", "failed"},
               id : 0..MaxCaptures]
  /\ runs \subseteq Ids
  /\ files \in [Ids -> SUBSET Files]
  /\ receipts \subseteq Ids
  /\ torn \subseteq Ids
  /\ published \subseteq Ids
  /\ holder \in Holders
  /\ launched \in BOOLEAN
  /\ crashes \in 0..MaxCrashes

Init ==
  /\ made = 0
  /\ request = 0
  /\ last = Unknown
  /\ runs = {}
  /\ files = [i \in Ids |-> {}]
  /\ receipts = {}
  /\ torn = {}
  /\ published = {}
  /\ holder = Nobody
  /\ launched = FALSE
  /\ crashes = 0

(* lock: taken without waiting, given back when the process ends.           *)
Lock(op, step, i) == holder = Nobody /\ holder' = [op |-> op, step |-> step, id |-> i]
At(op, step)      == holder.op = op /\ holder.step = step
Goto(step)        == holder' = [holder EXCEPT !.step = step]
Release           == holder' = Nobody

Add(f)      == files' = [files EXCEPT ![holder.id] = @ \cup {f}]
Remove(f)   == files' = [files EXCEPT ![holder.id] = @ \ {f}]
Report(s)   == last' = [status |-> s, id |-> holder.id]

(* Mutant: a full spool is not noticed.                                     *)
GuardsOffByOne == Cardinality(runs) <= MaxSpool

(* guards: ready, failed and interrupted runs use up one budget.            *)
Guards == Cardinality(runs) < MaxSpool

-----------------------------------------------------------------------------
(* request.                                                                 *)

RequestTaken ==
  /\ made < MaxCaptures
  /\ Lock("request", "request", made + 1)
  /\ request = 0
  /\ Guards
  /\ made' = made + 1
  /\ UNCHANGED <<stateVars, spoolVars, ackVars, launched, crashes>>

PublishRequest ==
  /\ At("request", "request")
  /\ request' = holder.id
  /\ Goto("result")
  /\ UNCHANGED <<made, last, spoolVars, ackVars, launched, crashes>>

PublishPending ==
  /\ At("request", "result")
  /\ Report("pending")
  /\ Release
  /\ UNCHANGED <<made, request, spoolVars, ackVars, launched, crashes>>

(* `init.d ... start', by request once the lock is given back or by hand;   *)
(* procd runs one instance.                                                 *)
Launch ==
  /\ ~launched
  /\ holder.op # "serve"
  /\ launched' = TRUE
  /\ UNCHANGED <<made, stateVars, spoolVars, ackVars, holder, crashes>>

-----------------------------------------------------------------------------
(* serve.                                                                   *)

ServeLocked ==
  /\ launched
  /\ Lock("serve", "check", request)
  /\ launched' = FALSE
  /\ UNCHANGED <<made, stateVars, spoolVars, ackVars, crashes>>

(* Another process has the lock: serve ends, the request stays.             *)
ServeBusy ==
  /\ launched
  /\ holder # Nobody
  /\ launched' = FALSE
  /\ UNCHANGED <<made, stateVars, spoolVars, ackVars, holder, crashes>>

(* The request is there and valid, the guards agree, the directory is new.  *)
ServeBegins ==
  /\ At("serve", "check")
  /\ holder.id # 0
  /\ Guards
  /\ holder.id \notin runs
  /\ runs' = runs \cup {holder.id}
  /\ Goto("started")
  /\ UNCHANGED <<made, stateVars, files, ackVars, launched, crashes>>

(* A check refuses, or one of the steps before the try block fails.         *)
ServeRefused ==
  /\ holder.op = "serve"
  /\ holder.step \in {"check", "started", "running", "unlink"}
  /\ Release
  /\ UNCHANGED <<made, stateVars, spoolVars, ackVars, launched, crashes>>

ServeStarted ==
  /\ At("serve", "started")
  /\ Add("started")
  /\ Goto("running")
  /\ UNCHANGED <<made, stateVars, runs, ackVars, launched, crashes>>

ServeRunning ==
  /\ At("serve", "running")
  /\ Report("running")
  /\ Goto("unlink")
  /\ UNCHANGED <<made, request, spoolVars, ackVars, launched, crashes>>

(* Mutant: the request is left in place.                                    *)
ServeUnlinkKept ==
  /\ At("serve", "unlink")
  /\ Goto("filter")
  /\ UNCHANGED <<made, stateVars, spoolVars, ackVars, launched, crashes>>

ServeUnlink ==
  /\ At("serve", "unlink")
  /\ request' = 0
  /\ Goto("filter")
  /\ UNCHANGED <<made, last, spoolVars, ackVars, launched, crashes>>

ServeFilter ==
  /\ At("serve", "filter")
  /\ Add("filter")
  /\ Goto("compile")
  /\ UNCHANGED <<made, stateVars, runs, ackVars, launched, crashes>>

(* The filter compiles and tcpdump opens its output file.                   *)
ServeDumps ==
  /\ At("serve", "compile")
  /\ Add("part")
  /\ Goto("dump")
  /\ UNCHANGED <<made, stateVars, runs, ackVars, launched, crashes>>

(* tcpdump has its 1000 packets, or the time is up and it is stopped; every *)
(* record of the file is valid.                                             *)
DumpEnds ==
  /\ At("serve", "dump")
  /\ Goto("close")
  /\ UNCHANGED <<made, stateVars, spoolVars, ackVars, launched, crashes>>

(* Mutants: the part file stays beside the pcap; the result is reported     *)
(* before the manifest.                                                     *)
ServeCloseCopies ==
  /\ At("serve", "close")
  /\ Add("pcap")
  /\ Goto("manifest")
  /\ UNCHANGED <<made, stateVars, runs, ackVars, launched, crashes>>
ServeCloseReports ==
  /\ At("serve", "close")
  /\ files' = [files EXCEPT ![holder.id] = (@ \ {"part"}) \cup {"pcap"}]
  /\ Report("complete")
  /\ Goto("manifest")
  /\ UNCHANGED <<made, request, runs, ackVars, launched, crashes>>

ServeClose ==
  /\ At("serve", "close")
  /\ files' = [files EXCEPT ![holder.id] = (@ \ {"part"}) \cup {"pcap"}]
  /\ Goto("manifest")
  /\ UNCHANGED <<made, stateVars, runs, ackVars, launched, crashes>>

ServeManifest ==
  /\ At("serve", "manifest")
  /\ Add("manifest")
  /\ Goto("complete")
  /\ UNCHANGED <<made, stateVars, runs, ackVars, launched, crashes>>

(* Mutant: the reason tcpdump stopped is stored as the status.              *)
ServeCompleteReason ==
  /\ At("serve", "complete")
  /\ Report("duration_limit")
  /\ Release
  /\ UNCHANGED <<made, request, spoolVars, ackVars, launched, crashes>>

ServeComplete ==
  /\ At("serve", "complete")
  /\ Report("complete")
  /\ Release
  /\ UNCHANGED <<made, request, spoolVars, ackVars, launched, crashes>>

(* An exception within the try block, the last two publishes included.      *)
ServeFails ==
  /\ holder.op = "serve"
  /\ holder.step \in {"filter", "compile", "dump", "close", "manifest", "complete"}
  /\ Add("failed")
  /\ Goto("failed")
  /\ UNCHANGED <<made, stateVars, runs, ackVars, launched, crashes>>

(* The same, with the temporary file of manifest.json left in the run.      *)
ManifestTorn ==
  /\ At("serve", "manifest")
  /\ files' = [files EXCEPT ![holder.id] = @ \cup {"tmp", "failed"}]
  /\ Goto("failed")
  /\ UNCHANGED <<made, stateVars, runs, ackVars, launched, crashes>>

ServeFailed ==
  /\ At("serve", "failed")
  /\ Report("failed")
  /\ Release
  /\ UNCHANGED <<made, request, spoolVars, ackVars, launched, crashes>>

-----------------------------------------------------------------------------
(* ssh-export and ack.                                                      *)

(* artifact: a manifest and a closed pcap that agree.                       *)
Exportable(i) ==
  i \in runs /\ {"manifest", "pcap"} \subseteq files[i] /\ "part" \notin files[i]

ExportStart(i) ==
  /\ Lock("export", "send", i)
  /\ Exportable(i)
  /\ UNCHANGED <<made, stateVars, spoolVars, ackVars, launched, crashes>>

ExportSent ==
  /\ At("export", "send")
  /\ Release
  /\ UNCHANGED <<made, stateVars, spoolVars, ackVars, launched, crashes>>

(* Mutant: a slow reader is waited for.                                     *)
ExportTimeoutNever == FALSE /\ UNCHANGED vars

(* SIGALRM after 120 seconds.                                               *)
ExportTimeout ==
  /\ At("export", "send")
  /\ Release
  /\ UNCHANGED <<made, stateVars, spoolVars, ackVars, launched, crashes>>

(* acknowledged_receipts: the receipts past their 72 hours go, in the order *)
(* listed until the listing ends or an entry is not a receipt.              *)
AckStart(i, expired) ==
  /\ Lock("ack", "check", i)
  /\ receipts' = receipts \ expired
  /\ UNCHANGED <<made, stateVars, spoolVars, torn, published, launched, crashes>>

(* A first ack needs room for a receipt and an intact artifact, a repeated  *)
(* one its receipt and a run to clean up; either needs the right hash, no   *)
(* file in the run that is not known, and receipts only in ACKROOT.         *)
AckAllowed(i, right) ==
  /\ torn = {}
  /\ right
  /\ IF i \in receipts THEN i \in runs
                       ELSE Cardinality(receipts) < MaxReceipts /\ Exportable(i)
  /\ files[i] \subseteq Allowed

AckChecked(right) ==
  /\ At("ack", "check")
  /\ AckAllowed(holder.id, right)
  /\ Goto("receipt")
  /\ UNCHANGED <<made, stateVars, spoolVars, ackVars, launched, crashes>>

(* An error, or the answer that all is done already.                        *)
AckEnds(right) ==
  /\ At("ack", "check")
  /\ ~AckAllowed(holder.id, right)
  /\ Release
  /\ UNCHANGED <<made, stateVars, spoolVars, ackVars, launched, crashes>>

(* Mutant: the receipt is left for later.                                   *)
AckReceiptLater ==
  /\ At("ack", "receipt")
  /\ Goto("delete")
  /\ UNCHANGED <<made, stateVars, spoolVars, ackVars, launched, crashes>>

AckReceipt ==
  /\ At("ack", "receipt")
  /\ receipts' = receipts \cup {holder.id}
  /\ published' = published \cup {holder.id}
  /\ Goto("delete")
  /\ UNCHANGED <<made, stateVars, spoolVars, torn, launched, crashes>>

(* The files go in the order the directory lists them: in any order.        *)
AckUnlink(f) ==
  /\ At("ack", "delete")
  /\ f \in files[holder.id]
  /\ Remove(f)
  /\ UNCHANGED <<made, stateVars, runs, ackVars, holder, launched, crashes>>

AckRmdir ==
  /\ At("ack", "delete")
  /\ files[holder.id] = {}
  /\ runs' = runs \ {holder.id}
  /\ Release
  /\ UNCHANGED <<made, stateVars, files, ackVars, launched, crashes>>

-----------------------------------------------------------------------------

(* The process that holds the lock is killed or fails on a call.            *)
Crash ==
  /\ crashes < MaxCrashes
  /\ holder # Nobody
  /\ Release
  /\ crashes' = crashes + 1
  /\ UNCHANGED <<made, stateVars, spoolVars, ackVars, launched>>

(* The same within publish: its temporary file stays, in the run (for       *)
(* started.json, manifest.json or failed.json) or in ACKROOT.               *)
Torn ==
  /\ crashes < MaxCrashes
  /\ crashes' = crashes + 1
  /\ Release
  /\ \/ /\ holder.op = "serve"
        /\ holder.step \in {"started", "filter", "compile", "dump", "close", "manifest",
                            "complete"}
        /\ Add("tmp")
        /\ UNCHANGED torn
     \/ /\ At("ack", "receipt")
        /\ holder.id \notin receipts
        /\ torn' = torn \cup {holder.id}
        /\ UNCHANGED files
  /\ UNCHANGED <<made, stateVars, runs, receipts, published, launched>>

(* The router restarts: STATE is on a tmpfs, the spool and the receipts are *)
(* not.                                                                     *)
Reboot ==
  /\ crashes < MaxCrashes
  /\ crashes' = crashes + 1
  /\ request' = 0
  /\ last' = Unknown
  /\ holder' = Nobody
  /\ launched' = FALSE
  /\ UNCHANGED <<made, spoolVars, ackVars>>

(* What a process that has the lock does of itself, whoever calls or reads. *)
Steps ==
  \/ PublishRequest \/ PublishPending
  \/ ServeBegins \/ ServeRefused \/ ServeStarted \/ ServeRunning \/ ServeUnlink
  \/ ServeFilter \/ ServeDumps \/ DumpEnds \/ ServeClose \/ ServeManifest
  \/ ServeComplete \/ ServeFails \/ ManifestTorn \/ ServeFailed
  \/ ExportTimeout
  \/ (\E right \in BOOLEAN : AckChecked(right) \/ AckEnds(right))
  \/ AckReceipt \/ (\E f \in Files : AckUnlink(f)) \/ AckRmdir

Next ==
  \/ RequestTaken \/ Launch \/ ServeLocked \/ ServeBusy
  \/ (\E i \in Ids : ExportStart(i)) \/ ExportSent
  \/ (\E i \in Ids, expired \in SUBSET receipts : AckStart(i, expired))
  \/ Steps \/ Crash \/ Torn \/ Reboot

Spec == Init /\ [][Next]_vars

(* The router runs its processes, and tcpdump and an export have deadlines. *)
(* Nobody has to call them or to read what an export sends.                 *)
FairSpec == Spec /\ WF_vars(Steps)

-----------------------------------------------------------------------------
(* Properties.                                                              *)

(* status: what an operator is told; a run left by a dead supervisor shows  *)
(* when the lock is free.                                                   *)
Status ==
  IF last.status = "running" /\ holder = Nobody
  THEN [last EXCEPT !.status = "unknown"] ELSE last

(* At most MaxSpool runs lie in the spool, ready, failed and interrupted    *)
(* ones together: guards counts them in request and again in serve, with    *)
(* other commands and reboots in between.                                   *)
SpoolBounded == Cardinality(runs) <= MaxSpool

(* The manifest is the completion marker: a crash at any point of serve     *)
(* leaves no run that has a manifest and lacks its closed pcap; only the    *)
(* cleanup after a receipt may.                                             *)
ManifestLast == \A i \in Ids : "manifest" \in files[i] => Exportable(i) \/ i \in published

(* Nothing of a capture is deleted without a receipt for it on disk, and    *)
(* nothing at all of one that failed, whatever ack interrupted or repeated. *)
KeptUntilAcknowledged ==
  [][\A i \in Ids, f \in Files \ {"part"} :
       f \in files[i] /\ f \notin files'[i] => i \in receipts /\ "failed" \notin files[i]]_vars

(* What status says of a finished capture is so: "complete" has its         *)
(* artifact, or had it until it was acknowledged; "failed" its reason.      *)
StatusHolds ==
  /\ Status.status = "complete" => Exportable(Status.id) \/ Status.id \in published
  /\ Status.status = "failed" => "failed" \in files[Status.id]

(* A request that is pending has captured nothing yet, so that starting the *)
(* service again after a crash never captures for one request twice.        *)
RequestUnserved == request # 0 => files[request] \subseteq {"started", "tmp"}

(* The lock is always given back: a capture and an export have deadlines.   *)
LockReleased == holder # Nobody ~> holder = Nobody

(* An acknowledgement that was interrupted can be resumed: while the run is *)
(* still there its receipt is, or the artifact is intact.                   *)
CleanupResumes ==
  holder = Nobody =>
    \A i \in published \cap runs : i \in receipts \/ Exportable(i)
=============================================================================
