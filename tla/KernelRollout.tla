--------------------------- MODULE KernelRollout ---------------------------
(***************************************************************************)
(* The staged rollout of an accepted common-kernel generation to the       *)
(* staging fleet: scripts/pi-rpi5-common-kernel-rollout, the selector      *)
(* playbook it runs (ansible/openwrt/playbooks/                            *)
(* rpi5-common-kernel-rollout.yml, with the role tasks it includes), and   *)
(* the phase acceptance that closes a phase.                               *)
(*                                                                         *)
(* A generation is named by its number: 1..MaxGen in the order of the run  *)
(* ids, 0 for the release the fleet ran before the first of them.  A       *)
(* release number also stands for the paired release of that generation,   *)
(* so the Pi4 server's "-rpi4" twin and the agents' "-rpi5" release of one *)
(* generation are the same number.                                         *)
(*                                                                         *)
(* One rollout runs at a time: the operator workflow that calls the script *)
(* is sequential.  Everything else may move between two of its steps: a    *)
(* generation is accepted or re-accepted, a fresh-boot job that somebody   *)
(* else started power-cycles the nodes, the process dies.                  *)
(***************************************************************************)
EXTENDS Integers

CONSTANTS
  Agents,   (* the k3s_stg_agents group                                    *)
  EGpu,     (* the one agent of the eGPU group                             *)
  Generic,  (* the first non-eGPU agent in name order: the generic canary  *)
  Server,   (* the k3s_stg_server host, a Pi4                              *)
  MaxGen,   (* bound: generations that can be accepted                     *)
  MaxRev,   (* bound: how often one generation's record is written         *)
  Rank,     (* a host's place in the PXE host list                         *)
  MaxRuns,  (* bound: rollout invocations                                  *)
  MaxJobs,  (* bound: fresh-boot jobs that somebody else starts            *)
  Silent,   (* whether the job's status helper may fail to answer          *)
  Kernel    (* release number -> exact kernel release                      *)

ASSUME FleetAssumption ==
  /\ EGpu \in Agents
  /\ Generic \in Agents \ {EGpu}
  /\ Server \notin Agents
  /\ Rank \in [Agents \cup {Server} -> Nat]

ASSUME BoundAssumption ==
  /\ MaxGen \in Nat \ {0}
  /\ MaxRev \in Nat \ {0}
  /\ MaxRuns \in Nat \ {0}
  /\ MaxJobs \in Nat
  /\ Silent \in BOOLEAN

Fleet    == Agents \cup {Server}
Gens     == 1..MaxGen
Releases == 0..MaxGen

(* What a host's TFTP directory says: the release its boot files link to    *)
(* and the release whose NFS root its cmdline.txt names.                    *)
Selectors == [tftp : Releases, rootfs : Releases]
Pair(g)   == [tftp |-> g, rootfs |-> g]
Paired(s) == s.tftp = s.rootfs

(* A selector mapping (previous_selector_by_node, applied_selector_by_node) *)
(* as the JSON object it is: a function on the hosts it mentions.           *)
SelectorMaps == UNION {[S -> Selectors] : S \in SUBSET Fleet}
EmptyMap     == [h \in {} |-> Pair(0)]

RuntimePhases == {"generic_canary", "egpu_canary", "fleet_rollout", "full_fleet"}
Rollback      == "rollback_last_phase"
Order == [p \in RuntimePhases |->
            CASE p = "generic_canary" -> 1
              [] p = "egpu_canary"    -> 2
              [] p = "fleet_rollout"  -> 3
              [] p = "full_fleet"     -> 4]

Acceptances == {"none", "pass", "fail", "rolled_back", "selector_failed",
                "reboot_failed"}

(* rollout-phases/<phase>.json.  An unreadable or absent file reads as {},  *)
(* whose generation matches none.                                           *)
Records ==
  [gen : Releases, targets : SUBSET Fleet, previous : SelectorMaps,
   applied : SelectorMaps, acc : Acceptances, reco : BOOLEAN]
NoRecord ==
  [gen |-> 0, targets |-> {}, previous |-> EmptyMap, applied |-> EmptyMap,
   acc |-> "none", reco |-> FALSE]

(* The locals of one invocation of main().                                  *)
(*   action    what was asked for; phase: the record it will write          *)
(*   expect    revision of the accepted record the caller authorised, 0 if  *)
(*             no expectation was given                                     *)
(*   rollback  the failed record's previous selectors                       *)
(*   told      what the preflight learned of a running fresh-boot job       *)
(*   fresh     a fresh_boot_run_id exists; boot: the job's outcome           *)
(*   asked     the acceptance_status handed to phase_record_value           *)
Runs ==
  [action : RuntimePhases \cup {Rollback, "none"},
   phase : RuntimePhases \cup {"none"}, gen : Releases, expect : 0..MaxRev,
   targets : SUBSET Fleet, rollback : SelectorMaps, previous : SelectorMaps,
   applied : SelectorMaps, told : {"unknown", "idle"}, fresh : BOOLEAN,
   boot : {"none", "pass", "fail"},
   asked : {"none", "pass", "fail", "rolled_back"}]
NoRun ==
  [action |-> "none", phase |-> "none", gen |-> 0, expect |-> 0,
   targets |-> {}, rollback |-> EmptyMap, previous |-> EmptyMap,
   applied |-> EmptyMap, told |-> "unknown", fresh |-> FALSE, boot |-> "none", asked |-> "none"]

VARIABLES
  accepted, (* accepted-generation/<run>.json: its revision, 0 when absent *)
  record,   (* rollout-phases/<phase>.json                                 *)
  selector, (* what OpenWrt serves to each host                            *)
  booted,   (* what each host was last booted with                         *)
  job,      (* the fresh-boot job of the runbook: status, nodes to cycle   *)
  pc,       (* where the rollout is                                        *)
  run,      (* its locals                                                  *)
  links,    (* hosts whose boot-file links are still to be moved           *)
  cmds,     (* hosts whose cmdline.txt is still to be written              *)
  runs,     (* invocations so far                                          *)
  jobs      (* foreign fresh-boot jobs so far                              *)

vars == <<accepted, record, selector, booted, job, pc, run, links, cmds, runs, jobs>>

Steps == {"idle", "preflight", "plan", "recheck", "apply", "boot", "wait",
          "accept", "emit"}

TypeOK ==
  /\ accepted \in [Gens -> 0..MaxRev]
  /\ record \in [RuntimePhases -> Records]
  /\ selector \in [Fleet -> Selectors]
  /\ booted \in [Fleet -> Selectors]
  /\ job \in [status : {"none", "in_progress", "pass", "fail"}, left : SUBSET Fleet]
  /\ pc \in Steps
  /\ run \in Runs
  /\ links \in SUBSET Fleet
  /\ cmds \in SUBSET Fleet
  /\ runs \in 0..MaxRuns
  /\ jobs \in 0..MaxJobs

Init ==
  /\ accepted = [g \in Gens |-> 0]
  /\ record = [p \in RuntimePhases |-> NoRecord]
  /\ selector = [h \in Fleet |-> Pair(0)]
  /\ booted = [h \in Fleet |-> Pair(0)]
  /\ job = [status |-> "none", left |-> {}]
  /\ pc = "idle"
  /\ run = NoRun
  /\ links = {}
  /\ cmds = {}
  /\ runs = 0
  /\ jobs = 0

-----------------------------------------------------------------------------
(* What the script reads before it acts.                                    *)

IsLatest(g) == accepted[g] > 0 /\ \A k \in Gens : accepted[k] > 0 => k <= g

Passed(p, g) == record[p].gen = g /\ record[p].acc = "pass"

RecordTargets(p, g) == IF record[p].gen = g THEN record[p].targets ELSE {}

PolicyTargets(p, g) ==
  CASE p = "generic_canary" -> {Generic}
    [] p = "egpu_canary"    -> {EGpu}
    [] p = "fleet_rollout"  -> Agents \ (RecordTargets("generic_canary", g)
                                          \cup RecordTargets("egpu_canary", g))
    [] p = "full_fleet"     -> Fleet

(* Mutants: the fleet gate asks the wrong canary; a passed phase may rerun. *)
GateOpenWrongCanary(p, g) ==
  /\ ~Passed(p, g)
  /\ p = "egpu_canary" => Passed("generic_canary", g)
  /\ p = "fleet_rollout" => Passed("generic_canary", g)
  /\ PolicyTargets(p, g) # {}
GateOpenRerun(p, g) ==
  /\ p = "egpu_canary" => Passed("generic_canary", g)
  /\ p = "fleet_rollout" => Passed("egpu_canary", g)
  /\ PolicyTargets(p, g) # {}

(* target_policy for a runtime phase: the errors it raises, negated.        *)
GateOpen(p, g) ==
  /\ ~Passed(p, g)
  /\ p = "egpu_canary" => Passed("generic_canary", g)
  /\ p = "fleet_rollout" => Passed("egpu_canary", g)
  /\ PolicyTargets(p, g) # {}

RollbackCandidates(g) ==
  {p \in RuntimePhases : record[p].gen = g /\ record[p].acc = "fail" /\ record[p].reco}

(* target_policy for a rollback: the candidate latest in RUNTIME_PHASES,    *)
(* refused unless it recorded a previous selector for each of its targets.  *)
RollbackSource(p, g) ==
  /\ p \in RollbackCandidates(g)
  /\ \A q \in RollbackCandidates(g) : Order[q] <= Order[p]
  /\ record[p].targets # {}
  /\ record[p].targets \subseteq DOMAIN record[p].previous

SelectorsChanged(r) ==
  /\ DOMAIN r.previous # {}
  /\ \E h \in r.targets : r.previous[h] # r.applied[h]

(* phase_record_value, the override at the end of the file.                 *)
PhaseRecord(r) ==
  [gen |-> r.gen, targets |-> r.targets, previous |-> r.previous,
   applied |-> r.applied,
   acc |-> CASE r.action = Rollback -> r.asked
             [] r.action # Rollback /\ ~r.fresh -> "selector_failed"
             [] r.action # Rollback /\ r.fresh /\ r.boot # "pass" -> "reboot_failed"
             [] OTHER -> r.asked,
   reco |-> /\ r.action # Rollback
            /\ r.fresh
            /\ r.boot = "pass"
            /\ r.asked = "fail"
            /\ SelectorsChanged(r)]

-----------------------------------------------------------------------------
(* The rollout script.                                                      *)

StartForward(p, g, e) ==
  /\ pc = "idle"
  /\ runs < MaxRuns
  /\ IsLatest(g)
  /\ e \in {0, accepted[g]}
  /\ GateOpen(p, g)
  /\ run' = [NoRun EXCEPT !.action = p, !.phase = p, !.gen = g, !.expect = e,
                          !.targets = PolicyTargets(p, g)]
  /\ pc' = "preflight"
  /\ runs' = runs + 1
  /\ UNCHANGED <<accepted, record, selector, booted, job, links, cmds, jobs>>

StartRollback(p, g) ==
  /\ pc = "idle"
  /\ runs < MaxRuns
  /\ IsLatest(g)
  /\ RollbackSource(p, g)
  /\ run' = [NoRun EXCEPT !.action = Rollback, !.phase = p, !.gen = g,
                          !.targets = record[p].targets,
                          !.rollback = record[p].previous]
  /\ pc' = "preflight"
  /\ runs' = runs + 1
  /\ UNCHANGED <<accepted, record, selector, booted, job, links, cmds, jobs>>

Goto(l) == pc' = l /\ UNCHANGED run

(* A failure that still produces a phase record.                            *)
Fail == pc' = "emit" /\ run' = [run EXCEPT !.asked = "fail"]

(* The process ends; its temporary directory, with the plan in it, is gone. *)
Done == pc' = "idle" /\ run' = NoRun

(* The answers the status helper may give: the job's state, or nothing that *)
(* reads as a status, for the script ignores the helper's exit code.  While *)
(* no job is active, no answer comes to the same as the answer "idle".      *)
StatusAnswers ==
  IF job.status # "in_progress" THEN {"idle"}
  ELSE {"active"} \cup (IF Silent THEN {"unknown"} ELSE {})

(* Mutant: an active fresh-boot job is not noticed.                         *)
PreflightBlind ==
  /\ pc = "preflight"
  /\ \E answer \in StatusAnswers :
       run' = [run EXCEPT !.told = IF answer = "active" THEN "idle" ELSE answer]
  /\ pc' = "plan"
  /\ UNCHANGED <<accepted, record, selector, booted, job, links, cmds, runs, jobs>>

(* ensure_cluster_healthy (an observation of the cluster: it refuses or it  *)
(* lets go on) and ensure_no_active_fresh_boot, which refuses only the      *)
(* answer that a job is active: without an answer the script goes on.       *)
Preflight ==
  /\ pc = "preflight"
  /\ \E answer \in StatusAnswers \ {"active"} : run' = [run EXCEPT !.told = answer]
  /\ pc' = "plan"
  /\ UNCHANGED <<accepted, record, selector, booted, job, links, cmds, runs, jobs>>

(* RolloutError: the result has no phase record.                            *)
PreflightRefused ==
  /\ pc = "preflight"
  /\ Done
  /\ UNCHANGED <<accepted, record, selector, booted, job, links, cmds, runs, jobs>>

(* The playbook up to the pre-mutation plan: its input, artifact-identity   *)
(* and source checks, the live snapshot, the selectors to apply.            *)
PlanFails ==
  /\ pc = "plan"
  /\ Fail
  /\ UNCHANGED <<accepted, record, selector, booted, job, links, cmds, runs, jobs>>

(* Mutant: a rollback plans the live selectors again.                       *)
PlanKeepsLive ==
  /\ pc = "plan"
  /\ run' = [run EXCEPT
               !.previous = [h \in run.targets |-> selector[h]],
               !.applied = [h \in run.targets |->
                              IF run.action = Rollback THEN selector[h]
                                                       ELSE Pair(run.gen)]]
  /\ pc' = "recheck"
  /\ UNCHANGED <<accepted, record, selector, booted, job, links, cmds, runs, jobs>>

Plan ==
  /\ pc = "plan"
  /\ run' = [run EXCEPT
               !.previous = [h \in run.targets |-> selector[h]],
               !.applied = [h \in run.targets |->
                              IF run.action = Rollback THEN run.rollback[h]
                                                       ELSE Pair(run.gen)]]
  /\ pc' = "recheck"
  /\ UNCHANGED <<accepted, record, selector, booted, job, links, cmds, runs, jobs>>

(* The accepted record is still the latest one and still the one that was   *)
(* authorised; only a forward phase with an expectation looks.              *)
StillAuthorised ==
  run.action # Rollback /\ run.expect # 0 =>
    IsLatest(run.gen) /\ accepted[run.gen] = run.expect

(* pxe_host_releases refuses a host whose two releases differ.              *)
AllPaired == \A h \in run.targets : Paired(run.applied[h])

ChangeRequired == run.previous # run.applied

Recheck ==
  /\ pc = "recheck"
  /\ IF ~StillAuthorised \/ (ChangeRequired /\ ~AllPaired)
     THEN Fail /\ UNCHANGED <<links, cmds>>
     ELSE /\ Goto("apply")
          /\ links' = IF ChangeRequired THEN run.targets ELSE {}
          /\ cmds' = IF ChangeRequired THEN run.targets ELSE {}
  /\ UNCHANGED <<accepted, record, selector, booted, job, runs, jobs>>

(* The next host of a loop over the PXE host list.                          *)
IsNext(h, S) == h \in S /\ \A k \in S : Rank[h] <= Rank[k]

(* Mutant: the links point at the release after the planned one.            *)
MoveLinksNext(h) ==
  /\ pc = "apply"
  /\ IsNext(h, links)
  /\ selector' = [selector EXCEPT ![h].tftp = run.applied[h].tftp + 1]
  /\ links' = links \ {h}
  /\ UNCHANGED <<accepted, record, booted, job, pc, run, cmds, runs, jobs>>

(* tftp_hosts: a task loops over the hosts to move the boot-file links, a   *)
(* later one loops over them to write cmdline.txt.                          *)
MoveLinks(h) ==
  /\ pc = "apply"
  /\ IsNext(h, links)
  /\ selector' = [selector EXCEPT ![h].tftp = run.applied[h].tftp]
  /\ links' = links \ {h}
  /\ UNCHANGED <<accepted, record, booted, job, pc, run, cmds, runs, jobs>>

WriteCmdline(h) ==
  /\ pc = "apply"
  /\ links = {}
  /\ IsNext(h, cmds)
  /\ selector' = [selector EXCEPT ![h].rootfs = run.applied[h].rootfs]
  /\ cmds' = cmds \ {h}
  /\ UNCHANGED <<accepted, record, booted, job, pc, run, links, runs, jobs>>

(* A task fails: the plan is all the result file holds.                     *)
ApplyFails ==
  /\ pc = "apply"
  /\ Fail
  /\ links' = {}
  /\ cmds' = {}
  /\ UNCHANGED <<accepted, record, selector, booted, job, runs, jobs>>

(* The loops are done.  The live selectors are read back when a change was  *)
(* made; then the "applied" result is written and the process may still     *)
(* exit non-zero.                                                           *)
Postcheck ==
  /\ pc = "apply"
  /\ links = {}
  /\ cmds = {}
  /\ \/ /\ ChangeRequired => \A h \in run.targets : selector[h] = run.applied[h]
        /\ Goto("boot")
     \/ Fail
  /\ UNCHANGED <<accepted, record, selector, booted, job, links, cmds, runs, jobs>>

(* run_fresh_boot: the start helper answers "started", or "in_progress"     *)
(* when a job is already running, and the script goes on with either.       *)
StartBoot ==
  /\ pc = "boot"
  /\ job' = IF job.status = "in_progress" THEN job
            ELSE [status |-> "in_progress", left |-> Fleet]
  /\ run' = [run EXCEPT !.fresh = TRUE]
  /\ pc' = "wait"
  /\ UNCHANGED <<accepted, record, selector, booted, links, cmds, runs, jobs>>

(* The start helper gives no usable answer: RolloutError, no record.        *)
BootRefused ==
  /\ pc = "boot"
  /\ Done
  /\ UNCHANGED <<accepted, record, selector, booted, job, links, cmds, runs, jobs>>

(* The wait helper reports the job's end, or the deadline passes first.     *)
BootPassed ==
  /\ pc = "wait"
  /\ job.status = "pass"
  /\ run' = [run EXCEPT !.boot = "pass"]
  /\ pc' = "accept"
  /\ UNCHANGED <<accepted, record, selector, booted, job, links, cmds, runs, jobs>>

(* Mutant: no deadline, only the job's own failure ends the wait.           *)
BootNotPassedNoDeadline ==
  /\ pc = "wait"
  /\ job.status = "fail"
  /\ run' = [run EXCEPT !.boot = "fail", !.asked = "fail"]
  /\ pc' = "emit"
  /\ UNCHANGED <<accepted, record, selector, booted, job, links, cmds, runs, jobs>>

BootNotPassed ==
  /\ pc = "wait"
  /\ job.status # "pass"
  /\ run' = [run EXCEPT !.boot = "fail", !.asked = "fail"]
  /\ pc' = "emit"
  /\ UNCHANGED <<accepted, record, selector, booted, job, links, cmds, runs, jobs>>

(* run_phase_acceptance.  Its runtime checks read `uname -r`, and nothing   *)
(* of the root file system, on these hosts; a rollback expects no release.  *)
AcceptanceTargets(r) ==
  IF r.action \in {"fleet_rollout", "full_fleet"} THEN Agents ELSE r.targets

(* Mutant: only a canary is asked for its kernel release.                   *)
RuntimeAcceptedCanaries(r) ==
  r.action \in {"generic_canary", "egpu_canary"} =>
    \A h \in r.targets : Kernel[booted[h].tftp] = Kernel[r.gen]

RuntimeAccepted(r) ==
  r.action # Rollback =>
    \A h \in AcceptanceTargets(r) : Kernel[booted[h].tftp] = Kernel[r.gen]

PhaseAccepted ==
  /\ pc = "accept"
  /\ RuntimeAccepted(run)
  /\ run' = [run EXCEPT !.asked = IF run.action = Rollback THEN "rolled_back" ELSE "pass"]
  /\ pc' = "emit"
  /\ UNCHANGED <<accepted, record, selector, booted, job, links, cmds, runs, jobs>>

(* A runtime check, the cluster or the LLM never became healthy in time.    *)
PhaseRejected ==
  /\ pc = "accept"
  /\ Fail
  /\ UNCHANGED <<accepted, record, selector, booted, job, links, cmds, runs, jobs>>

(* The caller stores the phase_record of the result it was given.           *)
Persist ==
  /\ pc = "emit"
  /\ record' = [record EXCEPT ![run.phase] = PhaseRecord(run)]
  /\ Done
  /\ UNCHANGED <<accepted, selector, booted, job, links, cmds, runs, jobs>>

(* The process is killed, or a command runs into its timeout (RolloutError):*)
(* no phase record, whatever was already applied.                           *)
Abort ==
  /\ pc # "idle"
  /\ Done
  /\ links' = {}
  /\ cmds' = {}
  /\ UNCHANGED <<accepted, record, selector, booted, job, runs, jobs>>

-----------------------------------------------------------------------------
(* Around the script.                                                       *)

(* The generation gate passes and the caller writes, or rewrites, the       *)
(* accepted record of a generation, in any order of run ids.                *)
AcceptGeneration(g) ==
  /\ accepted[g] < MaxRev
  /\ accepted' = [accepted EXCEPT ![g] = @ + 1]
  /\ UNCHANGED <<record, selector, booted, job, pc, run, links, cmds, runs, jobs>>

(* Somebody else starts a fresh-boot job.                                   *)
ForeignBoot ==
  /\ job.status # "in_progress"
  /\ jobs < MaxJobs
  /\ jobs' = jobs + 1
  /\ job' = [status |-> "in_progress", left |-> Fleet]
  /\ UNCHANGED <<accepted, record, selector, booted, pc, run, links, cmds, runs>>

(* The job power-cycles a node, which boots what OpenWrt serves it.         *)
BootNode(h) ==
  /\ job.status = "in_progress"
  /\ h \in job.left
  /\ booted' = [booted EXCEPT ![h] = selector[h]]
  /\ job' = [job EXCEPT !.left = @ \ {h}]
  /\ UNCHANGED <<accepted, record, selector, pc, run, links, cmds, runs, jobs>>

JobEnds ==
  /\ job.status = "in_progress"
  /\ \/ job.left = {} /\ job' = [job EXCEPT !.status = "pass"]
     \/ job' = [status |-> "fail", left |-> {}]
  /\ UNCHANGED <<accepted, record, selector, booted, pc, run, links, cmds, runs, jobs>>

-----------------------------------------------------------------------------

Script ==
  \/ Preflight \/ PreflightRefused \/ PlanFails \/ Plan \/ Recheck
  \/ \E h \in Fleet : MoveLinks(h) \/ WriteCmdline(h)
  \/ ApplyFails \/ Postcheck
  \/ StartBoot \/ BootRefused \/ BootPassed \/ BootNotPassed
  \/ PhaseAccepted \/ PhaseRejected \/ Persist

Next ==
  \/ \E g \in Gens :
       \/ \E p \in RuntimePhases :
            \/ \E e \in 0..MaxRev : StartForward(p, g, e)
            \/ StartRollback(p, g)
       \/ AcceptGeneration(g)
  \/ Script \/ Abort
  \/ ForeignBoot \/ JobEnds \/ \E h \in Fleet : BootNode(h)

Spec == Init /\ [][Next]_vars

(* The process is scheduled and each of its commands has a timeout.  Nobody *)
(* promises to start one, to accept a generation, or that a job ends.       *)
FairSpec == Spec /\ WF_vars(Script)

-----------------------------------------------------------------------------
(* Properties.                                                              *)

Gate == [p \in {"egpu_canary", "fleet_rollout"} |->
           IF p = "egpu_canary" THEN "generic_canary" ELSE "egpu_canary"]

(* A phase behind a gate has passed for a generation only if the phase in   *)
(* front of it passed for the same generation; that record may since have   *)
(* been replaced, but only by one of a newer generation.  target_policy     *)
(* looks at the gate hours before the record is stored, and rollbacks,      *)
(* retries and full_fleet runs write records in between.                    *)
GateOrder ==
  \A p \in DOMAIN Gate :
    record[p].acc = "pass" =>
      \/ Passed(Gate[p], record[p].gen)
      \/ record[Gate[p]].gen > record[p].gen

(* A stored pass is never taken back by a retry, a failure or a rollback of *)
(* the same generation, and no record gives way to an older generation's.   *)
PassIsFinal ==
  [][\A p \in RuntimePhases :
       record'[p] # record[p] =>
         /\ record'[p].gen >= record[p].gen
         /\ record[p].acc = "pass" => record'[p].gen > record[p].gen]_vars

(* When a rollback is recorded as accepted, every host of the failed phase  *)
(* is served what it was served before that phase moved it.                 *)
RollbackRestores ==
  [][\A p \in RuntimePhases :
       record'[p] # record[p] /\ record'[p].acc = "rolled_back" =>
         \A h \in record[p].targets : selector[h] = record[p].previous[h]]_vars

(* A step that stores a verdict of success for targets that were not all    *)
(* booted with the selectors the record says were applied.                  *)
StaleVerdict(p) ==
  /\ record'[p] # record[p]
  /\ record'[p].acc \in {"pass", "rolled_back"}
  /\ \E h \in record'[p].targets : booted[h] # record'[p].applied[h]

(* As long as nobody else starts fresh-boot jobs, success is recorded only  *)
(* for targets booted with the applied selectors if the preflight's status  *)
(* helper answered: an earlier invocation's job, left running by a timeout  *)
(* or a kill, then never counts for this one.  Without an answer it may:    *)
(* the preflight passes over the job and the boot step adopts it.           *)
BootedAsRecorded ==
  [][jobs = 0 /\ run.told # "unknown" => \A p \in RuntimePhases : ~StaleVerdict(p)]_vars

(* The same whatever else happens: each success needs this generation's own *)
(* fresh boot, as the name of a test of run_fresh_boot says.                *)
OwnFreshBoot == [][\A p \in RuntimePhases : ~StaleVerdict(p)]_vars

(* A stored pass means that the hosts it speaks for run the generation's    *)
(* kernel, even when it adopted a job that booted some of them before the   *)
(* selectors moved, and even if they are power-cycled again before the      *)
(* record is stored.  A host that the phase did not move itself is served   *)
(* what it runs only if no older job was running at the preflight, so of    *)
(* those it holds when the status helper answered.                          *)
PassRunsKernel ==
  [][\A p \in RuntimePhases :
       record'[p] # record[p] /\ record'[p].acc = "pass" =>
         \A h \in AcceptanceTargets(run) :
           h \in run.targets \/ run.told # "unknown" =>
             Kernel[booted[h].tftp] = Kernel[record'[p].gen]]_vars

(* A record of a forward phase that left its targets on other selectors     *)
(* than before can be rolled back: the plan is recorded before the mutation *)
(* for that purpose.                                                        *)
PlanGivesRollback ==
  pc = "idle" =>
    \A p \in RuntimePhases :
      record[p].acc = "selector_failed"
        /\ (\E h \in DOMAIN record[p].previous : selector[h] # record[p].previous[h])
      => RollbackCandidates(record[p].gen) # {}

(* An invocation ends: the job it waits for may hang, but its wait has a    *)
(* deadline, and every other step ends or fails.                            *)
RunEnds == pc # "idle" ~> pc = "idle"

=============================================================================
