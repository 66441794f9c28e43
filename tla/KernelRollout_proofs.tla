----------------------- MODULE KernelRollout_proofs -----------------------
(***************************************************************************)
(* Proofs about KernelRollout, for every fleet, kernel assignment and      *)
(* bound.                                                                  *)
(*                                                                         *)
(* The properties speak of the step that stores a phase record; what makes *)
(* it right was read or done many steps earlier.  The inductive invariant  *)
(* carries those facts from where they are established to that step: what  *)
(* target_policy saw still stands (Standing), the live selectors are the   *)
(* ones the plan read and then the ones it applied (Served), and a job the *)
(* invocation waits for has booted what is served (OwnJob).  KInv adds     *)
(* what the kernel release of the other hosts needs: they run what they    *)
(* are served (Bystanders).                                                *)
(***************************************************************************)
EXTENDS KernelRollout, TLAPS

(* The locals fit together at each step of an invocation.                   *)
RunShape ==
  /\ pc # "idle" => /\ run.action \in RuntimePhases \cup {Rollback}
                    /\ run.phase \in RuntimePhases
                    /\ run.gen \in Gens
                    /\ run.action # Rollback => run.phase = run.action
                    /\ run.action = Rollback => run.targets \subseteq DOMAIN run.rollback
  /\ pc \in {"recheck", "apply", "boot", "wait", "accept"} =>
       DOMAIN run.previous = run.targets /\ DOMAIN run.applied = run.targets
  /\ links \subseteq run.targets
  /\ cmds \subseteq run.targets
  /\ pc # "apply" => links = {} /\ cmds = {}

(* The invocation is about to store a success.                              *)
Succeeded == pc = "emit" /\ run.asked \in {"pass", "rolled_back"}

Verdict ==
  /\ pc \notin {"idle", "emit"} => run.asked = "none"
  /\ pc = "emit" => /\ run.asked # "none"
                    /\ run.asked = "pass" => run.action # Rollback
                    /\ run.asked = "rolled_back" => run.action = Rollback
                    /\ Succeeded => DOMAIN run.applied = run.targets

(* Generations with a record, or in progress, are accepted.                 *)
Known ==
  /\ \A p \in RuntimePhases : record[p].gen \in Gens => accepted[record[p].gen] > 0
  /\ pc # "idle" => accepted[run.gen] > 0

(* What target_policy saw when the invocation started still stands.         *)
Standing ==
  pc # "idle" =>
    /\ \A p \in RuntimePhases : record[p].gen <= run.gen
    /\ run.action # Rollback => ~Passed(run.phase, run.gen)
    /\ run.action \in DOMAIN Gate => Passed(Gate[run.action], run.gen)
    /\ run.action = Rollback => /\ record[run.phase].acc = "fail"
                                /\ record[run.phase].targets = run.targets
                                /\ record[run.phase].previous = run.rollback

(* The selectors served to the targets, from the plan to the record.        *)
Served ==
  /\ pc = "recheck" \/ (pc = "apply" /\ ~ChangeRequired) =>
       \A h \in run.targets : selector[h] = run.previous[h]
  /\ pc = "apply" /\ ~ChangeRequired => links = {} /\ cmds = {}
  /\ pc \in {"boot", "wait", "accept"} \/ Succeeded =>
       \A h \in run.targets : selector[h] = run.applied[h]
  /\ run.action = Rollback
       /\ (pc \in {"recheck", "apply", "boot", "wait", "accept"} \/ Succeeded) =>
         \A h \in run.targets : run.applied[h] = run.rollback[h]

(* When no job was seen running at the preflight, and nobody else starts    *)
(* one, the job waited for boots what is served.                            *)
OwnJob ==
  jobs = 0 /\ run.told # "unknown" =>
    /\ pc \in {"plan", "recheck", "apply", "boot"} => job.status # "in_progress"
    /\ pc = "wait" /\ job.status = "in_progress" =>
         \A h \in Fleet \ job.left : booted[h] = selector[h]
    /\ pc = "wait" /\ job.status = "pass" => \A h \in Fleet : booted[h] = selector[h]
    /\ pc = "accept" \/ Succeeded => \A h \in run.targets : booted[h] = selector[h]

IInv ==
  /\ TypeOK
  /\ RunShape
  /\ Verdict
  /\ Known
  /\ Standing
  /\ GateOrder
  /\ Served
  /\ OwnJob

-----------------------------------------------------------------------------
(* Selector maps and record values.                                         *)

(* Any assignment of selectors to some hosts is a selector map.             *)
LEMMA MapIn ==
  ASSUME NEW S \in SUBSET Fleet, NEW f \in [S -> Selectors]
  PROVE  f \in SelectorMaps
BY DEF SelectorMaps

(* A selector map assigns selectors to the hosts it mentions.               *)
LEMMA MapOut ==
  ASSUME NEW f \in SelectorMaps
  PROVE  DOMAIN f \in SUBSET Fleet /\ \A h \in DOMAIN f : f[h] \in Selectors
BY DEF SelectorMaps

(* The release 0 and each generation is a release, and its pair a selector. *)
LEMMA PairType ==
  ASSUME NEW g \in Releases
  PROVE  Pair(g) \in Selectors
BY DEF Pair, Selectors

(* Releases are natural numbers, 0 standing for none.                       *)
LEMMA ReleaseFacts ==
  0 \in Releases /\ Gens \subseteq Releases /\ Gens \subseteq Nat \ {0}
BY BoundAssumption DEF Releases, Gens

(* The empty selector map is a selector map.                                *)
LEMMA EmptyMapType == EmptyMap \in SelectorMaps
<1>1. EmptyMap \in [{} -> Selectors]
  BY DEF EmptyMap
<1> QED BY <1>1, MapIn

(* The absence of a record has the type of a record.                        *)
LEMMA NoRecordType == NoRecord \in Records
BY EmptyMapType, ReleaseFacts DEF NoRecord, Records, Acceptances

(* The absence of a run has the type of a run.                              *)
LEMMA NoRunType == NoRun \in Runs
BY EmptyMapType, ReleaseFacts, BoundAssumption DEF NoRun, Runs

(* The phase record an invocation's locals give is a record.                *)
LEMMA PhaseRecordType ==
  ASSUME NEW r \in Runs
  PROVE  PhaseRecord(r) \in Records
BY DEF PhaseRecord, Records, Runs, Acceptances

(* A runtime phase targets hosts of the fleet.                              *)
LEMMA PolicyTargetsType ==
  ASSUME TypeOK, NEW p \in RuntimePhases, NEW g \in Gens
  PROVE  PolicyTargets(p, g) \in SUBSET Fleet
BY FleetAssumption DEF PolicyTargets, RuntimePhases, Fleet

(* Initially nothing is recorded, in progress or different.                 *)
LEMMA InitInv == Init => IInv
<1> SUFFICES ASSUME Init PROVE IInv
  OBVIOUS
<1>1. TypeOK
  BY NoRecordType, NoRunType, ReleaseFacts, PairType, BoundAssumption
     DEF Init, TypeOK, Steps
<1>2. RunShape /\ Verdict /\ Standing /\ Served
  BY DEF Init, RunShape, Verdict, Standing, Served, NoRun, Succeeded
<1>3. Known
  BY ReleaseFacts DEF Init, Known, NoRecord
<1>4. GateOrder
  BY DEF Init, GateOrder, Gate, NoRecord, RuntimePhases
<1>5. OwnJob
  BY DEF Init, OwnJob, NoRun, Succeeded
<1> QED BY <1>1, <1>2, <1>3, <1>4, <1>5 DEF IInv

-----------------------------------------------------------------------------
(* Each action preserves the invariant.                                     *)

(* Preflight moves on only: the gates stay as they were read.               *)
LEMMA PreflightInv ==
  ASSUME IInv, Preflight
  PROVE  IInv'
<1> PICK answer \in StatusAnswers \ {"active"} : run' = [run EXCEPT !.told = answer]
  BY DEF Preflight
<1>1. /\ pc = "preflight" /\ pc' = "plan" /\ run \in Runs
      /\ UNCHANGED <<accepted, record, selector, booted, job, links, cmds, runs, jobs>>
  BY DEF IInv, TypeOK, Preflight
<1>2. /\ answer \in {"unknown", "idle"}
      /\ answer = "idle" => job.status # "in_progress"
  BY DEF StatusAnswers
<1>3. TypeOK'
  BY <1>1, <1>2 DEF IInv, TypeOK, Steps, Runs
<1>4. /\ run'.action = run.action /\ run'.phase = run.phase /\ run'.gen = run.gen
      /\ run'.targets = run.targets /\ run'.rollback = run.rollback
      /\ run'.previous = run.previous /\ run'.applied = run.applied
      /\ run'.asked = run.asked /\ run'.told = answer
  BY <1>1 DEF Runs
<1>5. RunShape' /\ Verdict'
  BY <1>1, <1>4 DEF IInv, RunShape, Verdict, Succeeded
<1>6. Known' /\ Standing' /\ GateOrder'
  BY <1>1, <1>4 DEF IInv, Known, Standing, Passed, GateOrder
<1>7. Served'
  BY <1>1, <1>4 DEF IInv, Served, Succeeded, ChangeRequired
<1>8. OwnJob'
  BY <1>1, <1>2, <1>4 DEF OwnJob, Succeeded
<1> QED BY <1>3, <1>5, <1>6, <1>7, <1>8 DEF IInv

(* A refused preflight ends the run without a mutation.                     *)
LEMMA PreflightRefusedInv ==
  ASSUME IInv, PreflightRefused
  PROVE  IInv'
<1>1. TypeOK'
  BY NoRunType
     DEF IInv, PreflightRefused, Done, TypeOK, Steps, Runs
<1>2. RunShape' /\ Verdict'
  BY DEF IInv, PreflightRefused, Done, RunShape, Verdict, Succeeded, NoRun
<1>3. Known' /\ Standing' /\ GateOrder'
  BY DEF IInv, PreflightRefused, Done, Known, Standing, Passed, GateOrder,
         NoRun
<1>4. Served'
  BY DEF IInv, PreflightRefused, Done, Served, Succeeded, ChangeRequired,
         NoRun
<1>5. OwnJob'
  BY DEF IInv, PreflightRefused, Done, OwnJob, Succeeded, NoRun
<1> QED BY <1>1, <1>2, <1>3, <1>4, <1>5 DEF IInv

(* A plan that fails leaves the selectors alone.                            *)
LEMMA PlanFailsInv ==
  ASSUME IInv, PlanFails
  PROVE  IInv'
<1>1. TypeOK'
  BY DEF IInv, PlanFails, Fail, TypeOK, Steps, Runs
<1>2. RunShape' /\ Verdict'
  BY DEF IInv, PlanFails, Fail, RunShape, Verdict, Succeeded
<1>3. Known' /\ Standing' /\ GateOrder'
  BY DEF IInv, PlanFails, Fail, Known, Standing, Passed, GateOrder
<1>4. Served'
  BY DEF IInv, PlanFails, Fail, Served, Succeeded, ChangeRequired
<1>5. OwnJob'
  BY DEF IInv, PlanFails, Fail, OwnJob, Succeeded
<1> QED BY <1>1, <1>2, <1>3, <1>4, <1>5 DEF IInv

(* The plan names the selectors served now as the previous ones.            *)
LEMMA PlanInv ==
  ASSUME IInv, Plan
  PROVE  IInv'
<1>1. TypeOK'
  <2> DEFINE prev == [h \in run.targets |-> selector[h]]
             appl == [h \in run.targets |-> IF run.action = Rollback THEN run.rollback[h]
                                                                     ELSE Pair(run.gen)]
  <2>1. run \in Runs /\ run.targets \in SUBSET Fleet /\ run.rollback \in SelectorMaps
    BY DEF IInv, TypeOK, Runs
  <2>2. prev \in SelectorMaps
    <3>1. prev \in [run.targets -> Selectors]
      BY <2>1 DEF IInv, TypeOK
    <3> QED BY <2>1, <3>1, MapIn
  <2>3. appl \in SelectorMaps
    <3>1. ASSUME NEW h \in run.targets, run.action = Rollback
          PROVE  run.rollback[h] \in Selectors
      <4>1. h \in DOMAIN run.rollback
        BY <3>1 DEF IInv, RunShape, Plan
      <4> QED BY <2>1, <4>1, MapOut
    <3>2. Pair(run.gen) \in Selectors
      BY <2>1, PairType DEF Runs
    <3>3. appl \in [run.targets -> Selectors]
      BY <3>1, <3>2
    <3> QED BY <2>1, <3>3, MapIn
  <2>4. run' \in Runs
    <3>1. run' = [run EXCEPT !.previous = prev, !.applied = appl]
      BY DEF Plan
    <3> HIDE DEF prev, appl
    <3> QED BY <2>1, <2>2, <2>3, <3>1 DEF Runs
  <2> QED BY <2>4 DEF IInv, TypeOK, Plan, Steps
<1>2. RunShape' /\ Verdict'
  BY DEF IInv, Plan, RunShape, Verdict, Succeeded
<1>3. Known' /\ Standing' /\ GateOrder'
  BY DEF IInv, Plan, Known, Standing, GateOrder, Passed
<1>4. Served'
  BY DEF IInv, Plan, Served, Succeeded, ChangeRequired
<1>5. OwnJob'
  BY DEF IInv, Plan, OwnJob, Succeeded
<1> QED BY <1>1, <1>2, <1>3, <1>4, <1>5 DEF IInv

(* The recheck queues the planned changes, or fails.                        *)
LEMMA RecheckInv ==
  ASSUME IInv, Recheck
  PROVE  IInv'
<1>1. TypeOK'
  BY DEF IInv, Recheck, Goto, Fail, TypeOK, Steps, Runs
<1>2. RunShape' /\ Verdict'
  BY ReleaseFacts, BoundAssumption, FleetAssumption
     DEF IInv, Recheck, Goto, Fail, RunShape, Verdict, Succeeded, TypeOK,
         Runs, Steps, Gate, Rollback
<1>3. Known' /\ Standing' /\ GateOrder'
  BY ReleaseFacts, BoundAssumption, FleetAssumption
     DEF IInv, Recheck, Goto, Fail, Known, Standing, Passed, GateOrder,
         TypeOK, RunShape, Verdict, Succeeded, Runs, Steps, Gate, Rollback
<1>4. Served'
  BY ReleaseFacts, BoundAssumption, FleetAssumption
     DEF IInv, Recheck, Goto, Fail, Served, Succeeded, ChangeRequired, TypeOK,
         RunShape, Verdict, Runs, Steps, Gate, Rollback
<1>5. OwnJob'
  BY ReleaseFacts, BoundAssumption, FleetAssumption
     DEF IInv, Recheck, Goto, Fail, OwnJob, Succeeded, TypeOK, RunShape,
         Verdict, Runs, Steps, Gate, Rollback
<1> QED BY <1>1, <1>2, <1>3, <1>4, <1>5 DEF IInv

(* The plan names a release for each host the loops still have to visit.    *)
LEMMA PlannedSelector ==
  ASSUME IInv, pc = "apply", NEW h \in run.targets
  PROVE  run.applied[h] \in Selectors
<1>1. run.applied \in SelectorMaps /\ h \in DOMAIN run.applied
  BY DEF IInv, TypeOK, Runs, RunShape
<1> QED BY <1>1, MapOut

(* One target's links move to what the plan names.                          *)
LEMMA MoveLinksInv ==
  ASSUME NEW h \in Fleet, IInv, MoveLinks(h)
  PROVE  IInv'
<1>1. TypeOK'
  <2>1. h \in run.targets /\ links \in SUBSET Fleet
    BY DEF IInv, TypeOK, RunShape, MoveLinks, IsNext
  <2>2. run.applied[h].tftp \in Releases
    BY <2>1, PlannedSelector DEF MoveLinks, Selectors
  <2>3. selector' \in [Fleet -> Selectors]
    BY <2>2 DEF IInv, TypeOK, MoveLinks, Selectors
  <2> QED BY <2>1, <2>3 DEF IInv, TypeOK, MoveLinks
<1>2. RunShape' /\ Verdict'
  BY DEF IInv, MoveLinks, IsNext, RunShape, Verdict, Succeeded
<1>3. Known' /\ Standing' /\ GateOrder'
  BY DEF IInv, MoveLinks, IsNext, Known, Standing, Passed, GateOrder
<1>4. Served'
  BY DEF IInv, MoveLinks, IsNext, Served, Succeeded, ChangeRequired
<1>5. OwnJob'
  BY DEF IInv, MoveLinks, IsNext, OwnJob, Succeeded
<1> QED BY <1>1, <1>2, <1>3, <1>4, <1>5 DEF IInv

(* One target's command line joins its links: it is as planned.             *)
LEMMA WriteCmdlineInv ==
  ASSUME NEW h \in Fleet, IInv, WriteCmdline(h)
  PROVE  IInv'
<1>1. TypeOK'
  <2>1. h \in run.targets /\ cmds \in SUBSET Fleet
    BY DEF IInv, TypeOK, RunShape, WriteCmdline, IsNext
  <2>2. run.applied[h].rootfs \in Releases
    BY <2>1, PlannedSelector DEF WriteCmdline, Selectors
  <2>3. selector' \in [Fleet -> Selectors]
    BY <2>2 DEF IInv, TypeOK, WriteCmdline, Selectors
  <2> QED BY <2>1, <2>3 DEF IInv, TypeOK, WriteCmdline
<1>2. RunShape' /\ Verdict'
  BY DEF IInv, WriteCmdline, IsNext, RunShape, Verdict, Succeeded
<1>3. Known' /\ Standing' /\ GateOrder'
  BY DEF IInv, WriteCmdline, IsNext, Known, Standing, Passed, GateOrder
<1>4. Served'
  BY DEF IInv, WriteCmdline, IsNext, Served, Succeeded, ChangeRequired
<1>5. OwnJob'
  BY DEF IInv, WriteCmdline, IsNext, OwnJob, Succeeded
<1> QED BY <1>1, <1>2, <1>3, <1>4, <1>5 DEF IInv

(* The latest accepted generation is at least that of every record.         *)
LEMMA LatestGen ==
  ASSUME IInv, NEW g \in Gens, IsLatest(g), NEW q \in RuntimePhases
  PROVE  record[q].gen <= g
<1>1. record[q].gen \in Releases
  BY DEF IInv, TypeOK, Records
<1>2. CASE record[q].gen \in Gens
  BY <1>2 DEF IInv, Known, IsLatest
<1>3. CASE record[q].gen = 0
  BY <1>3, ReleaseFacts
<1> QED BY <1>1, <1>2, <1>3, BoundAssumption DEF Releases, Gens

(* The gates of a forward phase hold when it starts.                        *)
LEMMA StartForwardInv ==
  ASSUME NEW p \in RuntimePhases, NEW g \in Gens, NEW e \in 0..MaxRev, IInv,
         StartForward(p, g, e)
  PROVE  IInv'
<1> DEFINE T == PolicyTargets(p, g)
<1>a. T \in SUBSET Fleet /\ g \in Releases
  BY PolicyTargetsType, ReleaseFacts DEF IInv
<1>b. run' = [NoRun EXCEPT !.action = p, !.phase = p, !.gen = g, !.expect = e,
                           !.targets = T]
  BY DEF StartForward
<1>g. GateOpen(p, g) /\ IsLatest(g) /\ pc = "idle" /\ pc' = "preflight"
  BY DEF StartForward
<1>u. UNCHANGED <<accepted, record, selector, booted, job, links, cmds, jobs>>
  BY DEF StartForward
<1> HIDE DEF T
<1>c. /\ run'.action = p /\ run'.phase = p /\ run'.gen = g /\ run'.targets = T
      /\ run'.asked = "none" /\ p # Rollback
  BY <1>b DEF NoRun, RuntimePhases, Rollback
<1>1. TypeOK'
  <2>1. run' \in Runs
    BY <1>a, <1>b, NoRunType DEF Runs, NoRun
  <2>2. runs' \in 0..MaxRuns
    BY BoundAssumption DEF IInv, TypeOK, StartForward
  <2> QED BY <2>1, <2>2, <1>g, <1>u DEF IInv, TypeOK, Steps
<1>2. RunShape' /\ Verdict'
  BY <1>c, <1>g, <1>u DEF IInv, RunShape, Verdict, Succeeded
<1>3. Known' /\ Standing' /\ GateOrder'
  <2>1. Known'
    BY <1>c, <1>g, <1>u DEF IInv, Known, IsLatest
  <2>2. Standing'
    BY <1>c, <1>g, <1>u, LatestGen DEF Standing, Passed, GateOpen, Gate
  <2>3. GateOrder'
    BY <1>u DEF IInv, GateOrder, Passed
  <2> QED BY <2>1, <2>2, <2>3
<1>4. Served'
  BY <1>g DEF Served, Succeeded
<1>5. OwnJob'
  BY <1>g DEF OwnJob, Succeeded
<1> QED BY <1>1, <1>2, <1>3, <1>4, <1>5 DEF IInv

(* A rollback starts from a failed record with a way back.                  *)
LEMMA StartRollbackInv ==
  ASSUME NEW p \in RuntimePhases, NEW g \in Gens, IInv, StartRollback(p, g)
  PROVE  IInv'
<1>a. record[p] \in Records /\ g \in Releases
  BY ReleaseFacts DEF IInv, TypeOK
<1>b. run' = [NoRun EXCEPT !.action = Rollback, !.phase = p, !.gen = g,
                           !.targets = record[p].targets,
                           !.rollback = record[p].previous]
  BY DEF StartRollback
<1>g. RollbackSource(p, g) /\ IsLatest(g) /\ pc = "idle" /\ pc' = "preflight"
  BY DEF StartRollback
<1>u. UNCHANGED <<accepted, record, selector, booted, job, links, cmds, jobs>>
  BY DEF StartRollback
<1>c. /\ run'.action = Rollback /\ run'.phase = p /\ run'.gen = g
      /\ run'.targets = record[p].targets /\ run'.rollback = record[p].previous
      /\ run'.asked = "none"
  BY <1>b DEF NoRun
<1>1. TypeOK'
  <2>1. run' \in Runs
    BY <1>a, <1>b, NoRunType DEF Runs, NoRun, Records
  <2>2. runs' \in 0..MaxRuns
    BY BoundAssumption DEF IInv, TypeOK, StartRollback
  <2> QED BY <2>1, <2>2, <1>g, <1>u DEF IInv, TypeOK, Steps
<1>2. RunShape' /\ Verdict'
  BY <1>c, <1>g, <1>u DEF IInv, RunShape, Verdict, Succeeded, RollbackSource
<1>3. Known' /\ Standing' /\ GateOrder'
  <2>1. Known'
    BY <1>c, <1>g, <1>u DEF IInv, Known, IsLatest
  <2>2. Standing'
    BY <1>c, <1>g, <1>u, LatestGen
       DEF Standing, RollbackSource, RollbackCandidates, Gate, Rollback
  <2>3. GateOrder'
    BY <1>u DEF IInv, GateOrder, Passed
  <2> QED BY <2>1, <2>2, <2>3
<1>4. Served'
  BY <1>g DEF Served, Succeeded
<1>5. OwnJob'
  BY <1>g DEF OwnJob, Succeeded
<1> QED BY <1>1, <1>2, <1>3, <1>4, <1>5 DEF IInv

(* The record being stored is of the invocation's generation; it is a pass  *)
(* only for a forward phase.                                                *)
LEMMA StoredRecord ==
  ASSUME IInv, Persist
  PROVE  /\ record' = [record EXCEPT ![run.phase] = PhaseRecord(run)]
         /\ run.phase \in RuntimePhases
         /\ record'[run.phase] = PhaseRecord(run)
         /\ \A q \in RuntimePhases : q # run.phase => record'[q] = record[q]
         /\ PhaseRecord(run).gen = run.gen
         /\ PhaseRecord(run).targets = run.targets
         /\ PhaseRecord(run).applied = run.applied
         /\ PhaseRecord(run).acc \in {"pass", "rolled_back"} =>
              Succeeded /\ PhaseRecord(run).acc = run.asked
<1>1. record' = [record EXCEPT ![run.phase] = PhaseRecord(run)] /\ run.phase \in RuntimePhases
  BY DEF IInv, RunShape, Persist
<1>2. record \in [RuntimePhases -> Records]
  BY DEF IInv, TypeOK
<1>3. /\ PhaseRecord(run).gen = run.gen
      /\ PhaseRecord(run).targets = run.targets
      /\ PhaseRecord(run).applied = run.applied
      /\ PhaseRecord(run).acc \in {run.asked, "selector_failed", "reboot_failed"}
  BY DEF PhaseRecord
<1> HIDE DEF PhaseRecord
<1> QED BY <1>1, <1>2, <1>3 DEF Persist, Succeeded

(* After a pass for the generation in progress its gate is still passed.    *)
LEMMA PersistGateOrder ==
  ASSUME IInv, Persist
  PROVE  GateOrder'
<1> SUFFICES ASSUME NEW p \in DOMAIN Gate, record'[p].acc = "pass"
             PROVE  \/ record'[Gate[p]].gen = record'[p].gen /\ record'[Gate[p]].acc = "pass"
                    \/ record'[Gate[p]].gen > record'[p].gen
  BY DEF GateOrder, Passed
<1>1. /\ p \in RuntimePhases /\ Gate[p] \in RuntimePhases /\ Gate[p] # p
      /\ pc = "emit" /\ run.gen \in Gens /\ Gens \subseteq Nat
  BY ReleaseFacts DEF Gate, RuntimePhases, Persist, IInv, RunShape
<1>2. record[p].gen \in Nat /\ record[Gate[p]].gen \in Nat /\ run.gen \in Nat
  <2>1. record[p].gen \in Nat /\ record[Gate[p]].gen \in Nat
    BY <1>1, BoundAssumption DEF IInv, TypeOK, Records, Releases
  <2>2. run.gen \in Nat
    BY <1>1
  <2> QED BY <2>1, <2>2
<1>3. CASE run.phase = p
  <2>1. run.asked = "pass" /\ record'[p].gen = run.gen /\ record'[Gate[p]] = record[Gate[p]]
    BY <1>1, <1>3, StoredRecord
  <2>2. run.action = p
    BY <1>1, <1>3, <2>1 DEF IInv, Verdict, RunShape
  <2> QED BY <1>1, <2>1, <2>2 DEF IInv, Standing, Passed
<1>4. CASE run.phase = Gate[p]
  <2>1. record'[p] = record[p] /\ record'[Gate[p]].gen = run.gen
    BY <1>1, <1>4, StoredRecord
  <2>2. record[p].gen <= run.gen /\ record[Gate[p]].gen <= run.gen
    BY <1>1 DEF IInv, Standing
  <2>3. Passed(Gate[p], record[p].gen) \/ record[Gate[p]].gen > record[p].gen
    BY <2>1 DEF IInv, GateOrder
  <2>4. ~Passed(Gate[p], run.gen)
    BY <1>1, <1>4 DEF IInv, Standing, Passed
  <2>5. CASE record[Gate[p]].gen > record[p].gen
    <3>1. run.gen > record[p].gen
      BY <1>2, <2>2, <2>5
    <3> QED BY <2>1, <3>1
  <2>6. CASE Passed(Gate[p], record[p].gen)
    <3>1. record[p].gen # run.gen
      BY <2>4, <2>6
    <3>2. run.gen > record[p].gen
      BY <1>2, <2>2, <3>1
    <3> QED BY <2>1, <3>2
  <2> QED BY <2>3, <2>5, <2>6
<1>5. CASE run.phase # p /\ run.phase # Gate[p]
  <2>1. record'[p] = record[p] /\ record'[Gate[p]] = record[Gate[p]]
    BY <1>1, <1>5, StoredRecord
  <2> QED BY <2>1 DEF IInv, GateOrder, Passed
<1> QED BY <1>3, <1>4, <1>5

(* The record that is stored is the verdict of the run that ends.           *)
LEMMA PersistInv ==
  ASSUME IInv, Persist
  PROVE  IInv'
<1>1. TypeOK'
  <2>1. PhaseRecord(run) \in Records
    BY PhaseRecordType DEF IInv, TypeOK
  <2>2. record' \in [RuntimePhases -> Records]
    BY <2>1, StoredRecord DEF IInv, TypeOK
  <2> QED BY <2>2, NoRunType DEF IInv, TypeOK, Persist, Done, Steps
<1>2. RunShape' /\ Verdict'
  BY DEF IInv, Persist, Done, RunShape, Verdict, Succeeded, NoRun
<1>3. Known' /\ Standing' /\ GateOrder'
  <2>1. pc' = "idle" /\ accepted' = accepted /\ pc = "emit"
    BY DEF Persist, Done
  <2>2. Known'
    BY <2>1, StoredRecord DEF IInv, Known
  <2>3. Standing'
    BY <2>1 DEF Standing
  <2> QED BY <2>2, <2>3, PersistGateOrder
<1>4. Served'
  BY DEF IInv, Persist, Done, Served, Succeeded, ChangeRequired, NoRun
<1>5. OwnJob'
  BY DEF IInv, Persist, Done, OwnJob, Succeeded, NoRun
<1> QED BY <1>1, <1>2, <1>3, <1>4, <1>5 DEF IInv

(* An apply that fails part-way keeps what the run knows.                   *)
LEMMA ApplyFailsInv ==
  ASSUME IInv, ApplyFails
  PROVE  IInv'
<1>1. TypeOK'
  BY DEF IInv, ApplyFails, Fail, TypeOK, Steps, Runs
<1>2. RunShape' /\ Verdict'
  BY DEF IInv, ApplyFails, Fail, RunShape, Verdict, Succeeded
<1>3. Known' /\ Standing' /\ GateOrder'
  BY DEF IInv, ApplyFails, Fail, Known, Standing, Passed, GateOrder
<1>4. Served'
  BY DEF IInv, ApplyFails, Fail, Served, Succeeded, ChangeRequired
<1>5. OwnJob'
  BY DEF IInv, ApplyFails, Fail, OwnJob, Succeeded
<1> QED BY <1>1, <1>2, <1>3, <1>4, <1>5 DEF IInv

(* After the post-checks every target is served as planned.                 *)
LEMMA PostcheckInv ==
  ASSUME IInv, Postcheck
  PROVE  IInv'
<1>1. TypeOK'
  BY DEF IInv, Postcheck, Goto, Fail, TypeOK, Steps, Runs
<1>2. RunShape' /\ Verdict'
  BY ReleaseFacts, BoundAssumption, FleetAssumption
     DEF IInv, Postcheck, Goto, Fail, RunShape, Verdict, Succeeded, TypeOK,
         Runs, Steps, Gate, Rollback
<1>3. Known' /\ Standing' /\ GateOrder'
  BY ReleaseFacts, BoundAssumption, FleetAssumption
     DEF IInv, Postcheck, Goto, Fail, Known, Standing, Passed, GateOrder,
         TypeOK, RunShape, Verdict, Succeeded, Runs, Steps, Gate, Rollback
<1>4. Served'
  BY ReleaseFacts, BoundAssumption, FleetAssumption
     DEF IInv, Postcheck, Goto, Fail, Served, Succeeded, ChangeRequired,
         TypeOK, RunShape, Verdict, Runs, Steps, Gate, Rollback
<1>5. OwnJob'
  BY ReleaseFacts, BoundAssumption, FleetAssumption
     DEF IInv, Postcheck, Goto, Fail, OwnJob, Succeeded, TypeOK, RunShape,
         Verdict, Runs, Steps, Gate, Rollback
<1> QED BY <1>1, <1>2, <1>3, <1>4, <1>5 DEF IInv

(* The boot job that is waited for cycles the whole fleet.                  *)
LEMMA StartBootInv ==
  ASSUME IInv, StartBoot
  PROVE  IInv'
<1>1. TypeOK'
  BY DEF IInv, StartBoot, TypeOK, Steps, Runs
<1>2. RunShape' /\ Verdict'
  BY DEF IInv, StartBoot, RunShape, Verdict, Succeeded
<1>3. Known' /\ Standing' /\ GateOrder'
  BY DEF IInv, StartBoot, Known, Standing, Passed, GateOrder
<1>4. Served'
  BY DEF IInv, StartBoot, Served, Succeeded, ChangeRequired
<1>5. OwnJob'
  BY DEF IInv, StartBoot, OwnJob, Succeeded
<1> QED BY <1>1, <1>2, <1>3, <1>4, <1>5 DEF IInv

(* A refused boot ends the run without a record.                            *)
LEMMA BootRefusedInv ==
  ASSUME IInv, BootRefused
  PROVE  IInv'
<1>1. TypeOK'
  BY NoRunType
     DEF IInv, BootRefused, Done, TypeOK, Steps, Runs
<1>2. RunShape' /\ Verdict'
  BY DEF IInv, BootRefused, Done, RunShape, Verdict, Succeeded, NoRun
<1>3. Known' /\ Standing' /\ GateOrder'
  BY DEF IInv, BootRefused, Done, Known, Standing, Passed, GateOrder, NoRun
<1>4. Served'
  BY DEF IInv, BootRefused, Done, Served, Succeeded, ChangeRequired, NoRun
<1>5. OwnJob'
  BY DEF IInv, BootRefused, Done, OwnJob, Succeeded, NoRun
<1> QED BY <1>1, <1>2, <1>3, <1>4, <1>5 DEF IInv

(* A passed boot leaves the verdict to the acceptance.                      *)
LEMMA BootPassedInv ==
  ASSUME IInv, BootPassed
  PROVE  IInv'
<1>1. TypeOK'
  BY DEF IInv, BootPassed, TypeOK, Steps, Runs
<1>2. RunShape' /\ Verdict'
  BY DEF IInv, BootPassed, RunShape, Verdict, Succeeded
<1>3. Known' /\ Standing' /\ GateOrder'
  BY DEF IInv, BootPassed, Known, Standing, Passed, GateOrder
<1>4. Served'
  BY DEF IInv, BootPassed, Served, Succeeded, ChangeRequired
<1>5. OwnJob'
  BY DEF IInv, BootPassed, OwnJob, Succeeded, TypeOK
<1> QED BY <1>1, <1>2, <1>3, <1>4, <1>5 DEF IInv

(* A boot that fails or overruns turns the verdict to failed.               *)
LEMMA BootNotPassedInv ==
  ASSUME IInv, BootNotPassed
  PROVE  IInv'
<1>1. TypeOK'
  BY DEF IInv, BootNotPassed, TypeOK, Steps, Runs
<1>2. RunShape' /\ Verdict'
  BY DEF IInv, BootNotPassed, RunShape, Verdict, Succeeded
<1>3. Known' /\ Standing' /\ GateOrder'
  BY DEF IInv, BootNotPassed, Known, Standing, Passed, GateOrder
<1>4. Served'
  BY DEF IInv, BootNotPassed, Served, Succeeded, ChangeRequired
<1>5. OwnJob'
  BY DEF IInv, BootNotPassed, OwnJob, Succeeded
<1> QED BY <1>1, <1>2, <1>3, <1>4, <1>5 DEF IInv

(* The acceptance turns the verdict to success.                             *)
LEMMA PhaseAcceptedInv ==
  ASSUME IInv, PhaseAccepted
  PROVE  IInv'
<1>1. TypeOK'
  BY DEF IInv, PhaseAccepted, TypeOK, Steps, Runs
<1>2. RunShape' /\ Verdict'
  BY DEF IInv, PhaseAccepted, RunShape, Verdict, Succeeded
<1>3. Known' /\ Standing' /\ GateOrder'
  BY DEF IInv, PhaseAccepted, Known, Standing, Passed, GateOrder
<1>4. Served'
  BY DEF IInv, PhaseAccepted, Served, Succeeded, ChangeRequired
<1>5. OwnJob'
  BY DEF IInv, PhaseAccepted, OwnJob, Succeeded
<1> QED BY <1>1, <1>2, <1>3, <1>4, <1>5 DEF IInv

(* A rejected phase is recorded as failed.                                  *)
LEMMA PhaseRejectedInv ==
  ASSUME IInv, PhaseRejected
  PROVE  IInv'
<1>1. TypeOK'
  BY DEF IInv, PhaseRejected, Fail, TypeOK, Steps, Runs
<1>2. RunShape' /\ Verdict'
  BY DEF IInv, PhaseRejected, Fail, RunShape, Verdict, Succeeded
<1>3. Known' /\ Standing' /\ GateOrder'
  BY DEF IInv, PhaseRejected, Fail, Known, Standing, Passed, GateOrder
<1>4. Served'
  BY DEF IInv, PhaseRejected, Fail, Served, Succeeded, ChangeRequired
<1>5. OwnJob'
  BY DEF IInv, PhaseRejected, Fail, OwnJob, Succeeded
<1> QED BY <1>1, <1>2, <1>3, <1>4, <1>5 DEF IInv

(* A script that dies leaves records and selectors as they are.             *)
LEMMA AbortInv ==
  ASSUME IInv, Abort
  PROVE  IInv'
<1>1. TypeOK'
  BY NoRunType
     DEF IInv, Abort, Done, TypeOK, Steps, Runs
<1>2. RunShape' /\ Verdict'
  BY DEF IInv, Abort, Done, RunShape, Verdict, Succeeded, NoRun
<1>3. Known' /\ Standing' /\ GateOrder'
  BY DEF IInv, Abort, Done, Known, Standing, Passed, GateOrder, NoRun
<1>4. Served'
  BY DEF IInv, Abort, Done, Served, Succeeded, ChangeRequired, NoRun
<1>5. OwnJob'
  BY DEF IInv, Abort, Done, OwnJob, Succeeded, NoRun
<1> QED BY <1>1, <1>2, <1>3, <1>4, <1>5 DEF IInv

(* A newly accepted generation makes no stored record newer.                *)
LEMMA AcceptGenerationInv ==
  ASSUME NEW g \in Gens, IInv, AcceptGeneration(g)
  PROVE  IInv'
<1>1. TypeOK'
  BY ReleaseFacts, BoundAssumption, FleetAssumption
     DEF IInv, AcceptGeneration, TypeOK, Steps, Runs, RunShape, Verdict,
         Succeeded, Gate, Rollback
<1>2. RunShape' /\ Verdict'
  BY DEF IInv, AcceptGeneration, RunShape, Verdict, Succeeded
<1>3. Known' /\ Standing' /\ GateOrder'
  BY DEF IInv, AcceptGeneration, Known, Standing, Passed, GateOrder, TypeOK
<1>4. Served'
  BY DEF IInv, AcceptGeneration, Served, Succeeded, ChangeRequired
<1>5. OwnJob'
  BY DEF IInv, AcceptGeneration, OwnJob, Succeeded
<1> QED BY <1>1, <1>2, <1>3, <1>4, <1>5 DEF IInv

(* Somebody else's boot job changes neither run nor records.                *)
LEMMA ForeignBootInv ==
  ASSUME IInv, ForeignBoot
  PROVE  IInv'
<1>1. TypeOK'
  BY ReleaseFacts, BoundAssumption, FleetAssumption
     DEF IInv, ForeignBoot, TypeOK, Steps, Runs, RunShape, Verdict, Succeeded,
         Gate, Rollback
<1>2. RunShape' /\ Verdict'
  BY DEF IInv, ForeignBoot, RunShape, Verdict, Succeeded
<1>3. Known' /\ Standing' /\ GateOrder'
  BY DEF IInv, ForeignBoot, Known, Standing, Passed, GateOrder
<1>4. Served'
  BY DEF IInv, ForeignBoot, Served, Succeeded, ChangeRequired
<1>5. OwnJob'
  BY DEF IInv, ForeignBoot, OwnJob, Succeeded, TypeOK
<1> QED BY <1>1, <1>2, <1>3, <1>4, <1>5 DEF IInv

(* A node boots what its selectors serve.                                   *)
LEMMA BootNodeInv ==
  ASSUME NEW h \in Fleet, IInv, BootNode(h)
  PROVE  IInv'
<1>1. TypeOK'
  BY DEF IInv, BootNode, TypeOK, Steps, Runs
<1>2. RunShape' /\ Verdict'
  BY DEF IInv, BootNode, RunShape, Verdict, Succeeded
<1>3. Known' /\ Standing' /\ GateOrder'
  BY DEF IInv, BootNode, Known, Standing, Passed, GateOrder
<1>4. Served'
  BY DEF IInv, BootNode, Served, Succeeded, ChangeRequired
<1>5. OwnJob'
  BY DEF IInv, BootNode, OwnJob, Succeeded, TypeOK
<1> QED BY <1>1, <1>2, <1>3, <1>4, <1>5 DEF IInv

(* The end of a boot job changes neither run nor records.                   *)
LEMMA JobEndsInv ==
  ASSUME IInv, JobEnds
  PROVE  IInv'
<1>1. TypeOK'
  BY DEF IInv, JobEnds, TypeOK, Steps, Runs
<1>2. RunShape' /\ Verdict'
  BY DEF IInv, JobEnds, RunShape, Verdict, Succeeded
<1>3. Known' /\ Standing' /\ GateOrder'
  BY DEF IInv, JobEnds, Known, Standing, Passed, GateOrder
<1>4. Served'
  BY DEF IInv, JobEnds, Served, Succeeded, ChangeRequired
<1>5. OwnJob'
  BY DEF IInv, JobEnds, OwnJob, Succeeded
<1> QED BY <1>1, <1>2, <1>3, <1>4, <1>5 DEF IInv

(* IInv is inductive.                                                       *)
LEMMA NextInv == IInv /\ [Next]_vars => IInv'
<1> SUFFICES ASSUME IInv, [Next]_vars PROVE IInv'
  OBVIOUS
<1>1. CASE Script
  BY <1>1, PreflightInv, PreflightRefusedInv, PlanFailsInv, PlanInv, RecheckInv,
     MoveLinksInv, WriteCmdlineInv, ApplyFailsInv, PostcheckInv, StartBootInv,
     BootRefusedInv, BootPassedInv, BootNotPassedInv, PhaseAcceptedInv,
     PhaseRejectedInv, PersistInv DEF Script
<1>2. CASE UNCHANGED vars
  BY <1>2 DEF vars, IInv, TypeOK, RunShape, Verdict, Known, Standing, GateOrder,
     Served, OwnJob, Succeeded, Passed, ChangeRequired
<1>3. ASSUME NEW g \in Gens, NEW p \in RuntimePhases, NEW e \in 0..MaxRev,
             StartForward(p, g, e) \/ StartRollback(p, g)
      PROVE  IInv'
  BY <1>3, StartForwardInv, StartRollbackInv
<1>4. ASSUME NEW g \in Gens, NEW p \in RuntimePhases, StartRollback(p, g)
      PROVE  IInv'
  BY <1>4, StartRollbackInv
<1> QED BY <1>1, <1>2, <1>3, <1>4, AbortInv, AcceptGenerationInv, ForeignBootInv,
           BootNodeInv, JobEndsInv DEF Next

(* The invariant holds in every behaviour.                                  *)
LEMMA Invariance == Spec => []IInv
BY InitInv, NextInv, PTL DEF Spec

-----------------------------------------------------------------------------
(* The theorems.                                                            *)

(* Every variable keeps its type: no plan, record or selector mentions a    *)
(* host outside the fleet or a release that does not exist.                 *)
THEOREM TypeCorrect == Spec => []TypeOK
<1>1. IInv => TypeOK
  BY DEF IInv
<1> QED BY <1>1, Invariance, PTL

(* A phase behind a gate has passed only after its gate.                    *)
THEOREM GatesHold == Spec => []GateOrder
<1>1. IInv => GateOrder
  BY DEF IInv
<1> QED BY <1>1, Invariance, PTL

(* Only Persist writes phase records.                                       *)
LEMMA RecordStep ==
  ASSUME [Next]_vars, NEW p \in RuntimePhases, record'[p] # record[p]
  PROVE  Persist
<1>1. record' # record
  OBVIOUS
<1> QED BY <1>1 DEF Next, Script, vars, StartForward, StartRollback, Preflight,
     PreflightRefused, PlanFails, Plan, Recheck, MoveLinks, WriteCmdline,
     ApplyFails, Postcheck, StartBoot, BootRefused, BootPassed, BootNotPassed,
     PhaseAccepted, PhaseRejected, Abort, AcceptGeneration, ForeignBoot,
     BootNode, JobEnds

(* A stored pass is only replaced by a newer generation's record.           *)
THEOREM PassesAreFinal == Spec => PassIsFinal
<1>1. ASSUME IInv, [Next]_vars, NEW p \in RuntimePhases, record'[p] # record[p]
      PROVE  /\ record'[p].gen >= record[p].gen
             /\ record[p].acc = "pass" => record'[p].gen > record[p].gen
  <2>1. Persist
    BY <1>1, RecordStep
  <2>2. p = run.phase /\ record'[p].gen = run.gen
    BY <1>1, <2>1, StoredRecord
  <2>3. pc = "emit" /\ run.gen \in Nat /\ record[p].gen \in Nat
    BY <1>1, <2>1, BoundAssumption DEF Persist, IInv, TypeOK, Runs, Records, Releases
  <2>4. record[p].gen <= run.gen
    BY <1>1, <2>3 DEF IInv, Standing
  <2>5. ~Passed(p, run.gen)
    BY <1>1, <2>2, <2>3 DEF IInv, Standing, Passed
  <2> QED BY <2>2, <2>3, <2>4, <2>5 DEF Passed
<1>2. IInv /\ [Next]_vars =>
        [\A p \in RuntimePhases :
           record'[p] # record[p] =>
             /\ record'[p].gen >= record[p].gen
             /\ record[p].acc = "pass" => record'[p].gen > record[p].gen]_vars
  BY <1>1
<1> QED BY <1>2, Invariance, PTL DEF Spec, PassIsFinal

(* An accepted rollback serves every target what it had before the failure. *)
THEOREM RollbacksRestore == Spec => RollbackRestores
<1>1. ASSUME IInv, [Next]_vars, NEW p \in RuntimePhases, record'[p] # record[p],
             record'[p].acc = "rolled_back", NEW h \in record[p].targets
      PROVE  selector[h] = record[p].previous[h]
  <2>1. Persist
    BY <1>1, RecordStep
  <2>2. p = run.phase /\ Succeeded /\ run.asked = "rolled_back"
    BY <1>1, <2>1, StoredRecord
  <2>3. run.action = Rollback
    BY <1>1, <2>2 DEF IInv, Verdict, Succeeded
  <2>4. record[p].targets = run.targets /\ record[p].previous = run.rollback
    BY <1>1, <2>2, <2>3 DEF IInv, Standing, Succeeded
  <2> QED BY <1>1, <2>2, <2>3, <2>4 DEF IInv, Served
<1>2. IInv /\ [Next]_vars =>
        [\A p \in RuntimePhases :
           record'[p] # record[p] /\ record'[p].acc = "rolled_back" =>
             \A h \in record[p].targets : selector[h] = record[p].previous[h]]_vars
  BY <1>1
<1> QED BY <1>2, Invariance, PTL DEF Spec, RollbackRestores

(* Without foreign jobs, an invocation whose status helper answered records *)
(* success only for hosts booted as its record says.                        *)
THEOREM BootsAreOwn == Spec => BootedAsRecorded
<1>1. ASSUME IInv, [Next]_vars, jobs = 0, run.told # "unknown",
             NEW p \in RuntimePhases, StaleVerdict(p)
      PROVE  FALSE
  <2>1. Persist
    BY <1>1, RecordStep DEF StaleVerdict
  <2>2. p = run.phase /\ Succeeded
    BY <1>1, <2>1, StoredRecord DEF StaleVerdict
  <2>3. PICK h \in run.targets : booted[h] # run.applied[h]
    BY <1>1, <2>1, <2>2, StoredRecord DEF StaleVerdict
  <2>4. booted[h] = selector[h]
    BY <1>1, <2>2 DEF IInv, OwnJob
  <2>5. selector[h] = run.applied[h]
    BY <1>1, <2>2 DEF IInv, Served
  <2> QED BY <2>3, <2>4, <2>5
<1>2. IInv /\ [Next]_vars =>
        [jobs = 0 /\ run.told # "unknown" => \A p \in RuntimePhases : ~StaleVerdict(p)]_vars
  BY <1>1
<1> QED BY <1>2, Invariance, PTL DEF Spec, BootedAsRecorded

-----------------------------------------------------------------------------
(* A pass speaks of more hosts than the invocation moved: run_phase_        *)
(* acceptance asks every agent after a fleet phase.  Three more facts carry *)
(* what it asks to the step that stores the record, and past the power      *)
(* cycles in between.                                                       *)

(* A forward phase applies the pair of its generation.                      *)
Planned ==
  run.action # Rollback
    /\ (pc \in {"recheck", "apply", "boot", "wait", "accept"} \/ Succeeded) =>
      \A h \in run.targets : run.applied[h] = Pair(run.gen)

(* A host that the invocation does not move runs what it is served once a   *)
(* job has cycled it, since nothing else moves its selectors meanwhile; a   *)
(* job that ran before the preflight may have cycled it before that.        *)
Bystanders ==
  run.told # "unknown" =>
    /\ pc \in {"plan", "recheck", "apply", "boot", "wait"} /\ job.status = "in_progress" =>
         \A h \in Fleet \ (run.targets \cup job.left) : booted[h] = selector[h]
    /\ pc = "wait" /\ job.status = "pass" =>
         \A h \in Fleet \ run.targets : booted[h] = selector[h]
    /\ pc = "accept" => \A h \in Fleet \ run.targets : booted[h] = selector[h]

(* A host that passed runs the generation's kernel and is served it again.  *)
KernelServed ==
  pc = "emit" /\ run.asked = "pass" =>
    \A h \in AcceptanceTargets(run) :
      h \in run.targets \/ run.told # "unknown" =>
        /\ Kernel[booted[h].tftp] = Kernel[run.gen]
        /\ Kernel[selector[h].tftp] = Kernel[run.gen]

KInv == IInv /\ Planned /\ Bystanders /\ KernelServed

(* Before the first invocation there is nothing to say.                     *)
LEMMA InitKInv == Init => KInv
BY InitInv DEF KInv, Init, Planned, Bystanders, KernelServed, Succeeded

(* The steps before the mutation.                                           *)
LEMMA KernelBefore ==
  ASSUME KInv, Preflight \/ PreflightRefused \/ PlanFails \/ Plan \/ Recheck
  PROVE  (Planned /\ Bystanders /\ KernelServed)'
<1>1. CASE Preflight
  <2> PICK answer \in StatusAnswers \ {"active"} : run' = [run EXCEPT !.told = answer]
    BY <1>1 DEF Preflight
  <2>1. /\ pc' = "plan" /\ run'.told = answer /\ job' = job
    BY <1>1 DEF Preflight, KInv, IInv, TypeOK, Runs
  <2>2. answer = "unknown" \/ job.status # "in_progress"
    BY DEF StatusAnswers
  <2> QED BY <2>1, <2>2 DEF Planned, Bystanders, KernelServed, Succeeded
<1>2. CASE PreflightRefused
  BY <1>2 DEF PreflightRefused, Done, NoRun, Planned, Bystanders, KernelServed, Succeeded
<1>3. CASE PlanFails
  <2>1. run \in Runs
    BY DEF KInv, IInv, TypeOK
  <2>2. run'.asked = "fail" /\ pc' = "emit"
    BY <1>3, <2>1 DEF PlanFails, Fail, Runs
  <2> QED BY <2>2 DEF Planned, Bystanders, KernelServed, Succeeded
<1>4. CASE Plan
  <2>1. run \in Runs
    BY DEF KInv, IInv, TypeOK
  <2>2. /\ pc' = "recheck" /\ run'.action = run.action /\ run'.gen = run.gen
        /\ run'.targets = run.targets /\ run'.told = run.told
        /\ run'.applied = [h \in run.targets |->
                             IF run.action = Rollback THEN run.rollback[h]
                                                      ELSE Pair(run.gen)]
    BY <1>4, <2>1 DEF Plan, Runs
  <2>3. Planned'
    BY <2>2 DEF Planned
  <2>4. Bystanders'
    BY <1>4, <2>2 DEF KInv, Bystanders, Plan
  <2> QED BY <2>2, <2>3, <2>4 DEF KernelServed
<1>5. CASE Recheck
  <2>1. run \in Runs
    BY DEF KInv, IInv, TypeOK
  <2>2. CASE Fail
    <3>1. run'.asked = "fail" /\ pc' = "emit"
      BY <2>1, <2>2 DEF Fail, Runs
    <3> QED BY <3>1 DEF Planned, Bystanders, KernelServed, Succeeded
  <2>3. CASE Goto("apply")
    BY <1>5, <2>3 DEF KInv, Recheck, Goto, Planned, Bystanders, KernelServed, Succeeded
  <2> QED BY <1>5, <2>2, <2>3 DEF Recheck
<1> QED BY <1>1, <1>2, <1>3, <1>4, <1>5

(* The loops move targets only.                                             *)
LEMMA KernelApply ==
  ASSUME KInv, NEW h \in Fleet, MoveLinks(h) \/ WriteCmdline(h)
  PROVE  (Planned /\ Bystanders /\ KernelServed)'
<1>1. h \in run.targets
  BY DEF KInv, IInv, RunShape, MoveLinks, WriteCmdline, IsNext
<1>2. pc = "apply" /\ UNCHANGED <<booted, job, pc, run>>
  BY DEF MoveLinks, WriteCmdline
<1>3. \A k \in Fleet \ {h} : selector'[k] = selector[k]
  BY DEF KInv, IInv, TypeOK, MoveLinks, WriteCmdline
<1>4. Planned'
  BY <1>2 DEF KInv, Planned, Succeeded
<1>5. Bystanders'
  BY <1>1, <1>2, <1>3 DEF KInv, Bystanders
<1> QED BY <1>2, <1>4, <1>5 DEF KernelServed

(* The steps from the end of the loops to the wait's.                       *)
LEMMA KernelBoot ==
  ASSUME KInv, ApplyFails \/ Postcheck \/ StartBoot \/ BootRefused \/ BootPassed
               \/ BootNotPassed
  PROVE  (Planned /\ Bystanders /\ KernelServed)'
<1>1. run \in Runs
  BY DEF KInv, IInv, TypeOK
<1>2. CASE Fail \/ BootNotPassed
  <2>1. run'.asked = "fail" /\ pc' = "emit"
    BY <1>1, <1>2 DEF Fail, BootNotPassed, Runs
  <2> QED BY <2>1 DEF Planned, Bystanders, KernelServed, Succeeded
<1>3. CASE Postcheck /\ Goto("boot")
  BY <1>3 DEF KInv, Postcheck, Goto, Planned, Bystanders, KernelServed, Succeeded
<1>4. CASE StartBoot
  <2>1. /\ pc = "boot" /\ pc' = "wait" /\ UNCHANGED <<selector, booted>>
        /\ run'.action = run.action /\ run'.gen = run.gen
        /\ run'.targets = run.targets /\ run'.applied = run.applied
        /\ run'.told = run.told
    BY <1>1, <1>4 DEF StartBoot, Runs
  <2>2. Planned'
    BY <2>1 DEF KInv, Planned
  <2>3. job' = job \/ (job'.status = "in_progress" /\ job'.left = Fleet)
    BY <1>4 DEF StartBoot
  <2>4. job'.status = "in_progress"
    BY <1>4 DEF StartBoot
  <2>5. Bystanders'
    BY <2>1, <2>3, <2>4 DEF KInv, Bystanders
  <2> QED BY <2>1, <2>2, <2>5 DEF KernelServed
<1>5. CASE BootRefused
  BY <1>5 DEF BootRefused, Done, NoRun, Planned, Bystanders, KernelServed, Succeeded
<1>6. CASE BootPassed
  <2>1. /\ pc = "wait" /\ pc' = "accept" /\ job.status = "pass"
        /\ UNCHANGED <<selector, booted, job>>
        /\ run'.action = run.action /\ run'.gen = run.gen
        /\ run'.targets = run.targets /\ run'.applied = run.applied
        /\ run'.told = run.told
    BY <1>1, <1>6 DEF BootPassed, Runs
  <2> QED BY <2>1 DEF KInv, Planned, Bystanders, KernelServed, Succeeded
<1> QED BY <1>2, <1>3, <1>4, <1>5, <1>6 DEF ApplyFails, Postcheck

(* The acceptance asks the hosts that a pass speaks for, and both kinds are *)
(* served what they run.                                                    *)
LEMMA KernelAccepted ==
  ASSUME KInv, PhaseAccepted
  PROVE  (Planned /\ Bystanders /\ KernelServed)'
<1>1. run \in Runs /\ run.targets \in SUBSET Fleet
  BY DEF KInv, IInv, TypeOK, Runs
<1>2. /\ pc = "accept" /\ pc' = "emit" /\ UNCHANGED <<selector, booted>>
      /\ run'.action = run.action /\ run'.gen = run.gen
      /\ run'.targets = run.targets /\ run'.applied = run.applied
      /\ run'.told = run.told
      /\ run'.asked = IF run.action = Rollback THEN "rolled_back" ELSE "pass"
  BY <1>1 DEF PhaseAccepted, Runs
<1>3. Planned'
  BY <1>2 DEF KInv, Planned
<1>4. Bystanders'
  BY <1>2 DEF Bystanders
<1>5. ASSUME run'.asked = "pass", NEW h \in AcceptanceTargets(run)
      PROVE  h \in run.targets \/ run.told # "unknown" =>
               /\ Kernel[booted[h].tftp] = Kernel[run.gen]
               /\ Kernel[selector[h].tftp] = Kernel[run.gen]
  <2>1. run.action # Rollback
    BY <1>2, <1>5
  <2>2. Kernel[booted[h].tftp] = Kernel[run.gen]
    BY <1>5, <2>1 DEF PhaseAccepted, RuntimeAccepted
  <2>3. h \in Fleet
    BY <1>1, <1>5 DEF AcceptanceTargets, Fleet
  <2>4. CASE h \in run.targets
    <3>1. selector[h] = run.applied[h]
      BY <1>2, <2>4 DEF KInv, IInv, Served
    <3>2. run.applied[h] = Pair(run.gen)
      BY <1>2, <2>1, <2>4 DEF KInv, Planned
    <3> QED BY <2>2, <3>1, <3>2 DEF Pair
  <2>5. CASE h \notin run.targets /\ run.told # "unknown"
    <3>1. booted[h] = selector[h]
      BY <1>2, <2>3, <2>5 DEF KInv, Bystanders
    <3> QED BY <2>2, <3>1
  <2> QED BY <2>4, <2>5
<1>6. AcceptanceTargets(run') = AcceptanceTargets(run)
  BY <1>2 DEF AcceptanceTargets
<1>7. KernelServed'
  BY <1>2, <1>5, <1>6 DEF KernelServed
<1> QED BY <1>3, <1>4, <1>7

(* The other ends of an invocation, and its start.                          *)
LEMMA KernelEnds ==
  ASSUME KInv,
         \/ PhaseRejected \/ Persist \/ Abort
         \/ \E g \in Gens, p \in RuntimePhases :
              (\E e \in 0..MaxRev : StartForward(p, g, e)) \/ StartRollback(p, g)
  PROVE  (Planned /\ Bystanders /\ KernelServed)'
<1>1. run \in Runs
  BY DEF KInv, IInv, TypeOK
<1>2. CASE PhaseRejected
  <2>1. run'.asked = "fail" /\ pc' = "emit"
    BY <1>1, <1>2 DEF PhaseRejected, Fail, Runs
  <2> QED BY <2>1 DEF Planned, Bystanders, KernelServed, Succeeded
<1>3. CASE pc' \in {"idle", "preflight"}
  BY <1>3 DEF Planned, Bystanders, KernelServed, Succeeded
<1>4. Persist \/ Abort => pc' = "idle"
  BY DEF Persist, Abort, Done
<1>5. ASSUME NEW g \in Gens, NEW p \in RuntimePhases, NEW e \in 0..MaxRev,
             StartForward(p, g, e) \/ StartRollback(p, g)
      PROVE  pc' = "preflight"
  BY <1>5 DEF StartForward, StartRollback
<1>6. ASSUME NEW g \in Gens, NEW p \in RuntimePhases, StartRollback(p, g)
      PROVE  pc' = "preflight"
  BY <1>6 DEF StartRollback
<1> QED BY <1>2, <1>3, <1>4, <1>5, <1>6

(* What goes on around the script: a power cycle makes a host run what it   *)
(* is served, and a job that passed has cycled every host.                  *)
LEMMA KernelAround ==
  ASSUME KInv,
         \/ ForeignBoot \/ JobEnds \/ \E h \in Fleet : BootNode(h)
         \/ \E g \in Gens : AcceptGeneration(g)
  PROVE  (Planned /\ Bystanders /\ KernelServed)'
<1>1. UNCHANGED <<selector, pc, run>>
  BY DEF ForeignBoot, JobEnds, BootNode, AcceptGeneration
<1>2. Planned'
  BY <1>1 DEF KInv, Planned, Succeeded
<1>3. CASE ForeignBoot
  <2>1. booted' = booted /\ job'.status = "in_progress" /\ job'.left = Fleet
    BY <1>3 DEF ForeignBoot
  <2> QED BY <1>1, <1>2, <2>1 DEF KInv, Bystanders, KernelServed
<1>4. CASE JobEnds
  <2>1. booted' = booted /\ job.status = "in_progress" /\ job \in [status : {"none", "in_progress", "pass", "fail"}, left : SUBSET Fleet]
    BY <1>4 DEF JobEnds, KInv, IInv, TypeOK
  <2>2. job'.status = "fail" \/ (job'.status = "pass" /\ job.left = {})
    BY <1>4, <2>1 DEF JobEnds
  <2>3. Bystanders'
    BY <1>1, <2>1, <2>2 DEF KInv, Bystanders
  <2> QED BY <1>1, <1>2, <2>1, <2>3 DEF KInv, KernelServed
<1>5. ASSUME NEW h \in Fleet, BootNode(h)
      PROVE  Bystanders' /\ KernelServed'
  <2>1. /\ job.status = "in_progress" /\ job'.status = "in_progress"
        /\ job'.left = job.left \ {h}
        /\ booted'[h] = selector[h]
        /\ \A k \in Fleet \ {h} : booted'[k] = booted[k]
    BY <1>5 DEF KInv, IInv, TypeOK, BootNode
  <2>2. Bystanders'
    BY <1>1, <2>1 DEF KInv, Bystanders
  <2>3. AcceptanceTargets(run) \subseteq Fleet
    BY DEF KInv, IInv, TypeOK, Runs, AcceptanceTargets, Fleet
  <2>4. KernelServed'
    BY <1>1, <2>1, <2>3 DEF KInv, KernelServed
  <2> QED BY <2>2, <2>4
<1>6. ASSUME NEW g \in Gens, AcceptGeneration(g)
      PROVE  Bystanders' /\ KernelServed'
  BY <1>1, <1>6 DEF KInv, Bystanders, KernelServed, AcceptGeneration
<1> QED BY <1>2, <1>3, <1>4, <1>5, <1>6

(* KInv is inductive.                                                       *)
LEMMA NextKInv == KInv /\ [Next]_vars => KInv'
<1> SUFFICES ASSUME KInv, [Next]_vars PROVE KInv'
  OBVIOUS
<1>1. IInv'
  BY NextInv DEF KInv
<1>2. (Planned /\ Bystanders /\ KernelServed)'
  <2>1. CASE Script
    BY <2>1, KernelBefore, KernelApply, KernelBoot, KernelAccepted, KernelEnds DEF Script
  <2>2. CASE UNCHANGED vars
    BY <2>2 DEF vars, KInv, Planned, Bystanders, KernelServed, Succeeded
  <2> QED BY <2>1, <2>2, KernelEnds, KernelAround DEF Next
<1> QED BY <1>1, <1>2 DEF KInv

(* A stored pass means that the hosts it speaks for run the generation's    *)
(* kernel: the ones the invocation moved, and every other agent after a     *)
(* fleet phase when the preflight's status helper answered, also when it    *)
(* adopted somebody else's fresh-boot job and when hosts are power-cycled   *)
(* between the acceptance and the record.                                   *)
THEOREM PassesRunKernel == Spec => PassRunsKernel
<1>1. ASSUME KInv, [Next]_vars, NEW p \in RuntimePhases, record'[p] # record[p],
             record'[p].acc = "pass", NEW h \in AcceptanceTargets(run),
             h \in run.targets \/ run.told # "unknown"
      PROVE  Kernel[booted[h].tftp] = Kernel[record'[p].gen]
  <2>1. Persist /\ IInv
    BY <1>1, RecordStep DEF KInv
  <2>2. p = run.phase /\ pc = "emit" /\ run.asked = "pass" /\ record'[p].gen = run.gen
    BY <1>1, <2>1, StoredRecord DEF Persist
  <2> QED BY <1>1, <2>2 DEF KInv, KernelServed
<1>2. KInv /\ [Next]_vars =>
        [\A p \in RuntimePhases :
           record'[p] # record[p] /\ record'[p].acc = "pass" =>
             \A h \in AcceptanceTargets(run) :
               h \in run.targets \/ run.told # "unknown" =>
                 Kernel[booted[h].tftp] = Kernel[record'[p].gen]]_vars
  BY <1>1
<1> QED BY <1>2, InitKInv, NextKInv, PTL DEF Spec, PassRunsKernel
=============================================================================
