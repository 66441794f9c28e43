# Verification of homecluster-infra

TLA+ models of the stateful parts of this repository, the TLC runs that check
them on small instances, and TLAPS proofs of their invariants for every value of
the constants. `PROJECT.json` holds the same in machine-readable form: which
lines a definition models, which run checks which property, which hazard of the
code a property is aimed at.

    tlc -config NasFileLogs.cfg MCNasFileLogs      # a run
    tlapm SecurityCapture_proofs.tla               # the proofs of a module

## 1. The system

The repository configures an OpenWrt router, the PXE-booted Gentoo nodes it
serves and the k3s cluster on them. Most of it is declarative (Ansible roles,
Terraform roots, rendered configuration). The parts with state, failure and
concurrency of their own are programs:

| Component | State | Operations | What is hard |
|---|---|---|---|
| Common-kernel rollout: `scripts/pi-rpi5-common-kernel-rollout`, playbook `rpi5-common-kernel-rollout.yml`, phase acceptance | phase records, accepted generations, each host's TFTP/NFS selectors, the fresh-boot job | four forward phases, `rollback_last_phase` | hours between reading a gate and storing the record; a fresh-boot job that others share; a partial apply; kills and timeouts |
| NAS log collector: `nas_file_logs_{collector,core}.py`, `nas_file_logs_snapshot.sh` | `state.json` (cursors, outbox), the NAS files, Loki | a poll a minute | rotation during a snapshot, crash between save and push, a failed fsync, the clock stepping back |
| Security capture: `security_capture.py` | request, last result, spool, receipts, one lock | `request`, `serve`, `ssh-export`, `ack`, `status` | separate processes that meet in files; a crash or reboot between two file operations; expiring receipts |
| PXE ansible-pull wrapper, source pin and the readers of their receipts | lock, pin, checkout, markers, receipts on a disposable root | pull at boot, read evidence | a kill or a boot between two writes; a stale receipt; a reader beside a running pull |
| PXE producer receipt, artifact fingerprint | the artifact trees, one receipt file | measure, publish, read | trees written while they are measured; two producers |
| Release identity and source validators | none (they read the inventory, two machines, a checkout) | probe, validate | what was looked at first changes before the answer |
| PXE client catalog | none (a filter) | build | precedence of nested variables; a disk of a persistent node |
| banIP feed proof, security monitor | proof file, kernel sets, lock | verify, refresh, report | reload between two observations; failed saves; the clock |
| k3s SQLite backup | archives on an external mount | back up | the mount is lost or covered during the run; token rotation |
| k3s observability apply and its probes | `current` links, receipt in `/run`, Terraform state, Helm secrets | stage, apply, probe | reboot, half a bundle, clock steps |
| Convergence monitor | none (inventory lookups) | resolve targets, pick a document | groups within groups, one machine under two names |
| NAS SMART collector | state file | poll | disk swaps, counter resets, failed saves |
| Host Tailscale | state on a persistent disk, credential in `/run` | prepare, enrol | a disk mounted late, lost or exchanged, a command that times out |
| Kernel build cleanup | work directories | preview, apply | builds between preview and apply |
| Production monitoring renderers | applied manifests, running Pods | render, apply | several scripts each render their half of a relation |
| k3s node password sync, boot units, baseline roles, other Terraform, static checks | declarative or none | | not modelled (section 6) |

How they interact: the generation gate accepts a kernel generation by writing a
record; the rollout reads the latest one, lets the playbook move the selectors
OpenWrt serves, and asks the runbook's fresh-boot job to power-cycle the nodes;
nodes boot what they are served, pull their configuration and leave receipts;
status classifiers read receipts and selectors. The collectors and the capture
stand beside this chain.

## 2. Modules

| Module | Models |
|---|---|
| `KernelRollout` | the rollout script, its playbook, the boot job and the gate |
| `KernelRollout_proofs` | its theorems |
| `DurableOutbox` | abstract: what an at-least-once outbox promises |
| `NasFileLogs` | the collector, the NAS and Loki; implements `DurableOutbox` |
| `NasFileLogs_proofs` | its theorems, the refinement among them |
| `SecurityCapture` | the capture commands, the lock, crashes and reboots |
| `SecurityCapture_proofs` | its theorems |
| `PullWrapper` | the ansible-pull wrapper, its pin, checkout, receipts, and the evidence readers |
| `BanipProof`, `CanonicalNets` | the feed proof with the monitor's heartbeat; the canonical form of address sets |
| `ProducerReceipt` | measuring, publishing and reading the receipt of a bundle |
| `ReleaseIdentity`, `SourceValidator` | the identity probes among builds and clean-ups; the source validators |
| `SqliteBackup`, `NasSmart`, `BuildCleanup`, `HostTailscale` | the programs of these names with what happens around them |
| `K3sApply`, `K3sTargets` | bundle staging, apply, receipt and probes; inventory lookups and remediation |
| `ClientCatalog` | the filter that builds the router's PXE catalog |
| `MonitoringStack`, `MonitoringSites` | the renderers and the application of their manifests; sample sites and queries |
| `Operations` | the twelve components from `CanonicalNets` and `ProducerReceipt` down to `MonitoringStack`, side by side: they share no state, and the first state chooses one |
| `Observers` | `BanipProof` and `PullWrapper` side by side, likewise |
| `HostPrograms_proofs` | theorems about eight components of `Operations`: validators, Tailscale host, identity probes, k3s apply, backup, SMART sums, build clean-up, inventory lookup |
| `Records_proofs` | theorems about three more: producer receipt, canonical networks, client catalog |
| `MonitoringStack_proofs` | theorems about the twelfth, the monitoring stack |
| `Observers_proofs` | theorems about the two components of `Observers` |
| `Recursion` | the induction that proofs about recursive functions rest on |
| `MC...` | constants for TLC |

A definition whose comment begins with "Mutant" or "Plausible mistake" is a
plausible defect of the definition it stands by; it is used in no specification
and serves to show that a property notices it.

### KernelRollout

`pc` and `run` are the position and the locals of one invocation of `main`;
`record`, `accepted`, `selector` and `booted` the phase records, the accepted
generations, what OpenWrt serves and what each host last booted; `job` the
fresh-boot job. An action is one step after which others may interfere: the
read of gates and targets (`StartForward`, `StartRollback`), the preflight, the
plan, the recheck of the accepted record, one host's links, one host's
`cmdline.txt`, the read-back, the start and the end of the boot, the acceptance,
and the caller's storing of the record (`Persist`). `Abort` is a kill, or a
command's timeout, at any point: the code then writes no record. A selector is
a pair (TFTP release, NFS root), since the playbook moves the halves in two
loops. Names and digests are left out: a generation is its place in the order
of run ids, and `Kernel` maps it to the exact kernel release, which two
generations may share.

The preflight asks a helper of the runbook whether a job is active and refuses
only the answer `in_progress`; the helper's exit code is ignored. With `Silent`
it may give no answer while a job is active, and the invocation goes on;
`run.told` keeps what it was told.

External to the repository and modelled from its use: the fresh-boot job, the
caller that stores a phase record. Rollouts are not concurrent with each other:
the workflow calling the script is sequential (the script itself takes no lock).

### NasFileLogs

One source with `Depth` generations. A line is named by its place in the order
of writing, so that a prefix stands for its digest; a record of several lines
appears as its lines. `prepare` is a function of the state and the snapshot
(`Candidate`); its parts are `Found` (which generation the cursor points into),
`ReadTo` (`completed_records`: unfinished lines and lone headers wait) and
`CursorAfter`. `ReadGeneration` reads one file at a time, with the NAS writing
and rotating in between, by renaming or by copy and truncate. A save succeeds,
fails before the file is replaced, or fails after it (`SaveFailed`); a push
that fails may have reached Loki.

### SecurityCapture

Each command is a process that takes `capture.lock` without waiting; `holder`
says which one has it and before which file operation it stands. `files[i]` is
the content of a run directory. `Crash` ends the holder between two operations;
`Torn` within `publish`, with its temporary file left in the run or in the
receipt directory; `Reboot` also loses the tmpfs (request, last result). Checks
of mounts, modes, disk, memory and load may refuse at any time. `published` is
a history variable: receipts ever written.

### PullWrapper

`wrapper.step` is the position of the run that holds `/run/ansible-pull.lock`:
resolve the pin, wait for the agent's token, prepare the checkout (`Prepare`,
`Fetch`, `Reset`, `Galaxy`), play, log the state, record the two receipts.
`files` holds, per role, the state, the post-pull receipt and the
pinned-execution receipt, and under `"last"` the `last.env` that all roles
share; `marker` is the cache of the prepared source. A run may be killed at any
step (`Kill`), the node may reboot and lose its root, others may edit the
checkout, the declaration, the branch or the token. The readers read one file,
then the other: `ReadReceipt` and `ReadState` are separate steps, and `Observed`,
`Lineage` and `DeclarationObserved` are the verdicts of
`pxe_post_pull_receipt_status.py`, `pxe_pinned_execution_status.py`,
`pxe_node_lineage_status.py` and `pxe_node_source_declaration_status.py`; the last
looks at the declaration only, not at the node's stage or mode.
The playbook itself is external: it ends well or badly and may leave changes.

### BanipProof and CanonicalNets

`cmd` is `verify` or `refresh` under the lock: `prior`, snapshot, downloads,
snapshot, comparison, save; `mon` is the heartbeat, which calls `summary` without
the lock. `Snapshot` reads the runtime file, the sets one by one, and the runtime
file again. banIP reloads (replacing or restoring any of its sets), providers
change their feeds, saves fail and leave the `.part` file behind, the clock steps
back. Two digests are compared as contents; that this is right is `CanonicalNets`:
the canonical forms of a provider's rows and of a kernel set are equal exactly
when both cover the same addresses.

### ProducerReceipt

`Plan` is the list of readings that `create` makes, in the order of the code: each
tree walked twice, declarations, required files and manifest read again at the
end. Others write to the files between any two of them, moving the stamp that
`_identity` compares. A second producer may publish first (`RivalPublishes`);
`ReadReceipt` is the reader, which validates what it finds. `snap` and `reported`
are history variables.

### ReleaseIdentity and SourceValidator

The probe asks the inventory, the builder and OpenWrt one after the other, while
builds start, fail half-way or finish, the inventory adopts what they made and
clean-ups remove it. The validators check paths, revision and cleanliness, then
run their checks on a working tree that others may move meanwhile; the code looks
at the revision once, so that the two properties leave out what was moved while
they ran (`quiet`, `moved`).

### SqliteBackup, NasSmart, BuildCleanup, HostTailscale

`SqliteBackup` has the mount table as a sequence of records (the last of the
deepest is the effective one), the server's writes and token rotations, and every
step of `backup()` with its failures. `NasSmart` separates the disk's true
count (history) from what is read, kept in memory, saved (a save may fail before
or after the replacement) and exported. `BuildCleanup` plans twice, compares the
plans by their digest and removes one directory per step, with builds between.
`HostTailscale` has the path under which the state lies, what is mounted there,
the unit's two guards around the creation of directories, and the enrolment play,
whose `tailscale up` may be given up while the daemon goes on.

### K3sApply and K3sTargets

A bundle is two releases linked by two `current` links moved one after the other;
the script reads them at two moments, compares their markers, applies the roots
one by one (each a Helm release with pending, deployed and failed revisions) and
writes the receipt. The probes judge the receipt by boot id and three times, and
Helm's secrets by a page that may be truncated and comes in any order. `K3sTargets`
walks nested groups with the stack that `group_hosts` keeps by recursion; the groups
below one, in its property, are those in every closed set of groups that it is in.

### ClientCatalog

One step per host of the inventory, in order, then the legacy items: what a host
generates (DHCP host, boot entry, overlay client), the variables of each of its
roles, the guards on storage devices and on the permission to format, the nested
merge of group variables as functions from paths to values, and the treatment of a
legacy item whose key a generated one has.

### MonitoringStack

`objects` are the applied ConfigMaps, Deployments and NetworkPolicies, `pods` what
each Pod read when it started.
Each renderer is an operator that returns its manifest: mounted texts,
digests, policies, the connections that a text causes, scraped and queried series.
The `Apply...` actions apply one renderer's manifest, in any order;
`ApplyTerraform` composes the opt-ins of a query as
`prod_grafana_terraform_input.py` does and removes what is no longer in the
manifest, except what `prevent_destroy` holds. A commit may edit a text
(`edition`). Panels, formats and limits are left out.

## 3. Runs

| Run | Bounds | Shows |
|---|---|---|
| `KernelRolloutPhases` | 2 generations, 3 invocations, 4 hosts (1.6 M states) | `GateOrder`, `PassIsFinal`, `RollbackRestores` |
| `KernelRolloutForeignBoot` | 1 generation, 2 invocations, 1 foreign job, a helper that may not answer (0.8 M) | `BootedAsRecorded`, `PassRunsKernel`, `RunEnds` |
| `KernelRolloutPlan` | 1 invocation | `PlanGivesRollback` is violated |
| `KernelRolloutOwnBoot` | 1 invocation, 1 foreign job | `OwnFreshBoot` is violated |
| `NasFileLogs` | 2 generations, 3 lines, 2 rotations of both styles, 1 crash (2.4 M) | `OutboxSpec`, `StampsDistinct`, `SkipsAreCounted` |
| `NasFileLogsSingle` | 1 generation, 3 lines, a first poll of 1, 1 truncation, 1 crash (67 k) | `OneStampPerLine`, `LineArrives` |
| `NasFileLogsAtLeastOnce` | 2 lines, 1 truncation | `AtLeastOnce` is violated |
| `SecurityCapture` | 3 captures, spool of 2, 1 receipt, 1 crash (0.1 M) | `SpoolBounded`, `ManifestLast`, `StatusHolds`, `RequestUnserved`, `KeptUntilAcknowledged`, `LockReleased` |
| `SecurityCaptureCleanup` | 1 capture, 1 crash | `CleanupResumes` is violated |
| `Operations` | twelve components, below (0.45 M) | 14 properties, below |
| `Observers` | feed proof: 1 feed, 2 contents, 3 events; wrapper: 1 role, 2 revisions, 2 runs, 2 boots, 1 edit (0.37 M) | `VerifiedIsFresh`, `EvidenceKept`, `CommandEnds`; `ReportsTrue`, `UndisturbedIsExact`, `LockReleased` |
| `MonitoringDigest` | 2 sites, 6 queries, 1 edit | `RulesInDigest` is violated |

`Operations` and `Observers` put components that share no state beside one
another: the first state chooses one and the rest of the behaviour is its own.
The properties of `Operations`, each of the component it names:

| Property | Of | Bounds | Says |
|---|---|---|---|
| `ArchiveUsable` | `SqliteBackup` | 2 writes, 2 rotations, 3 mount changes | a finished archive is on the expected mount (the code looks three times; three changes within one backup could defeat it) and holds a database and token that were in force together |
| `IncrementsTrue` | `NasSmart` | 1 bay, 2 disks, count up to 2, 2 swaps or resets | a sum never exceeds what that disk's counter grew |
| `RemovedAsPreviewed` | `BuildCleanup` | 5 labels, 6 directories, 6 inodes | only what the operator saw is removed |
| `DigestsDecide` | `CanonicalNets` | 2-bit addresses, all tables and sets of 3 records | digests agree exactly when the addresses do |
| `ReceiptIsASnapshot` | `ProducerReceipt` | 2 trees of 2 names, 2 contents, 2 foreign writes | a stored or reported receipt shows each tree as it was at one moment, and is not replaced once read |
| `IdentityNeverReused` | `ReleaseIdentity` | 3 dates, 2 paths | a date that passes was never built, even if its traces are gone, unless the inventory moved during the probe |
| `PassVouchesForRevision` | `SourceValidator` | 2 commits, 2 checks, 2 moves | a pass names a commit whose clean tree passes every check, if the checkout stayed as it was |
| `CatalogKeeps` | `ClientCatalog` | 8,650 inventories | no persistent disk is given up for formatting; a declared value is replaced under a conflict that names it, or by what the catalog makes of the same host's settings |
| `ObservationsTrue` | `K3sApply` | 2 bundles, 2 roots, 2 boots, pages of 3 | what a probe reports was applied, in this boot |
| `EveryNodeOnce` | `K3sTargets` | 3 groups, also nested and cyclic | each node is asked once, under one name |
| `FlowsOpen`, `PodsCurrent`, `SeriesKept` | `MonitoringStack` | 2 sites, 6 queries, 1 edit | configured connections pass both policies; a Pod runs on the text of its ConfigMaps; what is queried is scraped |
| `OneIdentity` | `HostTailscale` | 2 boots, 3 mounts, 2 plays | a host registers once, with the identity on its disk |

What five of the properties leave out, since the code does not promise it:

- `BootedAsRecorded` speaks of invocations whose status helper answered. Without
  an answer the preflight lets an active job pass and the boot step adopts it,
  also the job that an earlier invocation of the script left behind.
  `PassRunsKernel` needs the answer only for the agents that a fleet phase accepts
  but does not move.
- `LineArrives` speaks of the lines that the first poll of a file did not leave
  behind its last `BootTail` records (50 in the code): the collector begins at the
  tail of what it finds.
- `CatalogKeeps` names the two merges whose conflicts the filter discards: explicit
  `role_terraform_stg` variables under the host's own Terraform settings, and
  `extra_vars` under what the catalog makes for the role. There a declared
  value disappears without a word, and the role's assertion that there is no conflict
  (`tasks/main.yml:46`) passes. The property says that only a value of the
  same host can have taken its place; each of the exceptions occurs in the run and the
  property fails without it.
- `ReportsTrue` says of a declaration that its probe shows that no run resolves to
  another pin. That a run takes it follows only for a staging node in pinned
  mode: on any other the probe shows a declaration that the wrapper refuses.

Why the bounds are enough for the interesting cases. Three invocations allow a
canary to pass, the next one to fail and a rollback to follow, or an aborted
invocation with its job still running before a retry; the second generation
supersedes the first at any of these points and shares its kernel. Four hosts
are the staging fleet (`staging_fleet` demands one server and three agents).
Two rotations push a line out of a snapshot of two generations; three lines are
one before, one at and one after the cursor, of which one is a header and one is
filtered. Clock values 1 and 3 let the clock go forwards and back over stamps
already given. Three captures against a spool of two meet the limit with a
request pending; one receipt meets the receipt limit. `MaxReceipts` is 64 and
`MaxSpool` 2 in the code. Three mount changes can lose the mount of a backup, put
another in its place and bring it back; two swaps return a disk to its bay; five
labels leave two that are obsolete beside those in use, kept and newest. Two
writes reach a tree before and after a walk. Three events let a reload begin and a feed
change around it between two snapshots. Two runs are the one that leaves its
receipts and the one that is reading or writing beside a reader; two boots
outdate every receipt once. A clock step of `Slack + 2` makes the probe of
the receipt refuse one that is of this boot; it never makes it accept one, and
`ObservationsTrue` rests on the boot id and not on the clock. The inventories of the catalog and of the monitor, and
the sites of the renderers, are chosen: pairs of roles with every flag,
mappings over and under one another, groups that contain themselves, queries with
each opt-in that changes the manifests in its own way.

`CHECK_DEADLOCK FALSE` is set for KernelRollout, where with the invocations used
up and nothing to accept the system may stop, and for `Operations`, `Observers`
and `MonitoringDigest`, whose components end (a filter returns, a lookup answers,
the bounds are used up). The other models always have a step.

Fairness. `KernelRollout!FairSpec`: the script is scheduled, and each command
it runs has a timeout (`run`, `MAX_WAIT_SECONDS`); nothing is assumed of the
boot job, of callers or of the gate. `NasFileLogs!FairSpec`: `main` polls for
ever, and from some time on SSH, the state file and Loki work; without the
second nothing can be promised to arrive. `SecurityCapture!FairSpec`: a process
that holds the lock goes on; tcpdump and an export have deadlines; no reader is
assumed to read (`ExportSent` has no fairness, `ExportTimeout` has).
`BanipProof!FairSpec`: the command is scheduled and its deadlines
(`banip_reload_deadline`, timeouts of downloads) pass; nothing is assumed of banIP
or the providers. `PullWrapper!FairSpec`: the script runs on and time passes, so
that the token wait ends; nothing is assumed of the token. The clock in the model
goes on only while its bound allows.

Every property of a passing run has a mutant in `PROJECT.json` that TLC refutes.

## 4. Where the code and its documents disagree

1. **A partial apply cannot be rolled back** (`KernelRolloutPlan`). The playbook
   stores "rollback可能なpre-mutation plan" before it mutates, but a failed
   apply is recorded as `selector_failed` without `rollback_recommended`, which
   `rollback_last_phase` does not consider.
2. **A foreign boot job is adopted** (`KernelRolloutOwnBoot`). A test is named
   `test_same_selector_requires_this_generations_fresh_boot`; `run_fresh_boot`
   accepts `in_progress`, also for a job started by somebody else after the
   preflight, or before it if the status helper did not answer. `PassRunsKernel`
   bounds the damage: the kernel release is checked
   at run time, the NFS root is not, nor is anything for a rollback.
3. **Lines lost without a gap** (`NasFileLogsAtLeastOnce`). A cursor at offset 0
   matches every file by its empty prefix, so that copytruncate before the
   second poll hides the saved copy. `SkipsAreCounted` holds for every cursor
   with a prefix.
4. **An interrupted cleanup may become stuck** (`SecurityCaptureCleanup`). The
   receipt of a half-deleted run expires after 72 hours and is removed before
   `acknowledge` looks for it; the run then stays in the spool.

5. **NFS alert rules outside the digest** (`MonitoringDigest`). With the NFS and
   the file-log opt-in both on, the second builds `checksum/config` anew from the
   configuration and the staging rules, so that changed NFS rules reach the
   ConfigMap but not the running Prometheus; the docstring of
   `update_prometheus_config` says "Keep configuration and the mounted alert-rule
   text in the rollout digest." `PodsCurrent` holds for every other key.

## 5. Proofs

Every theorem holds for every value of the constants under the assumptions that
the modules name, which TLC evaluates in the runs:

| Assumption | Says |
|---|---|
| `FleetAssumption`, `BoundAssumption` | the fleet has an eGPU agent, another agent and a server that is none of them; bounds are natural numbers |
| `CaptureAssumption`, `NasAssumption` | bounds and limits are natural numbers; sizes that the code divides or fills by are not zero |
| `BanipAssumption` | limits are natural numbers; the list of feeds is not empty and has no repetition (`configuration()` refuses others); `None` is no content and no time |
| `WrapperAssumption` | `last.env` is no role's file; the two kinds of evidence have names; the wait is a natural number; there is a revision |
| `ChecksAssumption`, `DatesAssumption`, `LabelsAssumption`, `RootsAssumption` | a validator runs a number of checks; dates and labels are numbers, labels finitely many; the Terraform roots are a list of names that is not empty |
| `ListingAssumption` | the generations are a list without repetition that is not empty; a tree has its directory and at least a file; some content is fit for a manifest |
| `TargetAssumption` | a group of an inventory lists its hosts and its child groups by names |
| `NetsAssumption` | addresses have a number of bits; rows and elements name addresses and prefix lengths |
| `InventoriesAssumption` | an inventory lists its hosts and its legacy items; a path of a group variable is a list of keys |
| `QueriesAssumption` | a query of the Terraform composer takes some of its two hosts |
| `SitesAssumption` | a site lists its targets, which are addresses and no names of Pods |

Hardly an invariant that a run checks is inductive as it stands. What each proof
adds:

**KernelRollout** (`TypeCorrect`, `GatesHold`, `PassesAreFinal`,
`RollbacksRestore`, `BootsAreOwn`, `PassesRunKernel`). When a record is stored,
nothing in it says that the gate was open when the invocation read it. `IInv` adds
what an invocation carries from step to step: `RunShape` and `Verdict` (which locals
are set at which step), `Known` (records and runs speak of accepted generations),
`Standing` (the gate it read still stands for its generation, as only this
invocation can replace the record), `Served` (after the read-back the targets are
served what was planned) and `OwnJob` (with no foreign jobs and an answered preflight,
the job it waits for booted what was applied). `PassesRunKernel` allows foreign jobs,
so `OwnJob` does not help; it rests on `Planned` (a forward phase applies its generation's pair),
`Bystanders` (a host that the invocation does not move runs what it is served once
a job has cycled it that began after an answered preflight) and `KernelServed` (a
host that passed the check of its kernel is served that kernel again). Each action has a lemma with one step per group
of conjuncts.

**SecurityCapture** (`TypeCorrect`, `SpoolIsBounded`, `ManifestIsLast`,
`StatusIsTrue`, `RequestsServedOnce`, `DeletionsAreAcknowledged`). A crash may
end a command between any two operations, so the invariant has to follow from
the files: `Serving` gives the exact content of the run at each step of `serve`,
`Acking` what `ack` has secured before it deletes, `Requesting` that a request's
id is unused, `Spooled` how directories, ids and receipts fit together and
`Reported` what the last result is evidence of. `SpoolIsBounded` adds the
cardinality argument.

**NasFileLogs** (`TypeCorrect`, `StampsApart`, `OutboxImplemented`,
`NoSilentSkips`, `LinesSentOnce`).
`OutboxImplemented` is the refinement: the initial state of the collector maps to
that of `DurableOutbox`, and every step to a step of it or a stutter.
Behind it stands `OutboxInv`: stamps rise along an outbox and stay below the last
one handed out, on disk as in memory (`Stamped`); the copy in memory is the one
on disk or one step ahead of it (`Copies`); what Loki has is acknowledged or still
in the outbox (`Arrived`, `Sent`). `NoSilentSkips` needs
that the files hold the lines in order with none missing behind the first
(`NasOrder`), and that a snapshot read file by file, with rotations in between, still
does, up to the line that was the last when it began (`SnapOrder`). `LinesSentOnce`
is stated for one generation (`Depth = 1`), as its run is: then whatever Loki has
lies behind the acknowledged cursor or in the outbox (`Passed`), in the file as it
is and as it was read (`Later`: it only grew or was rotated since). With more
generations a cursor may find its prefix in an older file, and TLC shows that the
property is false.

**BanipProof** (`ReportsAreFresh`, `EvidenceIsKept`). `Fetched` follows the
downloads of a verification in the order of the feeds, `Carried` says of what the
command is about to save, and of what the heartbeat has read, that each good
proof names a content downloaded no earlier than it claims.

**PullWrapper** (`EvidenceIsTrue`, `PinnedRunIsExact`). A reader reads the receipt
and then the state, while a run writes them in the other order. What keeps receipts
of different runs apart is time: `Receipted` says that a receipt, on the disk or in
a reader's hands, belongs to the run that wrote the role's state, or to an earlier
one and is then strictly older. `Logged` ties a state file to its run and boot,
`Witnessed` and `Started` the evidence to the tree the playbook was started on, and
`Exact` what a pinned run that nobody disturbed has prepared, marker included.

**ProducerReceipt** (`ReceiptsAreSnapshots`). The order of the readings is a
list that concatenation over the generations puts together, so the first half is
about lists: `Reads(p, T)` says that in `p` every file of a tree of `T` is visited
before its tree is snapped and again after it, and that what is visited afterwards
is compared; it holds of one walk, of a fingerprint, of a generation and, by induction, of
the whole plan (`PlanOrdered`). The invariant is about stamps: a record is of a
stamp that the file had (`KnownIsOld`), and around a snap at position i
the records of its tree are no younger than the snap and, once visited again, no
older (`Around`). At the publication both hold, so stamp and content are those of
the snap, for all files of the tree at once.

**CanonicalNets** (`DigestsAlwaysDecide`). The two sets do not move, so the theorem is
about the operators, for every number of address bits. `Folded(nets, A, len)` says what
joining siblings has reached at a prefix length: the networks still cover `A`, and each
network inside `A` that is no shorter lies in one of them. Each length keeps it
(`JoinedFolds`) and by induction the last one has it (`MergedFolds`); what is left after
dropping the contained ones is then the set of the largest networks inside `A`
(`FoldedIsMaximal`), which `A` alone determines, and which covers `A` again
(`MaximalCovers`).

**ClientCatalog** (`CatalogAlwaysKeeps`). `CatalogInv` is about the hosts built so far:
every chosen host's merged group variables are in the result or under a conflict
(`HostsKept`, from `MergeKeeps`: an overlay takes nothing from what it is merged into),
the variables of its roles are collected (`HostsCollected`), generated items are lists, and each set of client variables comes from a host that was
accepted (`FromAccepted`), whose guards make it safe (`AcceptedKeepsDisks`). What a
host declares is then traced through its own merges: `GroupVarsFacts` for the group
variables under its Terraform settings, `ExtraVarsReach` for `extra_vars` under what the
catalog makes. The last step adds the legacy items, of which `NonShadowedKeeps` says, by induction over the
list, which ones stay.

**MonitoringStack** (`SeriesAlwaysKept`, `PodsStayCurrent`, `FlowsStayOpen`). The
manifests are composed, so most of the proof is about operators: what each renderer
gives, what each opt-in preserves, and what stays of the objects when one manifest is
applied over another (`Base`), which may remove, replace or keep each. `Shape` is what
every manifest has and `Grown` what the composer's has after any number of opt-ins;
`OwnTied` says that the digest in a template determines the texts that the Pod mounts
from its own ConfigMap, `FilesTied` that Prometheus digests the file-log rules as well
and that nothing takes them away (they are held by `prevent_destroy`), `SeriesOK` that
every job keeps all groups of series that any dashboard or rule asks of such a job
(`Closed`, `Queriable`). `StackInv` adds that a Pod has read what it mounts
(`PodsRead`), which an apply preserves because an unchanged template means unchanged
texts.

For the connections, `FlowInv` adds `Wired`: `Keeps(n, p)` gives what the policy of each
name always allows, `Guarded` that a Deployment never comes without its policies,
`TextCalls` and `TemplateCalls` what the texts of a ConfigMap and a template make a Pod
open, `Licensed` that what Prometheus scrapes is in the policy that comes with that
configuration, and `SyslogScraped` that the syslog opt-in has opened Prometheus in the
policy of another opt-in. Policies add up, so nothing that is applied beside them
closes what they open. `FlowsStayOpen` has the hypothesis `OneNetwork`: the policy of
the blackbox exporter comes from one site file, and what it probes from the one that
was rendered last, and nothing compares the two. TLC checks that the sites of the run
satisfy it (`SitesOfOneNetwork`).

**The other components of Operations.** `ValidatorPassSound`: while nobody touches
the checkout, what was read of it is still so. `TailscaleOneIdentity`: a running
daemon has opened the state on the configured disk, and the control plane
knows no identity but that one. `IdentityFreshOnPass`: a date that was built shows in
the inventory or in a path that is left. `ApplyObservationsTrue`: there is no receipt
while a script applies, and one that is there stands for all roots in this boot
(`ApplyTrue`). `BackupArchiveUsable`: how many mount changes must have happened for
the partial file to lie elsewhere with the expected mount back (`ChangesSeen`), and
which token a database was in force with (`TokenBetween`).
`SmartIncrementsTrue`: no file, candidate or export is ahead of the disks
(`PollTrue`, with finite sums over bays).
`CleanupRemovesApproved`: each directory on the list is one the operator approved,
older than all that are protected (`SweepListed`).
`TargetsEveryNodeOnce`: a walk has met its first group and the children of all it has
seen (`WalkMeetsChildren`) and nothing that another closed set of groups lacks
(`WalkStaysBelow`), so that an empty stack leaves exactly the groups below the first;
its hosts are those of the groups seen (`WalkHasHosts`), and `UniqueRange`, by
induction over the list, says what removing repetitions keeps.

A component of `Operations` or `Observers` takes the composition's next-state
relation, in which the steps of the others leave it alone; the theorems are about
the composed specification that the runs check.

Proof attempts changed the model. `VerifiedIsFresh` had the bound
`MaxAge + MaxVerify`; a heartbeat reads the clock twice, and `checked_feed_proof`
tolerates 30 s between the ages it gets, so the bound has `Slack` in it. That the
instances of the run have `Slack = 0` had hidden this. And the assumption that
there is at least one revision, and that one content is fit, had been tacit.
A NetworkPolicy without rules of a direction had been a policy with the rules `None`;
it now has its `policyTypes`, as in the code, as nothing says that a model value is no set of
rules. `CanonicalNets` and `ClientCatalog` use recursive functions over `0..n` where
they had a power and a selection from a list, and `++` where they had the `@@` of `TLC`, of
which the provers know nothing.

Recursion. The library's induction theorems take an operator, which the provers
cannot instantiate. `Recursion` states induction with the property as a set, over
`0..n` (`InductionTo`), and that a recursion on `0..n` has a solution
(`RecursionTo`); with both, recursive functions over sequences (`FlattenSeq`, `Unique`,
the stamps of a batch) can be reasoned about.

Only model-checked:

- the liveness properties (`RunEnds`, `LineArrives`, `CommandEnds`,
  `LockReleased`), which need fairness and `ENABLED`;
- the properties of the runs that expect a violation, which are false.

Every other property of a run is a theorem. `PodsCurrent` leaves out the NFS alert
rules, of which finding 5 shows it false.

## 6. Not modelled

- Byte sizes and limits of the collector (2 MiB files, 512 batches): a poll
  above a limit fails as `FetchFails` does, and for as long as the files stay.
- The normal-line patterns, severities, labels: an arbitrary set of lines.
- File modes, symlink checks, hashes of configuration: refusals.
- The rollout's progress file: an operator hint, written atomically under a lock.
- A status helper that reports an active job where there is none: a refusal.
- Two rollouts at once: excluded by the calling workflow, not by the script.
- PXE bootstrap and boot-time units: shell that copies keys, roles and tokens once
  at boot, ordered by systemd; the wrapper is started with what they leave.
- k3s node password sync: copies one file; what it is for is decided by the k3s
  agent, which is not in the repository.
- `pi-rpi5-common-kernel-inspect` and `-precheck`, the bundle manifest and live
  selector probes: they read facts once and report them, with no second look or
  state that another step could contradict.
- The NFS collector and the log parsing of the security monitor: no state
  between two polls.
- Roles and the Terraform roots other than the owner of the monitoring
  manifests: declarative; their state machines are Ansible's and Terraform's.
- The kernel-build dashboard, static checks and contract tests: tools about the
  repository itself.

## 7. Plan

1. The node's chain as one model: producer, generation gate, rollout, wrapper and
   lineage probe composed, for "a node reported complete runs what was accepted".
