------------------------------- MODULE K3sApply -------------------------------
(***************************************************************************)
(* The staging cluster's Terraform apply (k3s-observability-apply.sh), the *)
(* completion receipt it leaves in /run, and the two read-only probes of   *)
(* the result: k3s_terraform_apply_receipt_status.py reads the receipt,    *)
(* k3s_helm_metadata_status.py the labels of the Helm secrets.  A bundle   *)
(* is the pair of an infra and a site-input release made together; the two *)
(* `current' links move one after the other.  /run does not survive a      *)
(* boot, Terraform's state and the Helm secrets do.                        *)
(***************************************************************************)
EXTENDS Naturals, FiniteSets, FiniteSetsExt, SequencesExt

CONSTANTS
    Bundles,        \* bundle ids
    Roots,          \* the Terraform roots in the order they are applied; a Helm release each
    Checked,        \* the roots whose release must not be pending
    PageSize,       \* limit= of the metadata request
    Slack,          \* the reader's tolerance, in clock units
    NoReceipt,
    MaxClock, MaxBoots, MaxStages, MaxRevisions      \* bounds

VARIABLES
    links,          \* the two current links: the bundle each one names
    stages,         \* how often a link was moved
    machineUp,      \* boot: its number; clock: wall clock; up: uptime
    receipt,        \* the done marker with its mtime, or NoReceipt
    apply,          \* the running script: pc, bundle, root (the next one)
    secrets,        \* Helm's secrets: release, revision, status
    applied,        \* history: the bundle every root was last applied from, and in which boot
    reading         \* the probes' last results, with what was true when they looked

vars == <<links, stages, machineUp, receipt, apply, secrets, applied, reading>>

Idle == [pc |-> "idle", bundle |-> [infra |-> NoReceipt, site |-> NoReceipt], root |-> 1]
NoReading == [status |-> "unknown"]

Init ==
    /\ links \in {[infra |-> b, site |-> b] : b \in Bundles} /\ stages = 0
    /\ machineUp = [boot |-> 1, clock |-> 1, up |-> 0]
    /\ receipt = NoReceipt /\ apply = Idle /\ secrets = {}
    /\ applied = [r \in Range(Roots) |-> [bundle |-> NoReceipt, boot |-> 0]]
    /\ reading = [terraform |-> NoReading, helm |-> NoReading]

-----------------------------------------------------------------------------
(* Around the script                                                       *)

Stage(part, b) ==
    /\ stages < MaxStages /\ stages' = stages + 1
    /\ links' = [links EXCEPT ![part] = b]
    /\ UNCHANGED <<machineUp, receipt, apply, secrets, applied, reading>>
Tick ==
    /\ machineUp.clock < MaxClock
    /\ \E step \in {1, Slack + 2} :        \* a second step is a clock set by NTP
         machineUp' = [machineUp EXCEPT !.clock = @ + step, !.up = @ + 1]
    /\ UNCHANGED <<links, stages, receipt, apply, secrets, applied, reading>>
Reboot ==
    /\ machineUp.boot < MaxBoots
    /\ machineUp' = [machineUp EXCEPT !.boot = @ + 1, !.up = 0]
    /\ receipt' = NoReceipt /\ apply' = Idle
    /\ reading' = [terraform |-> NoReading, helm |-> NoReading]
    /\ UNCHANGED <<links, stages, secrets, applied>>

-----------------------------------------------------------------------------
(* k3s-observability-apply.sh                                              *)

ReadInfraLink ==
    /\ apply.pc = "idle"
    /\ apply' = [apply EXCEPT !.pc = "site", !.bundle.infra = links.infra]
    /\ UNCHANGED <<links, stages, machineUp, receipt, secrets, applied, reading>>

\* Mutant of ReceiptBars: a receipt of another bundle does not stop the script.
ReceiptBarsSame(bundle) == receipt # NoReceipt /\ receipt.bundle = bundle
\* Any receipt ends the script, as done or as a refusal.
ReceiptBars(bundle) == receipt # NoReceipt

\* The site link is read, the markers of the pair compared, the receipt looked at.
CheckBundle ==
    LET bundle == [infra |-> apply.bundle.infra, site |-> links.site] IN
    /\ apply.pc = "site"
    /\ apply' = IF bundle.infra # bundle.site \/ ReceiptBars(bundle.infra) THEN Idle
                ELSE [apply EXCEPT !.pc = "apply", !.bundle = bundle]
    /\ UNCHANGED <<links, stages, machineUp, receipt, secrets, applied, reading>>

Revisions(release) == {s \in secrets : s.release = release}
NextRevision(release) == IF Revisions(release) = {} THEN 1 ELSE Max({s.revision : s \in Revisions(release)}) + 1
Pending(release) == \E s \in Revisions(release) : s.status = "pending"

\* terraform apply of one root: a pending revision first, settled at its end.
StartRoot ==
    LET r == Roots[apply.root] IN
    /\ apply.pc = "apply" /\ NextRevision(r) <= MaxRevisions
    /\ \/ /\ r \in Checked /\ Pending(r) /\ apply' = Idle /\ UNCHANGED <<secrets, applied>>
       \/ /\ ~(r \in Checked /\ Pending(r))
          /\ apply' = [apply EXCEPT !.pc = "root"]
          /\ secrets' = secrets \cup {[release |-> r, revision |-> NextRevision(r), status |-> "pending"]}
          /\ applied' = [applied EXCEPT ![r] = [bundle |-> NoReceipt, boot |-> machineUp.boot]]
    /\ UNCHANGED <<links, stages, machineUp, receipt, reading>>
EndRoot(status) ==
    LET r == Roots[apply.root]
        mine == CHOOSE s \in Revisions(r) : \A t \in Revisions(r) : t.revision <= s.revision
    IN
    /\ apply.pc = "root"
    /\ secrets' = {IF s.status = "deployed" /\ status = "deployed" THEN [s EXCEPT !.status = "superseded"] ELSE s :
                      s \in Revisions(r) \ {mine}}
                  \cup {[mine EXCEPT !.status = status]} \cup (secrets \ Revisions(r))
    /\ applied' = IF status = "failed" THEN applied ELSE [applied EXCEPT ![r].bundle = apply.bundle.infra]
    /\ apply' = IF status = "failed" THEN Idle
                ELSE IF apply.root < Len(Roots) THEN [apply EXCEPT !.pc = "apply", !.root = @ + 1]
                ELSE [apply EXCEPT !.pc = "receipt"]
    /\ UNCHANGED <<links, stages, machineUp, receipt, reading>>

WriteReceipt ==
    /\ apply.pc = "receipt"
    /\ receipt' = [boot |-> machineUp.boot, bundle |-> apply.bundle.infra,
                   epoch |-> machineUp.clock, mtime |-> machineUp.clock]
    /\ apply' = Idle
    /\ UNCHANGED <<links, stages, machineUp, secrets, applied, reading>>

-----------------------------------------------------------------------------
(* The probes                                                              *)

\* Identity, then time: after the boot, not after the file, not in the future.
ReceiptAccepted ==
    /\ receipt # NoReceipt /\ machineUp.clock > machineUp.up
    /\ receipt.boot = machineUp.boot /\ receipt.bundle \in Bundles
    /\ machineUp.clock - machineUp.up <= receipt.epoch + Slack
    /\ receipt.epoch <= receipt.mtime + Slack /\ receipt.mtime <= machineUp.clock + Slack

ReadTerraform ==
    /\ reading' = [reading EXCEPT !.terraform =
         IF ReceiptAccepted THEN [status |-> "partial", bundle |-> receipt.bundle, boot |-> machineUp.boot, then |-> applied]
         ELSE NoReading]
    /\ UNCHANGED <<links, stages, machineUp, receipt, apply, secrets, applied>>

\* The items of the list in any order, cut off at the page size.
Fetched == SetToSeqs(secrets)
Truncated == Cardinality(secrets) > PageSize

\* _parse: the highest revision of every release, whatever the order of the items.
Latest(items) ==
    {i \in Range(items) : \A j \in Range(items) : j.release = i.release => j.revision <= i.revision}

ReadHelm ==
    /\ \/ reading' = [reading EXCEPT !.helm = NoReading]         \* no credentials, no answer
       \/ \E items \in Fetched :
            reading' = [reading EXCEPT !.helm =
              IF Truncated \/ items = <<>> THEN NoReading
              ELSE [status |-> "partial", boot |-> machineUp.boot, releases |-> Latest(items),
                    failed |-> Cardinality({i \in Range(items) : i.status = "failed"}),
                    pending |-> Cardinality({i \in Latest(items) : i.status = "pending"}), then |-> secrets]]
    /\ UNCHANGED <<links, stages, machineUp, receipt, apply, secrets, applied>>

Next ==
    \/ \E part \in {"infra", "site"}, b \in Bundles : Stage(part, b)
    \/ Tick \/ Reboot
    \/ ReadInfraLink \/ CheckBundle \/ StartRoot \/ WriteReceipt
    \/ \E status \in {"deployed", "failed"} : EndRoot(status)
    \/ ReadTerraform \/ ReadHelm

Spec == Init /\ [][Next]_vars

-----------------------------------------------------------------------------
(* Properties                                                              *)

\* What a probe reports is what the cluster was given.  A receipt that is
\* accepted says that every root was applied from its bundle, in this boot,
\* and that nothing else was applied since: not a bundle staged later, not
\* half of one.  (The conditions on the clock only refuse more: what is said
\* here rests on the boot id.)  A Helm report names each release once, with the revision
\* that is the newest, and calls it pending exactly if that one is.
ObservationsTrue ==
    /\ reading.terraform.status = "partial" =>
         \A r \in Range(Roots) :
            reading.terraform.then[r] = [bundle |-> reading.terraform.bundle, boot |-> reading.terraform.boot]
    /\ reading.helm.status = "partial" =>
         LET newest == {s \in reading.helm.then : \A t \in reading.helm.then : t.release = s.release => t.revision <= s.revision} IN
         /\ reading.helm.releases = newest
         /\ reading.helm.pending = Cardinality({s \in newest : s.status = "pending"})
=============================================================================
