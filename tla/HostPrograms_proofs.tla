--------------------------- MODULE HostPrograms_proofs ---------------------------
(***************************************************************************)
(* Invariants of the programs that run on a host of their own, proved of   *)
(* Operations for every value of its constants: the source validators,     *)
(* the Tailscale host, the release identity probes, the k3s apply with the *)
(* probes that report on it, the k3s backup, the sums of the SMART         *)
(* collector, the clean-up of old kernel builds and the monitor's list of  *)
(* nodes.  Each is proved the same way: an inductive invariant of the      *)
(* component, one step per action, and the composition, in which the other *)
(* components' steps leave it alone.                                       *)
(***************************************************************************)
EXTENDS Operations, FiniteSetTheorems, Recursion

-----------------------------------------------------------------------------
(* SourceValidator                                                         *)

ValidatorTypes ==
    /\ healthy \in [Commits -> SUBSET SourceValidator!AllChecks]
    /\ repo \in [head : Commits, dirty : BOOLEAN, passes : SUBSET SourceValidator!AllChecks]
    /\ gate \in [step : {"paths", "revision", "status", "checks", "ended"}, revision : Commits \cup {0},
                done : 0 .. Checks, quiet : BOOLEAN]

\* While nobody touches the checkout, the revision read is the one that is
\* there, from the clean status on its tree is that of the commit, and the
\* checks done are checks that the commit passes.
ValidatorInv ==
    /\ ValidatorTypes
    /\ gate.step \in {"paths", "revision", "status"} => gate.done = 0
    /\ gate.step = "status" /\ gate.quiet => gate.revision = repo.head
    /\ gate.step = "checks" /\ gate.quiet =>
          gate.revision = repo.head /\ ~repo.dirty /\ 1 .. gate.done \subseteq healthy[gate.revision]
    /\ outcome.status = "pass" => gate.step = "ended"
    /\ SourceValidator!PassVouchesForRevision

LEMMA ValidatorInitial == SourceValidator!Init => ValidatorInv
  BY ChecksAssumption
  DEF SourceValidator!Init, SourceValidator!Start, SourceValidator!NoOutcome, ValidatorInv,
      ValidatorTypes, SourceValidator!PassVouchesForRevision

LEMMA ValidatorStep == ValidatorInv /\ SourceValidator!Next => ValidatorInv'
<1> SUFFICES ASSUME ValidatorInv, SourceValidator!Next PROVE ValidatorInv'
  OBVIOUS
<1> USE ChecksAssumption
    DEF ValidatorInv, ValidatorTypes, SourceValidator!PassVouchesForRevision,
        SourceValidator!AllChecks, SourceValidator!Reads, SourceValidator!GoOn, SourceValidator!Result
<1>1. CASE SourceValidator!Paths
  BY <1>1 DEF SourceValidator!Paths
<1>2. CASE SourceValidator!Revision
  <2>1. CASE gate' = [gate EXCEPT !.step = "status", !.revision = repo.head, !.quiet = TRUE]
             /\ UNCHANGED outcome
    BY <1>2, <2>1 DEF SourceValidator!Revision
  <2>2. CASE outcome'.status = "unknown" /\ gate' = [gate EXCEPT !.step = "ended"]
    BY <1>2, <2>2 DEF SourceValidator!Revision
  <2> QED
    BY <1>2, <2>1, <2>2 DEF SourceValidator!Revision
<1>3. CASE SourceValidator!Status
  BY <1>3 DEF SourceValidator!Status, SourceValidator!IsClean
<1>4. CASE SourceValidator!RunCheck
  <2>1. CASE UNCHANGED outcome
    BY <1>4, <2>1 DEF SourceValidator!RunCheck, SourceValidator!Passes
  <2>2. CASE outcome'.status # "pass" /\ gate' = [gate EXCEPT !.step = "ended"]
    BY <1>4, <2>2 DEF SourceValidator!RunCheck
  <2> QED
    BY <1>4, <2>1, <2>2 DEF SourceValidator!RunCheck
<1>5. CASE SourceValidator!Validated
  BY <1>5 DEF SourceValidator!Validated
<1>6. CASE SourceValidator!Move
  BY <1>6 DEF SourceValidator!Move
<1>7. CASE SourceValidator!Again
  BY <1>7 DEF SourceValidator!Again, SourceValidator!Start, SourceValidator!NoOutcome
<1> QED
  BY <1>1, <1>2, <1>3, <1>4, <1>5, <1>6, <1>7 DEF SourceValidator!Next

\* pxe_standard_source_validate.py, rpi5_common_kernel_source_validate.py: a pass
\* vouches for the commit that it names: every check passes on a clean tree of
\* it, for any number of checks and commits, unless the checkout was changed
\* between the reading of the revision and the end.
THEOREM ValidatorPassSound == Spec => []PassVouchesForRevision
<1> DEFINE I == Is("SourceValidator") => ValidatorInv
<1>1. Init => I
  BY ValidatorInitial DEF Init, Is
<1>2. I /\ [Next]_vars => I'
  <2> SUFFICES ASSUME I, [Next]_vars, Is("SourceValidator")' PROVE ValidatorInv'
    OBVIOUS
  <2>1. CASE UNCHANGED vars
    BY <2>1 DEF vars, validatorVars, Is, ValidatorInv, ValidatorTypes,
       SourceValidator!AllChecks, SourceValidator!PassVouchesForRevision
  <2>2. CASE Next
    BY <2>2, ValidatorStep DEF Next, Others, Is
  <2> QED
    BY <2>1, <2>2
<1>3. I => PassVouchesForRevision
  BY DEF ValidatorInv, PassVouchesForRevision
<1> QED
  BY <1>1, <1>2, <1>3, PTL DEF Spec
-----------------------------------------------------------------------------
(* HostTailscale                                                           *)

\* A running daemon has opened the state on the configured disk, which is still
\* mounted; only a running daemon has a backend state; and the control plane
\* knows nothing but the identity on that disk, if there is one.
TailscaleInv ==
    /\ path \in HostTailscale!Places /\ opened \in HostTailscale!Places
    /\ identity \in [HostTailscale!Places -> Nat]
    /\ unit = "running" => path = "device" /\ opened = "device"
    /\ unit # "running" => backend = "none"
    /\ known \subseteq {identity["device"]}
    /\ identity["device"] = 0 => known = {}

\* The component's own copy of the operator, which the instance makes.
LEMMA TailscaleCardinality == \A S : HostTailscale!Cardinality(S) = Cardinality(S)
  BY Zenon DEF HostTailscale!Cardinality, Cardinality

LEMMA TailscaleInitial == HostTailscale!Init => TailscaleInv
  BY DEF HostTailscale!Init, TailscaleInv, HostTailscale!Places

LEMMA TailscaleStep == TailscaleInv /\ HostTailscale!Next => TailscaleInv'
<1> SUFFICES ASSUME TailscaleInv, HostTailscale!Next PROVE TailscaleInv'
  OBVIOUS
<1> USE DEF TailscaleInv, HostTailscale!Places, HostTailscale!Stopped, HostTailscale!EndPlay,
            HostTailscale!BackendState
<1>1. CASE HostTailscale!Prepare
  BY <1>1 DEF HostTailscale!Prepare
<1>2. CASE HostTailscale!Make
  BY <1>2 DEF HostTailscale!Make
<1>3. CASE HostTailscale!Start
  BY <1>3 DEF HostTailscale!Start, HostTailscale!Guard, HostTailscale!CheckMount
<1>4. CASE HostTailscale!ReadState
  BY <1>4 DEF HostTailscale!ReadState
<1>5. CASE HostTailscale!Enroll
  BY <1>5 DEF HostTailscale!Enroll
<1>6. CASE HostTailscale!Up
  BY <1>6 DEF HostTailscale!Up
<1>7. CASE HostTailscale!Register
  <2>1. unit = "running" /\ opened = "device"
    BY <1>7 DEF HostTailscale!Register
  <2>2. CASE identity["device"] # 0
    BY <1>7, <2>1, <2>2 DEF HostTailscale!Register
  <2>3. CASE identity["device"] = 0
    <3> DEFINE new == IF identity[opened] # 0 THEN identity[opened]
                      ELSE HostTailscale!Cardinality(known) + 1
    <3>1. new = 1
      <4>1. known = {}
        BY <2>3
      <4>2. HostTailscale!Cardinality({}) = 0
        BY FS_EmptySet, TailscaleCardinality, Zenon
      <4> QED
        BY <2>1, <2>3, <4>1, <4>2
    <3>2. known' = known \union {new} /\ identity' = [identity EXCEPT ![opened] = new]
      BY <1>7 DEF HostTailscale!Register
    <3> HIDE DEF new
    <3>3. known' = known \union {1} /\ identity' = [identity EXCEPT !["device"] = 1]
      BY <2>1, <2>3, <3>1, <3>2
    <3>4. backend' = "Running" /\ UNCHANGED <<path, unit, opened>>
      BY <1>7 DEF HostTailscale!Register
    <3> QED
      BY <2>1, <2>3, <3>3, <3>4
  <2> QED
    BY <2>2, <2>3
<1>8. CASE HostTailscale!UpEnds
  BY <1>8 DEF HostTailscale!UpEnds
<1>9. ASSUME NEW place \in HostTailscale!Places, HostTailscale!Mount(place) PROVE TailscaleInv'
  BY <1>9 DEF HostTailscale!Mount
<1>10. CASE HostTailscale!DaemonDies
  BY <1>10 DEF HostTailscale!DaemonDies
<1>11. CASE HostTailscale!Reboot
  BY <1>11 DEF HostTailscale!Reboot
<1>12. CASE HostTailscale!PlayLost
  BY <1>12 DEF HostTailscale!PlayLost
<1> QED
  BY <1>1, <1>2, <1>3, <1>4, <1>5, <1>6, <1>7, <1>8, <1>9, <1>10, <1>11, <1>12
  DEF HostTailscale!Next

\* host-tailscale.py and its playbook: a host has one machine identity for good,
\* the one on its disk, for any number of boots, mounts and plays.
THEOREM TailscaleOneIdentity == Spec => []OneIdentity
<1> DEFINE I == Is("HostTailscale") => TailscaleInv
<1>1. Init => I
  BY TailscaleInitial DEF Init, Is
<1>2. I /\ [Next]_vars => I'
  <2> SUFFICES ASSUME I, [Next]_vars, Is("HostTailscale")' PROVE TailscaleInv'
    OBVIOUS
  <2>1. CASE UNCHANGED vars
    BY <2>1 DEF vars, tailscaleVars, Is, TailscaleInv, HostTailscale!Places
  <2>2. CASE Next
    BY <2>2, TailscaleStep DEF Next, Others, Is
  <2> QED
    BY <2>1, <2>2
<1>3. I => OneIdentity
  <2> SUFFICES ASSUME TailscaleInv PROVE Cardinality(known) <= 1
    BY TailscaleCardinality DEF TailscaleInv, OneIdentity, HostTailscale!OneIdentity
  <2>1. known = {} \/ known = {identity["device"]}
    BY DEF TailscaleInv
  <2>2. Cardinality({}) = 0 /\ Cardinality({identity["device"]}) = 1
    BY FS_EmptySet, FS_Singleton
  <2> QED
    BY <2>1, <2>2
<1> QED
  BY <1>1, <1>2, <1>3, PTL DEF Spec
-----------------------------------------------------------------------------
(* ReleaseIdentity                                                         *)

\* Every bundle date that a build was started for is behind the inventory's or
\* has a path left on OpenWrt, and a probe that has passed the inventory's date
\* asks for a later one, as long as the inventory stays.
StartedShows == \A d \in everBuilt : d <= stageDate \/ ReleaseIdentity!Collides(d)
IdentityInv ==
    /\ stageDate \in Nat /\ everBuilt \subseteq Nat
    /\ probe \in [step : {"none", "dates", "builder_contract", "builder_paths", "stage_date",
                          "bundle_paths"},
                  kernel : Nat, pxe : Nat, moved : BOOLEAN]
    /\ verdict.pxeDate \in Nat
    /\ StartedShows
    /\ probe.step = "bundle_paths" /\ ~probe.moved => probe.pxe > stageDate

LEMMA IdentityInitial == ReleaseIdentity!Init => IdentityInv
  BY DatesAssumption
  DEF ReleaseIdentity!Init, IdentityInv, StartedShows, ReleaseIdentity!NoProbe, ReleaseIdentity!NoVerdict

LEMMA StartedStays ==
  ASSUME StartedShows, UNCHANGED <<stageDate, bundles, everBuilt>> PROVE StartedShows'
  BY DEF StartedShows, ReleaseIdentity!Collides

\* A probe that ends without a pass, and one that goes on.
LEMMA AnswerKeeps ==
  ASSUME IdentityInv, NEW s, NEW r, NEW k, NEW p, s # "pass", ReleaseIdentity!Answer(s, r, k, p)
  PROVE  IdentityInv' /\ ReleaseIdentity!FreshPass
<1>1. UNCHANGED <<stageDate, bundles, everBuilt>> /\ verdict'.status = s
  BY DEF ReleaseIdentity!Answer, ReleaseIdentity!Terminal, ReleaseIdentity!World
<1>2. verdict'.pxeDate = probe.pxe /\ probe' = ReleaseIdentity!NoProbe
  BY DEF ReleaseIdentity!Answer, ReleaseIdentity!Terminal
<1> QED
  BY <1>1, <1>2, StartedStays DEF IdentityInv, ReleaseIdentity!FreshPass, ReleaseIdentity!NoProbe

LEMMA GoOnKeeps ==
  ASSUME IdentityInv, NEW step \in {"builder_contract", "builder_paths", "stage_date", "bundle_paths"},
         step = "bundle_paths" => probe.pxe > stageDate, ReleaseIdentity!GoOn(step)
  PROVE  IdentityInv' /\ ReleaseIdentity!FreshPass
<1>1. UNCHANGED <<stageDate, bundles, everBuilt, verdict>> /\ probe' = [probe EXCEPT !.step = step]
  BY DEF ReleaseIdentity!GoOn, ReleaseIdentity!World
<1> QED
  BY <1>1, StartedStays DEF IdentityInv, ReleaseIdentity!FreshPass

LEMMA IdentityStep ==
  ASSUME IdentityInv, ReleaseIdentity!Next
  PROVE  IdentityInv' /\ ReleaseIdentity!FreshPass
<1> USE AnswerKeeps, GoOnKeeps DEF ReleaseIdentity!Unavailable
<1>1. CASE ReleaseIdentity!Ask
  BY <1>1, DatesAssumption, StartedStays
  DEF ReleaseIdentity!Ask, IdentityInv, ReleaseIdentity!FreshPass, ReleaseIdentity!NoProbe,
      ReleaseIdentity!NoVerdict, ReleaseIdentity!World
<1>2. CASE ReleaseIdentity!CheckDates
  BY <1>2 DEF ReleaseIdentity!CheckDates
<1>3. CASE ReleaseIdentity!BuilderContract
  BY <1>3 DEF ReleaseIdentity!BuilderContract
<1>4. CASE ReleaseIdentity!BuilderPaths
  BY <1>4 DEF ReleaseIdentity!BuilderPaths
<1>5. CASE ReleaseIdentity!StageDate
  <2>1. CASE ReleaseIdentity!GoOn("bundle_paths") /\ ~ReleaseIdentity!NotAhead(probe.pxe)
    BY <2>1 DEF ReleaseIdentity!NotAhead, IdentityInv
  <2> QED
    BY <1>5, <2>1 DEF ReleaseIdentity!StageDate
<1>6. CASE ReleaseIdentity!RemotePaths
  <2>1. CASE ReleaseIdentity!Answer("pass", "identities_available", "available", "available")
             /\ ~ReleaseIdentity!Collides(probe.pxe)
    <3>1. UNCHANGED <<stageDate, bundles, everBuilt>> /\ verdict'.pxeDate = probe.pxe
          /\ probe' = ReleaseIdentity!NoProbe
      BY <2>1 DEF ReleaseIdentity!Answer, ReleaseIdentity!Terminal, ReleaseIdentity!World
    <3>2. ~probe.moved => probe.pxe \notin everBuilt
      BY <1>6, <2>1 DEF ReleaseIdentity!RemotePaths, IdentityInv, StartedShows
    <3> QED
      BY <3>1, <3>2, StartedStays
      DEF IdentityInv, ReleaseIdentity!FreshPass, ReleaseIdentity!NoProbe
  <2> QED
    BY <1>6, <2>1 DEF ReleaseIdentity!RemotePaths
<1>7. CASE ReleaseIdentity!Build
  <2>1. StartedShows'
    BY <1>7 DEF ReleaseIdentity!Build, IdentityInv, StartedShows, ReleaseIdentity!Collides
  <2> QED
    BY <1>7, <2>1
    DEF ReleaseIdentity!Build, ReleaseIdentity!Unprobed, IdentityInv, ReleaseIdentity!FreshPass
<1>8. CASE ReleaseIdentity!Adopt
  <2>1. stageDate' \in Nat /\ stageDate' > stageDate /\ UNCHANGED <<bundles, everBuilt>>
    BY <1>8 DEF ReleaseIdentity!Adopt, IdentityInv
  <2>2. StartedShows'
    BY <2>1 DEF StartedShows, ReleaseIdentity!Collides, IdentityInv
  <2> QED
    BY <1>8, <2>1, <2>2
    DEF ReleaseIdentity!Adopt, ReleaseIdentity!Unprobed, IdentityInv, ReleaseIdentity!FreshPass
<1>9. CASE ReleaseIdentity!Prune
  <2>1. \A d \in everBuilt : d > stageDate => \A p : <<d, p>> \in bundles => <<d, p>> \in bundles'
    BY <1>9 DEF ReleaseIdentity!Prune, IdentityInv
  <2>2. StartedShows'
    BY <1>9, <2>1 DEF ReleaseIdentity!Prune, IdentityInv, StartedShows, ReleaseIdentity!Collides
  <2> QED
    BY <1>9, <2>2
    DEF ReleaseIdentity!Prune, ReleaseIdentity!Unprobed, IdentityInv, ReleaseIdentity!FreshPass
<1> QED
  BY <1>1, <1>2, <1>3, <1>4, <1>5, <1>6, <1>7, <1>8, <1>9 DEF ReleaseIdentity!Next

\* rpi5_common_kernel_identity_status.py, pxe_release_identity_status.py: no step
\* passes a bundle date that a build was ever started for, whatever of it has
\* been removed, unless the inventory moved on while the probe was running.
THEOREM IdentityFreshOnPass == Spec => IdentityNeverReused
<1> DEFINE I == Is("ReleaseIdentity") => IdentityInv
<1>1. Init => I
  BY IdentityInitial DEF Init, Is
<1>2. I /\ [Next]_vars => I' /\ [Is("ReleaseIdentity") => ReleaseIdentity!FreshPass]_vars
  <2> SUFFICES ASSUME I, [Next]_vars
               PROVE  I' /\ [Is("ReleaseIdentity") => ReleaseIdentity!FreshPass]_vars
    OBVIOUS
  <2>1. CASE UNCHANGED vars
    BY <2>1 DEF vars, identityVars, Is, IdentityInv, StartedShows, ReleaseIdentity!Collides
  <2>2. CASE Next /\ Is("ReleaseIdentity")
    BY <2>2, IdentityStep DEF Next, Is
  <2>3. CASE Next /\ ~Is("ReleaseIdentity")
    BY <2>3 DEF Next, Others, Is
  <2> QED
    BY <2>1, <2>2, <2>3
<1> QED
  BY <1>1, <1>2, PTL DEF Spec, IdentityNeverReused
-----------------------------------------------------------------------------
(* K3sApply                                                                *)

RootNames == {Roots[i] : i \in 1 .. Len(Roots)}
BundleNames == Bundles \cup {NoReceipt}
Pair == [infra : BundleNames, site : BundleNames]

ApplyTypes ==
    /\ links \in Pair
    /\ machineUp.boot \in Nat /\ DOMAIN machineUp = {"boot", "clock", "up"}
    /\ apply \in [pc : {"idle", "site", "apply", "root", "receipt"}, bundle : Pair, root : Nat]
    /\ applied \in [RootNames -> [bundle : BundleNames, boot : Nat]]
    /\ DOMAIN reading = {"terraform", "helm"}
    /\ IsFiniteSet(secrets)

\* The root was applied from the bundle of the running script, in this boot.
AppliedNow(r) == applied[r] = [bundle |-> apply.bundle.infra, boot |-> machineUp.boot]

\* While a script applies there is no receipt, and the roots before its next one
\* have been applied from its bundle; a receipt that is there stands for all.
ApplyTrue ==
    /\ apply.pc \in {"idle", "site"} => apply.root = 1
    /\ apply.pc \in {"apply", "root"} => apply.root \in 1 .. Len(Roots)
    /\ apply.pc \in {"apply", "root", "receipt"} => receipt = NoReceipt
    /\ apply.pc \in {"apply", "root"} =>
          \A i \in 1 .. apply.root - 1 : AppliedNow(Roots[i]) \/ (apply.pc = "root" /\ Roots[i] = Roots[apply.root])
    /\ apply.pc = "root" => applied[Roots[apply.root]].boot = machineUp.boot
    /\ apply.pc = "receipt" => \A r \in RootNames : AppliedNow(r)
    /\ receipt # NoReceipt =>
          \A r \in RootNames : applied[r] = [bundle |-> receipt.bundle, boot |-> machineUp.boot]

ApplyInv == ApplyTypes /\ ApplyTrue /\ K3sApply!ObservationsTrue

LEMMA RootsAreNames == RootNames = K3sApply!Range(Roots) /\ Len(Roots) \in Nat \ {0}
  BY RootsAssumption DEF RootNames, K3sApply!Range

LEMMA ApplyInitial == K3sApply!Init => ApplyInv
<1> SUFFICES ASSUME K3sApply!Init PROVE ApplyInv
  OBVIOUS
<1>1. ApplyTypes
  BY FS_EmptySet, RootsAreNames
  DEF K3sApply!Init, K3sApply!Idle, ApplyTypes, Pair, BundleNames
<1>2. ApplyTrue /\ K3sApply!ObservationsTrue
  BY DEF K3sApply!Init, K3sApply!Idle, K3sApply!NoReading, ApplyTrue, K3sApply!ObservationsTrue
<1> QED
  BY <1>1, <1>2 DEF ApplyInv

\* What the probes have reported does not change with what they reported on.
LEMMA ObservationsStay == UNCHANGED reading /\ K3sApply!ObservationsTrue => K3sApply!ObservationsTrue'
  BY DEF K3sApply!ObservationsTrue

LEMMA ListIsTheSet ==
  ASSUME IsFiniteSet(secrets), NEW items \in K3sApply!Fetched
  PROVE  K3sApply!Range(items) = secrets
<1> DEFINE n == Cardinality(secrets)
<1>1. n \in Nat
  BY FS_CardinalityType
<1>2. K3sApply!Cardinality(secrets) = n
  BY Zenon DEF K3sApply!Cardinality, Cardinality
<1> HIDE DEF n
<1>3. items \in [1 .. n -> secrets] /\ \A i, j \in 1 .. n : i # j => items[i] # items[j]
  BY <1>2 DEF K3sApply!Fetched, K3sApply!SetToSeqs
<1>4. items \in Injection(1 .. n, secrets)
  BY <1>3 DEF Injection, IsInjective
<1>5. Cardinality(1 .. n) = n
  BY <1>1, FS_Interval
<1>6. items \in Surjection(1 .. n, secrets)
  BY <1>4, <1>5, FS_Injection, Zenon DEF n
<1> QED
  BY <1>3, <1>6 DEF Surjection, K3sApply!Range

LEMMA StartRootKeeps == ApplyInv /\ K3sApply!StartRoot => ApplyInv'
<1> SUFFICES ASSUME ApplyInv, K3sApply!StartRoot PROVE ApplyInv'
  OBVIOUS
<1> USE DEF ApplyInv
<1> DEFINE r == Roots[apply.root]
<1>1. apply.pc = "apply" /\ apply.root \in 1 .. Len(Roots) /\ r \in RootNames
  BY DEF K3sApply!StartRoot, ApplyTrue, RootNames
<1>2. K3sApply!ObservationsTrue' /\ UNCHANGED <<links, machineUp, receipt, reading>>
  BY ObservationsStay DEF K3sApply!StartRoot
<1>3. CASE apply' = K3sApply!Idle /\ UNCHANGED <<secrets, applied>>
  BY <1>1, <1>2, <1>3 DEF ApplyTypes, ApplyTrue, K3sApply!Idle, Pair, BundleNames
<1>4. ASSUME apply' = [apply EXCEPT !.pc = "root"], NEW new, secrets' = secrets \cup {new},
             applied' = [applied EXCEPT ![r] = [bundle |-> NoReceipt, boot |-> machineUp.boot]]
      PROVE  ApplyInv'
  <2>1. IsFiniteSet(secrets')
    BY <1>4, FS_AddElement DEF ApplyTypes
  <2>2. ApplyTypes'
    BY <1>1, <1>2, <1>4, <2>1 DEF ApplyTypes, BundleNames
  <2>3. receipt = NoReceipt
    BY <1>1 DEF ApplyTrue
  <2>4. ASSUME NEW i \in 1 .. apply.root - 1, Roots[i] # r PROVE AppliedNow(Roots[i])'
    BY <1>1, <1>2, <1>4, <2>4 DEF ApplyTrue, ApplyTypes, AppliedNow
  <2>5. apply'.pc = "root" /\ apply'.root = apply.root /\ applied'[r].boot = machineUp.boot
    BY <1>1, <1>4 DEF ApplyTypes
  <2> HIDE DEF r
  <2>6. ApplyTrue'
    BY <1>1, <1>2, <2>3, <2>4, <2>5 DEF ApplyTrue, r
  <2> QED
    BY <1>2, <2>2, <2>6
<1> QED
  BY <1>3, <1>4 DEF K3sApply!StartRoot

LEMMA EndRootKeeps ==
  ASSUME ApplyInv, NEW status \in {"deployed", "failed"}, K3sApply!EndRoot(status) PROVE ApplyInv'
<1> USE DEF ApplyInv
<1> DEFINE r == Roots[apply.root]
           revisions == K3sApply!Revisions(r)
           mine == CHOOSE s \in revisions : \A t \in revisions : t.revision <= s.revision
           settled(s) == IF s.status = "deployed" /\ status = "deployed"
                         THEN [s EXCEPT !.status = "superseded"] ELSE s
           rest == revisions \ {mine}
<1>1. apply.pc = "root" /\ apply.root \in 1 .. Len(Roots) /\ r \in RootNames /\ receipt = NoReceipt
  BY DEF K3sApply!EndRoot, ApplyTrue, RootNames
<1>2. K3sApply!ObservationsTrue' /\ UNCHANGED <<links, machineUp, receipt, reading>>
  BY ObservationsStay DEF K3sApply!EndRoot
<1>3. IsFiniteSet(secrets')
  <2>1. secrets' = {settled(s) : s \in rest} \cup {[mine EXCEPT !.status = status]}
                      \cup (secrets \ revisions)
    BY DEF K3sApply!EndRoot
  <2>2. rest \subseteq secrets
    BY DEF K3sApply!Revisions
  <2> HIDE DEF revisions, mine
  <2>3. IsFiniteSet(rest) /\ IsFiniteSet(secrets \ revisions)
    BY <2>2, FS_Subset, FS_Difference DEF ApplyTypes
  <2> DEFINE settle == [s \in rest |-> settled(s)]
  <2>4. settle \in Surjection(rest, {settled(s) : s \in rest})
    BY DEF Surjection
  <2> HIDE DEF settled, rest
  <2>5. IsFiniteSet({settled(s) : s \in rest})
    BY <2>3, <2>4, FS_Surjection, Zenon
  <2>6. IsFiniteSet({[mine EXCEPT !.status = status]})
    BY FS_Singleton
  <2> QED
    BY <2>1, <2>3, <2>5, <2>6, FS_Union
<1>4. CASE status = "failed"
  <2>1. apply' = K3sApply!Idle /\ UNCHANGED applied
    BY <1>4 DEF K3sApply!EndRoot
  <2> QED
    BY <1>1, <1>2, <1>3, <2>1 DEF ApplyTypes, ApplyTrue, K3sApply!Idle, Pair, BundleNames
<1>5. CASE status = "deployed"
  <2>1. applied' = [applied EXCEPT ![r] = [bundle |-> apply.bundle.infra, boot |-> machineUp.boot]]
    <3>1. applied' = [applied EXCEPT ![r].bundle = apply.bundle.infra]
      BY <1>5 DEF K3sApply!EndRoot
    <3>2. applied[r] \in [bundle : BundleNames, boot : Nat] /\ applied[r].boot = machineUp.boot
      BY <1>1 DEF ApplyTypes, ApplyTrue
    <3>3. [applied[r] EXCEPT !.bundle = apply.bundle.infra]
             = [bundle |-> apply.bundle.infra, boot |-> machineUp.boot]
      BY <3>2
    <3> QED
      BY <3>1, <3>3
  <2>2. apply' = IF apply.root < Len(Roots) THEN [apply EXCEPT !.pc = "apply", !.root = @ + 1]
                 ELSE [apply EXCEPT !.pc = "receipt"]
    BY <1>5 DEF K3sApply!EndRoot
  <2> HIDE DEF r
  <2>3. ApplyTypes'
    <3>1. apply.bundle.infra \in BundleNames /\ machineUp.boot \in Nat
      BY DEF ApplyTypes, Pair
    <3>2. applied' \in [RootNames -> [bundle : BundleNames, boot : Nat]]
      BY <1>1, <2>1, <3>1 DEF ApplyTypes
    <3>3. apply' \in [pc : {"idle", "site", "apply", "root", "receipt"}, bundle : Pair, root : Nat]
      <4>1. apply \in [pc : {"idle", "site", "apply", "root", "receipt"}, bundle : Pair, root : Nat]
            /\ apply.root + 1 \in Nat
        BY DEF ApplyTypes
      <4>2. CASE apply' = [apply EXCEPT !.pc = "apply", !.root = apply.root + 1]
        BY <4>1, <4>2
      <4>3. CASE apply' = [apply EXCEPT !.pc = "receipt"]
        BY <4>1, <4>3
      <4> QED
        BY <2>2, <4>2, <4>3
    <3> QED
      BY <1>2, <1>3, <3>2, <3>3 DEF ApplyTypes
  <2>4. apply'.bundle = apply.bundle /\ machineUp' = machineUp
    BY <1>2, <2>2 DEF ApplyTypes
  <2>5. ASSUME NEW i \in 1 .. apply.root PROVE AppliedNow(Roots[i])'
    <3>0. Roots[i] \in RootNames
      BY <1>1, RootsAreNames DEF RootNames
    <3>1. CASE Roots[i] = r
      BY <1>1, <2>1, <2>4, <3>1 DEF AppliedNow, ApplyTypes
    <3>2. CASE Roots[i] # r
      <4>1. AppliedNow(Roots[i])
        BY <1>1, <3>2 DEF ApplyTrue, r
      <4> QED
        BY <1>1, <2>1, <2>4, <3>0, <3>2, <4>1 DEF AppliedNow, ApplyTypes
    <3> QED
      BY <3>1, <3>2
  <2>6. CASE apply.root < Len(Roots)
    <3>1. apply'.pc = "apply" /\ apply'.root = apply.root + 1
      BY <2>2, <2>6 DEF ApplyTypes
    <3>2. apply'.root \in 1 .. Len(Roots) /\ \A i \in 1 .. apply'.root - 1 : AppliedNow(Roots[i])'
      BY <1>1, <2>5, <2>6, <3>1, RootsAreNames
    <3>3. receipt' = NoReceipt
      BY <1>1, <1>2
    <3>4. apply'.pc = "apply"
      BY <3>1
    <3>5. ApplyTrue'
      BY <3>2, <3>3, <3>4 DEF ApplyTrue
    <3> QED
      BY <1>2, <2>3, <3>5
  <2>7. CASE ~(apply.root < Len(Roots))
    <3>1. apply'.pc = "receipt" /\ apply.root = Len(Roots)
      BY <1>1, <2>2, <2>7, RootsAreNames DEF ApplyTypes
    <3> QED
      BY <1>1, <1>2, <2>3, <2>5, <3>1 DEF ApplyTrue, RootNames
  <2> QED
    BY <2>6, <2>7
<1> QED
  BY <1>4, <1>5

LEMMA ApplyStep == ApplyInv /\ K3sApply!Next => ApplyInv'
<1> SUFFICES ASSUME ApplyInv, K3sApply!Next PROVE ApplyInv'
  OBVIOUS
<1> USE ObservationsStay DEF ApplyInv, Pair, BundleNames
<1>1. ASSUME NEW part \in {"infra", "site"}, NEW b \in Bundles, K3sApply!Stage(part, b) PROVE ApplyInv'
  BY <1>1 DEF K3sApply!Stage, ApplyTypes, ApplyTrue, AppliedNow
<1>2. CASE K3sApply!Tick
  BY <1>2 DEF K3sApply!Tick, ApplyTypes, ApplyTrue, AppliedNow
<1>3. CASE K3sApply!Reboot
  <2>1. K3sApply!ObservationsTrue'
    BY <1>3 DEF K3sApply!Reboot, K3sApply!ObservationsTrue, K3sApply!NoReading
  <2> QED
    BY <1>3, <2>1 DEF K3sApply!Reboot, ApplyTypes, ApplyTrue, K3sApply!Idle
<1>4. CASE K3sApply!ReadInfraLink
  BY <1>4 DEF K3sApply!ReadInfraLink, ApplyTypes, ApplyTrue, AppliedNow
<1>5. CASE K3sApply!CheckBundle
  <2> DEFINE pair == [infra |-> apply.bundle.infra, site |-> links.site]
  <2>1. UNCHANGED <<links, machineUp, receipt, secrets, applied, reading>>
    BY <1>5 DEF K3sApply!CheckBundle
  <2>2. apply.root = 1 /\ pair \in Pair
    BY <1>5 DEF K3sApply!CheckBundle, ApplyTypes, ApplyTrue
  <2> HIDE DEF pair
  <2>3. CASE apply' = K3sApply!Idle
    BY <2>1, <2>3 DEF K3sApply!Idle, ApplyTypes, ApplyTrue
  <2>4. CASE apply' = [apply EXCEPT !.pc = "apply", !.bundle = pair] /\ receipt = NoReceipt
    <3>1. apply' \in [pc : {"idle", "site", "apply", "root", "receipt"}, bundle : Pair, root : Nat]
          /\ apply'.pc = "apply" /\ apply'.root = 1
      BY <2>2, <2>4 DEF ApplyTypes
    <3>2. ApplyTypes'
      BY <2>1, <3>1 DEF ApplyTypes
    <3>3. 1 \in 1 .. Len(Roots) /\ 1 .. 1 - 1 = {}
      BY RootsAreNames
    <3>4. ApplyTrue'
      BY <2>1, <2>4, <3>1, <3>3 DEF ApplyTrue
    <3> QED
      BY <2>1, <3>2, <3>4
  <2> QED
    BY <1>5, <2>3, <2>4 DEF K3sApply!CheckBundle, K3sApply!ReceiptBars, pair
<1>6. CASE K3sApply!StartRoot
  BY <1>6, StartRootKeeps
<1>7. CASE K3sApply!WriteReceipt
  BY <1>7 DEF K3sApply!WriteReceipt, K3sApply!Idle, ApplyTypes, ApplyTrue, AppliedNow
<1>8. ASSUME NEW status \in {"deployed", "failed"}, K3sApply!EndRoot(status) PROVE ApplyInv'
  BY <1>8, EndRootKeeps
<1>9. CASE K3sApply!ReadTerraform
  <2>1. UNCHANGED <<links, machineUp, receipt, apply, secrets, applied>>
    BY <1>9 DEF K3sApply!ReadTerraform
  <2>2. ApplyTypes' /\ ApplyTrue'
    BY <1>9, <2>1 DEF K3sApply!ReadTerraform, ApplyTypes, ApplyTrue, AppliedNow
  <2>3. reading'.helm = reading.helm
        /\ reading'.terraform = IF K3sApply!ReceiptAccepted
             THEN [status |-> "partial", bundle |-> receipt.bundle, boot |-> machineUp.boot, then |-> applied]
             ELSE K3sApply!NoReading
    BY <1>9 DEF K3sApply!ReadTerraform, ApplyTypes
  <2>4. K3sApply!ReceiptAccepted => \A r \in K3sApply!Range(Roots) :
            applied[r] = [bundle |-> receipt.bundle, boot |-> machineUp.boot]
    BY RootsAreNames DEF K3sApply!ReceiptAccepted, ApplyTrue
  <2>5. K3sApply!ObservationsTrue'
    BY <2>3, <2>4 DEF K3sApply!ObservationsTrue, K3sApply!NoReading
  <2> QED
    BY <2>2, <2>5
<1>10. CASE K3sApply!ReadHelm
  <2>1. UNCHANGED <<links, machineUp, receipt, apply, secrets, applied>>
    BY <1>10 DEF K3sApply!ReadHelm
  <2>2. ApplyTypes' /\ ApplyTrue'
    BY <1>10, <2>1 DEF K3sApply!ReadHelm, ApplyTypes, ApplyTrue, AppliedNow
  <2>3. CASE reading' = [reading EXCEPT !.helm = K3sApply!NoReading]
    BY <2>2, <2>3 DEF K3sApply!ObservationsTrue, K3sApply!NoReading, ApplyTypes
  <2>4. ASSUME NEW items \in K3sApply!Fetched, NEW failed,
               reading' = [reading EXCEPT !.helm =
                 [status |-> "partial", boot |-> machineUp.boot, releases |-> K3sApply!Latest(items),
                  failed |-> failed,
                  pending |-> K3sApply!Cardinality({i \in K3sApply!Latest(items) : i.status = "pending"}),
                  then |-> secrets]]
        PROVE  ApplyInv'
    <3> DEFINE newest == {s \in secrets : \A t \in secrets : t.release = s.release => t.revision <= s.revision}
    <3>1. K3sApply!Range(items) = secrets
      BY ListIsTheSet DEF ApplyTypes
    <3>2. K3sApply!Latest(items) = newest
      BY <3>1 DEF K3sApply!Latest
    <3> HIDE DEF newest
    <3>3. reading'.terraform = reading.terraform
          /\ reading'.helm.status = "partial" /\ reading'.helm.then = secrets
          /\ reading'.helm.releases = newest
          /\ reading'.helm.pending = K3sApply!Cardinality({i \in newest : i.status = "pending"})
      BY <2>4, <3>2 DEF ApplyTypes
    <3>4. K3sApply!ObservationsTrue'
      BY <3>3 DEF K3sApply!ObservationsTrue, newest
    <3> QED
      BY <2>2, <3>4
  <2> QED
    BY <1>10, <2>3, <2>4 DEF K3sApply!ReadHelm
<1> QED
  BY <1>1, <1>2, <1>3, <1>4, <1>5, <1>6, <1>7, <1>8, <1>9, <1>10 DEF K3sApply!Next

\* k3s_terraform_apply_receipt_status.py, k3s_helm_metadata_status.py: what the
\* probes report was applied in this boot, all of it and from the bundle named,
\* and each release with its newest revision, for any bundles, roots, reboots
\* and releases staged while a script runs.
THEOREM ApplyObservationsTrue == Spec => []ObservationsTrue
<1> DEFINE I == Is("K3sApply") => ApplyInv
<1>1. Init => I
  BY ApplyInitial DEF Init, Is
<1>2. I /\ [Next]_vars => I'
  <2> SUFFICES ASSUME I, [Next]_vars, Is("K3sApply")' PROVE ApplyInv'
    OBVIOUS
  <2>1. CASE UNCHANGED vars
    BY <2>1, ObservationsStay
    DEF vars, applyVars, Is, ApplyInv, ApplyTypes, ApplyTrue, AppliedNow
  <2>2. CASE Next
    BY <2>2, ApplyStep DEF Next, Others, Is
  <2> QED
    BY <2>1, <2>2
<1>3. I => ObservationsTrue
  BY DEF ApplyInv, ObservationsTrue
<1> QED
  BY <1>1, <1>2, <1>3, PTL DEF Spec

-----------------------------------------------------------------------------
(* SqliteBackup                                                            *)

BackupSteps == {"idle", "snapshot", "token", "mounts", "create", "encrypt", "recheck", "publish"}
Since == flips - backup.since

\* The file system that the partial file lies on is whatever was mounted, so
\* only the fields of the invocation that are counted are typed.
BackupTypes ==
    /\ db \in Nat /\ token \in Nat /\ flips \in Nat
    /\ DOMAIN backup = {"pc", "id", "token", "db", "fs", "since"}
    /\ backup.pc \in BackupSteps
    /\ backup.token \in Nat /\ backup.since \in Nat
    /\ backup.token <= token /\ backup.since <= flips

\* The database of the archive was in force with a token between the one read
\* first and the one in force now, so with the first when the two are the same.
TokenBetween ==
    /\ <<db, token>> \in coexisted
    /\ backup.pc = "token" =>
          \E t \in Nat : <<backup.db, t>> \in coexisted /\ backup.token <= t /\ t <= token
    /\ backup.pc \in {"mounts", "create", "encrypt", "recheck", "publish"} =>
          <<backup.db, backup.token>> \in coexisted

\* How many mount changes the invocation must have seen for the partial file to
\* lie elsewhere, and for the expected mount to be back, or away again.
ChangesSeen ==
    /\ backup.pc = "create" /\ SqliteBackup!mounted # "expected" => Since >= 1
    /\ backup.pc \in {"encrypt", "recheck"} /\ backup.fs # "expected" =>
          Since >= 1 /\ (SqliteBackup!mounted = "expected" => Since >= 2)
    /\ backup.pc = "publish" /\ backup.fs # "expected" =>
          Since >= 2 /\ (SqliteBackup!mounted # "expected" => Since >= 3)

BackupInv == BackupTypes /\ TokenBetween /\ ChangesSeen /\ SqliteBackup!ArchiveUsable

LEMMA BackupInitial == SqliteBackup!Init => BackupInv
  BY DEF SqliteBackup!Init, SqliteBackup!Idle, BackupInv, BackupTypes, BackupSteps, TokenBetween,
         ChangesSeen, Since, SqliteBackup!ArchiveUsable, SqliteBackup!PublishedOnMount,
         SqliteBackup!ArchiveConsistent

LEMMA MountedStays == UNCHANGED mounts => UNCHANGED SqliteBackup!mounted
  BY DEF SqliteBackup!mounted, SqliteBackup!Effective

\* What is stored stays usable when files of other kinds come and go.
LEMMA StoredStays ==
  ASSUME SqliteBackup!ArchiveUsable, coexisted \subseteq coexisted',
         \A f \in stored' : f \in stored \/ f.kind # "finished"
  PROVE  SqliteBackup!ArchiveUsable'
  BY DEF SqliteBackup!ArchiveUsable, SqliteBackup!PublishedOnMount, SqliteBackup!ArchiveConsistent

LEMMA BackupStep == BackupInv /\ SqliteBackup!Next => BackupInv'
<1> SUFFICES ASSUME BackupInv, SqliteBackup!Next PROVE BackupInv'
  OBVIOUS
<1> USE MountedStays DEF BackupInv
<1>1. CASE SqliteBackup!Server
  <2>1. SqliteBackup!ArchiveUsable'
    BY <1>1, StoredStays DEF SqliteBackup!Server
  <2> QED
    BY <1>1, <2>1 DEF SqliteBackup!Server, BackupTypes, TokenBetween, ChangesSeen, Since
<1>2. CASE SqliteBackup!Mount
  <2>1. SqliteBackup!ArchiveUsable'
    BY <1>2, StoredStays DEF SqliteBackup!Mount
  <2>2. UNCHANGED <<db, token, coexisted, backup>> /\ flips' = flips + 1
    BY <1>2 DEF SqliteBackup!Mount
  <2> QED
    BY <2>1, <2>2 DEF BackupTypes, TokenBetween, ChangesSeen, Since, BackupSteps
<1>3. CASE SqliteBackup!Begin
  <2>1. SqliteBackup!ArchiveUsable'
    BY <1>3, StoredStays DEF SqliteBackup!Begin, SqliteBackup!At
  <2>2. backup' = [pc |-> "snapshot", id |-> backup.id + 1, token |-> token, db |-> 0,
                   fs |-> "expected", since |-> flips]
    BY <1>3 DEF SqliteBackup!Begin, SqliteBackup!Idle
  <2>3. UNCHANGED <<db, token, flips, coexisted>>
    BY <1>3 DEF SqliteBackup!Begin, SqliteBackup!At
  <2> QED
    BY <2>1, <2>2, <2>3 DEF BackupTypes, BackupSteps, TokenBetween, ChangesSeen
<1>4. CASE SqliteBackup!SnapshotSqlite
  <2>1. SqliteBackup!ArchiveUsable'
    BY <1>4, StoredStays DEF SqliteBackup!SnapshotSqlite, SqliteBackup!At
  <2> QED
    BY <1>4, <2>1 DEF SqliteBackup!SnapshotSqlite, SqliteBackup!At, BackupTypes,
       BackupSteps, TokenBetween, ChangesSeen
<1>5. CASE SqliteBackup!TokenUnchanged
  <2>1. SqliteBackup!ArchiveUsable'
    BY <1>5, StoredStays DEF SqliteBackup!TokenUnchanged, SqliteBackup!At
  <2>2. backup.pc = "token" /\ backup' = [backup EXCEPT !.pc = "mounts"]
        /\ UNCHANGED <<db, token, flips, coexisted>>
    BY <1>5 DEF SqliteBackup!TokenUnchanged, SqliteBackup!At, SqliteBackup!Goto
  <2>3. <<backup.db, backup.token>> \in coexisted
    <3>1. PICK t \in Nat : <<backup.db, t>> \in coexisted /\ backup.token <= t /\ t <= token
      BY <2>2 DEF TokenBetween
    <3>2. t = backup.token
      BY <1>5, <3>1 DEF SqliteBackup!TokenUnchanged, BackupTypes
    <3> QED
      BY <3>1, <3>2
  <2> QED
    BY <2>1, <2>2, <2>3 DEF BackupTypes, BackupSteps, TokenBetween, ChangesSeen
<1>6. CASE SqliteBackup!CheckMounts("mounts", "create")
  <2>1. SqliteBackup!ArchiveUsable'
    BY <1>6, StoredStays DEF SqliteBackup!CheckMounts, SqliteBackup!At
  <2> QED
    BY <1>6, <2>1 DEF SqliteBackup!CheckMounts, SqliteBackup!MountsValid, SqliteBackup!At,
       SqliteBackup!Goto, BackupTypes, BackupSteps, TokenBetween, ChangesSeen
<1>7. CASE SqliteBackup!CreatePartial
  <2>1. SqliteBackup!ArchiveUsable'
    BY <1>7, StoredStays DEF SqliteBackup!CreatePartial, SqliteBackup!At, SqliteBackup!File
  <2> QED
    BY <1>7, <2>1 DEF SqliteBackup!CreatePartial, SqliteBackup!At, BackupTypes, BackupSteps,
       TokenBetween, ChangesSeen, Since
<1>8. CASE SqliteBackup!Encrypt
  <2>1. SqliteBackup!ArchiveUsable'
    BY <1>8, StoredStays DEF SqliteBackup!Encrypt, SqliteBackup!At
  <2> QED
    BY <1>8, <2>1 DEF SqliteBackup!Encrypt, SqliteBackup!At, SqliteBackup!Goto, BackupTypes,
       BackupSteps, TokenBetween, ChangesSeen, Since
<1>9. CASE SqliteBackup!CheckMounts("recheck", "publish")
  <2>1. SqliteBackup!ArchiveUsable'
    BY <1>9, StoredStays DEF SqliteBackup!CheckMounts, SqliteBackup!At
  <2> QED
    BY <1>9, <2>1 DEF SqliteBackup!CheckMounts, SqliteBackup!MountsValid, SqliteBackup!At,
       SqliteBackup!Goto, BackupTypes, BackupSteps, TokenBetween, ChangesSeen, Since
<1>10. CASE SqliteBackup!Publish
  <2> DEFINE done == SqliteBackup!File("finished", backup, SqliteBackup!mounted)
  <2>1. done.changes = Since /\ done.fs = SqliteBackup!mounted /\ done.db = backup.db
        /\ done.token = backup.token
    BY DEF SqliteBackup!File, Since
  <2>2. done.changes < 3 => done.fs = "expected"
    BY <1>10, <2>1 DEF SqliteBackup!Publish, SqliteBackup!At, ChangesSeen, BackupTypes, Since
  <2>3. <<done.db, done.token>> \in coexisted
    BY <1>10, <2>1 DEF SqliteBackup!Publish, SqliteBackup!At, TokenBetween
  <2>4. \A f \in stored' : f \in stored \/ f = done
    BY <1>10 DEF SqliteBackup!Publish
  <2> HIDE DEF done
  <2>5. SqliteBackup!ArchiveUsable'
    BY <1>10, <2>2, <2>3, <2>4
    DEF SqliteBackup!Publish, SqliteBackup!At, SqliteBackup!ArchiveUsable,
        SqliteBackup!PublishedOnMount, SqliteBackup!ArchiveConsistent
  <2> QED
    BY <1>10, <2>5 DEF SqliteBackup!Publish, SqliteBackup!At, SqliteBackup!Idle, BackupTypes,
       BackupSteps, TokenBetween, ChangesSeen
<1>11. CASE SqliteBackup!Fails
  <2>1. SqliteBackup!ArchiveUsable'
    BY <1>11, StoredStays DEF SqliteBackup!Fails
  <2> QED
    BY <1>11, <2>1 DEF SqliteBackup!Fails, SqliteBackup!Idle, BackupTypes, BackupSteps,
       TokenBetween, ChangesSeen
<1>12. CASE SqliteBackup!Killed
  <2>1. SqliteBackup!ArchiveUsable'
    BY <1>12, StoredStays DEF SqliteBackup!Killed
  <2> QED
    BY <1>12, <2>1 DEF SqliteBackup!Killed, SqliteBackup!Idle, BackupTypes, BackupSteps,
       TokenBetween, ChangesSeen
<1> QED
  BY <1>1, <1>2, <1>3, <1>4, <1>5, <1>6, <1>7, <1>8, <1>9, <1>10, <1>11, <1>12
  DEF SqliteBackup!Next

\* k3s_sqlite_backup.py: every finished archive lies on the expected mount, unless
\* the mounts changed three times within one backup, and its database and token
\* were in force together, for any number of writes, rotations, mounts, failures
\* and backups.
THEOREM BackupArchiveUsable == Spec => []ArchiveUsable
<1> DEFINE I == Is("SqliteBackup") => BackupInv
<1>1. Init => I
  BY BackupInitial DEF Init, Is
<1>2. I /\ [Next]_vars => I'
  <2> SUFFICES ASSUME I, [Next]_vars, Is("SqliteBackup")' PROVE BackupInv'
    OBVIOUS
  <2>1. CASE UNCHANGED vars
    BY <2>1, MountedStays, StoredStays
    DEF vars, sqliteVars, Is, BackupInv, BackupTypes, BackupSteps, TokenBetween, ChangesSeen, Since
  <2>2. CASE Next
    BY <2>2, BackupStep DEF Next, Others, Is
  <2> QED
    BY <2>1, <2>2
<1>3. I => ArchiveUsable
  BY DEF BackupInv, ArchiveUsable
<1> QED
  BY <1>1, <1>2, <1>3, PTL DEF Spec
-----------------------------------------------------------------------------
(* NasSmart                                                                *)

Entry == [disk_id : Disks, raw : Nat, seen : Nat, increments : Nat, base : Nat]

\* A sum that is true: it is covered by the growth between its base and the
\* last reading, and what the disk reports above that reading has grown since.
EntryTrue(e) ==
    /\ e.seen <= grown[e.disk_id]
    /\ raw[e.disk_id] - e.raw <= grown[e.disk_id] - e.seen
    /\ e.increments <= e.seen - e.base
    /\ swaps = 0 => e.raw = e.seen /\ e.increments = e.seen - e.base
StateTrue(state) == state \in [Bays -> Entry] /\ \A b \in Bays : EntryTrue(state[b])
NotAhead(a, b) == \A bay \in Bays : a[bay].disk_id = b[bay].disk_id
                                        => a[bay].increments <= b[bay].increments

NasTypes ==
    /\ inBay \in [Bays -> Disks] /\ raw \in [Disks -> Nat] /\ grown \in [Disks -> Nat]
    /\ swaps \in Nat /\ (swaps = 0 => raw = grown)

\* The running poll stands on the file it has loaded, and its candidate adds to it.
PollTrue ==
    /\ DOMAIN poll = {"pc", "previous", "candidate"} /\ DOMAIN memory = {"state", "success"}
    /\ poll.pc \in {"idle", "fetch", "save", "done"}
    /\ poll.pc \in {"fetch", "save"} => poll.previous = smartFile
    /\ poll.pc \in {"fetch", "save", "done"} => memory.state = poll.previous
    /\ poll.pc \in {"save", "done"} =>
          StateTrue(poll.candidate) /\ (poll.previous # NoState => NotAhead(poll.previous, poll.candidate))
    /\ poll.pc = "done" => smartFile = poll.candidate

SmartInv ==
    /\ NasTypes
    /\ PollTrue
    /\ smartFile = NoState \/ StateTrue(smartFile)
    /\ NasSmart!Exported # NoState => NotAhead(NasSmart!Exported, smartFile)

LEMMA SmartInitial == NasSmart!Init => SmartInv
  BY DEF NasSmart!Init, SmartInv, NasTypes, PollTrue, NasSmart!Exported

LEMMA SmartImplies == SmartInv => NasSmart!IncrementsTrue
  BY DEF SmartInv, StateTrue, EntryTrue, NotAhead, NasSmart!IncrementsTrue

\* What the NAS does between two readings makes no sum untrue.
LEMMA EntryStays ==
  ASSUME NasTypes, NasSmart!Nas, NEW e \in Entry, EntryTrue(e) PROVE EntryTrue(e)'
<1>1. ASSUME NEW d \in Disks, NasSmart!Grow(d) PROVE EntryTrue(e)'
  BY <1>1 DEF NasSmart!Grow, NasTypes, Entry, EntryTrue
<1>2. ASSUME NEW d \in Disks, NasSmart!Reset(d) PROVE EntryTrue(e)'
  BY <1>2 DEF NasSmart!Reset, NasTypes, Entry, EntryTrue
<1>3. ASSUME NEW b \in Bays, NEW d \in Disks, NasSmart!Swap(b, d) PROVE EntryTrue(e)'
  BY <1>3 DEF NasSmart!Swap, NasTypes, Entry, EntryTrue
<1> QED
  BY <1>1, <1>2, <1>3 DEF NasSmart!Nas

LEMMA StateStays ==
  ASSUME NasTypes, NasSmart!Nas, NEW state, StateTrue(state) PROVE StateTrue(state)'
  BY EntryStays DEF StateTrue

\* Advance adds what a disk has grown since to the sum of the same disk.
LEMMA AdvanceTrue ==
  ASSUME NasTypes, NEW old, old = NoState \/ StateTrue(old)
  PROVE  LET new == NasSmart!Advance(old, NasSmart!Snapshot)
         IN  StateTrue(new) /\ (old # NoState => NotAhead(old, new))
<1> DEFINE new == NasSmart!Advance(old, NasSmart!Snapshot)
<1>1. ASSUME NEW b \in Bays, old # NoState, old[b].disk_id = inBay[b]
      PROVE  /\ new[b] \in Entry /\ EntryTrue(new[b])
             /\ old[b].increments <= new[b].increments
  <2> DEFINE more == IF raw[inBay[b]] > old[b].raw THEN raw[inBay[b]] - old[b].raw ELSE 0
  <2>1. new[b] = [disk_id |-> inBay[b], raw |-> raw[inBay[b]], seen |-> grown[inBay[b]],
                  increments |-> old[b].increments + more, base |-> old[b].base]
    BY <1>1 DEF NasSmart!Advance, NasSmart!Snapshot
  <2>2. old[b] \in Entry /\ EntryTrue(old[b])
    BY <1>1 DEF StateTrue
  <2>3. inBay[b] \in Disks /\ raw[inBay[b]] \in Nat /\ grown[inBay[b]] \in Nat
    BY DEF NasTypes
  <2>4. /\ more \in Nat /\ more <= grown[inBay[b]] - old[b].seen
        /\ swaps = 0 => more = grown[inBay[b]] - old[b].seen
    BY <1>1, <2>2, <2>3 DEF EntryTrue, Entry, NasTypes
  <2> HIDE DEF more, new
  <2> QED
    BY <1>1, <2>1, <2>2, <2>3, <2>4 DEF EntryTrue, Entry, NasTypes
<1>2. ASSUME NEW b \in Bays, ~(old # NoState /\ old[b].disk_id = inBay[b])
      PROVE  new[b] \in Entry /\ EntryTrue(new[b])
  <2>1. new[b] = [disk_id |-> inBay[b], raw |-> raw[inBay[b]], seen |-> grown[inBay[b]],
                  increments |-> 0, base |-> grown[inBay[b]]]
    BY <1>2 DEF NasSmart!Advance, NasSmart!Snapshot
  <2>2. inBay[b] \in Disks /\ raw[inBay[b]] \in Nat /\ grown[inBay[b]] \in Nat
    BY DEF NasTypes
  <2> HIDE DEF new
  <2> QED
    BY <2>1, <2>2 DEF EntryTrue, Entry, NasTypes
<1>3. new = [b \in Bays |-> new[b]] /\ \A b \in Bays : new[b].disk_id = inBay[b]
  BY DEF NasSmart!Advance, NasSmart!Snapshot
<1> HIDE DEF new
<1>4. StateTrue(new)
  BY <1>1, <1>2, <1>3 DEF StateTrue
<1>5. old # NoState => NotAhead(old, new)
  BY <1>1, <1>3 DEF NotAhead
<1> QED
  BY <1>4, <1>5 DEF new

LEMMA SmartStep == SmartInv /\ NasSmart!Next => SmartInv'
<1> SUFFICES ASSUME SmartInv, NasSmart!Next PROVE SmartInv'
  OBVIOUS
<1> USE DEF SmartInv
<1>1. CASE NasSmart!Nas
  <2>1. NasTypes'
    BY <1>1 DEF NasSmart!Nas, NasTypes, NasSmart!Grow, NasSmart!Reset, NasSmart!Swap
  <2>2. UNCHANGED <<smartFile, memory, poll>>
    BY <1>1 DEF NasSmart!Nas
  <2> QED
    BY <1>1, <2>1, <2>2, StateStays DEF PollTrue, NotAhead, NasSmart!Exported
<1>2. CASE UNCHANGED <<inBay, raw, grown, swaps>>
  <2>1. NasTypes'
    BY <1>2 DEF NasTypes
  <2>2. \A state : StateTrue(state) => StateTrue(state)'
    BY <1>2 DEF StateTrue, EntryTrue
  <2>3. smartFile # NoState => NotAhead(smartFile, smartFile)
    BY DEF NotAhead, StateTrue, Entry
  <2>4. CASE NasSmart!Load
    <3>1. CASE /\ poll' = [poll EXCEPT !.pc = "fetch", !.previous = smartFile]
               /\ memory' = [memory EXCEPT !.state = smartFile]
      <4>1. PollTrue'
        BY <2>4, <3>1 DEF NasSmart!Load, PollTrue
      <4>2. UNCHANGED smartFile /\ NasSmart!Exported' \in {NoState, smartFile}
        BY <2>4, <3>1 DEF NasSmart!Load, NasSmart!Exported, PollTrue
      <4> QED
        BY <2>1, <2>2, <2>3, <4>1, <4>2
    <3>2. CASE NasSmart!Failed /\ NasSmart!Quiet
      <4>1. UNCHANGED smartFile /\ PollTrue' /\ NasSmart!Exported' = NoState
        BY <2>4, <3>2 DEF NasSmart!Load, NasSmart!Failed, NasSmart!Quiet, PollTrue, NasSmart!Exported
      <4> QED
        BY <2>1, <2>2, <4>1
    <3> QED
      BY <2>4, <3>1, <3>2 DEF NasSmart!Load
  <2>5. CASE NasSmart!Fetch
    <3>1. CASE /\ poll' = [poll EXCEPT !.pc = "save",
                                       !.candidate = NasSmart!Advance(poll.previous, NasSmart!Snapshot)]
               /\ UNCHANGED memory
      <4> DEFINE new == NasSmart!Advance(poll.previous, NasSmart!Snapshot)
      <4>1. poll.previous = smartFile
        BY <2>5 DEF NasSmart!Fetch, PollTrue
      <4>2. StateTrue(new) /\ (poll.previous # NoState => NotAhead(poll.previous, new))
        BY <4>1, AdvanceTrue
      <4> HIDE DEF new
      <4>3. poll' = [poll EXCEPT !.pc = "save", !.candidate = new] /\ UNCHANGED <<smartFile, memory>>
        BY <2>5, <3>1 DEF NasSmart!Fetch, new
      <4>4. StateTrue(poll.candidate)'
        BY <2>2, <4>2, <4>3 DEF PollTrue
      <4>5. PollTrue'
        BY <2>5, <4>1, <4>2, <4>3, <4>4 DEF NasSmart!Fetch, PollTrue, NotAhead
      <4> QED
        BY <2>1, <2>2, <4>3, <4>5 DEF NasSmart!Exported
    <3>2. CASE NasSmart!Failed /\ NasSmart!Quiet
      <4>1. UNCHANGED smartFile /\ PollTrue' /\ NasSmart!Exported' = NoState
        BY <2>5, <3>2 DEF NasSmart!Fetch, NasSmart!Failed, NasSmart!Quiet, PollTrue, NasSmart!Exported
      <4> QED
        BY <2>1, <2>2, <4>1
    <3> QED
      BY <2>5, <3>1, <3>2 DEF NasSmart!Fetch
  <2>6. CASE NasSmart!Save
    <3>1. CASE smartFile' = poll.candidate /\ poll' = [poll EXCEPT !.pc = "done"] /\ UNCHANGED memory
      <4>1. PollTrue'
        BY <2>2, <2>6, <3>1 DEF NasSmart!Save, PollTrue, NotAhead
      <4>2. StateTrue(smartFile)'
        BY <2>2, <2>6, <3>1 DEF NasSmart!Save, PollTrue
      <4>3. NasSmart!Exported # NoState => NotAhead(NasSmart!Exported, smartFile')
        BY <2>6, <3>1 DEF NasSmart!Save, PollTrue, NasSmart!Exported
      <4> QED
        BY <2>1, <3>1, <4>1, <4>2, <4>3 DEF NasSmart!Exported, NotAhead
    <3>2. CASE smartFile' \in {smartFile, poll.candidate} /\ NasSmart!Failed /\ NasSmart!Quiet
      <4>1. smartFile' = NoState \/ StateTrue(smartFile)'
        BY <2>2, <2>6, <3>2 DEF NasSmart!Save, PollTrue
      <4>2. PollTrue' /\ NasSmart!Exported' = NoState
        BY <3>2 DEF NasSmart!Failed, NasSmart!Quiet, PollTrue, NasSmart!Exported
      <4> QED
        BY <2>1, <4>1, <4>2
    <3> QED
      BY <2>6, <3>1, <3>2 DEF NasSmart!Save
  <2>7. CASE NasSmart!Done
    <3>1. PollTrue'
      BY <2>7 DEF NasSmart!Done, NasSmart!Quiet, PollTrue
    <3>2. smartFile' = smartFile /\ StateTrue(smartFile) /\ NasSmart!Exported' = smartFile
      BY <2>7 DEF NasSmart!Done, PollTrue, NasSmart!Exported
    <3>3. NotAhead(smartFile, smartFile)
      BY <3>2 DEF NotAhead, StateTrue, Entry
    <3> QED
      BY <2>1, <2>2, <3>1, <3>2, <3>3 DEF NotAhead
  <2>8. CASE NasSmart!Restart
    BY <2>1, <2>2, <2>3, <2>8
    DEF NasSmart!Restart, NasSmart!Quiet, PollTrue, NotAhead, NasSmart!Exported
  <2> QED
    BY <1>1, <2>4, <2>5, <2>6, <2>7, <2>8 DEF NasSmart!Next
<1> QED
  BY <1>1, <1>2
  DEF NasSmart!Next, NasSmart!Load, NasSmart!Fetch, NasSmart!Save, NasSmart!Done, NasSmart!Restart,
      NasSmart!nas

\* nas_smart.py: the sums in the state file never exceed what the disk's counter
\* grew, are exactly that while no disk is changed and no counter reset, and what
\* is exported is never ahead of the file, for any bays, disks, failed saves and
\* restarts.
THEOREM SmartIncrementsTrue == Spec => []IncrementsTrue
<1> DEFINE I == Is("NasSmart") => SmartInv
<1>1. Init => I
  BY SmartInitial DEF Init, Is
<1>2. I /\ [Next]_vars => I'
  <2> SUFFICES ASSUME I, [Next]_vars, Is("NasSmart")' PROVE SmartInv'
    OBVIOUS
  <2>1. CASE UNCHANGED vars
    BY <2>1
    DEF vars, smartVars, Is, SmartInv, NasTypes, PollTrue, StateTrue, EntryTrue, NotAhead,
        NasSmart!Exported
  <2>2. CASE Next
    BY <2>2, SmartStep DEF Next, Others, Is
  <2> QED
    BY <2>1, <2>2
<1>3. I => IncrementsTrue
  BY SmartImplies DEF IncrementsTrue
<1> QED
  BY <1>1, <1>2, <1>3, PTL DEF Spec
-----------------------------------------------------------------------------
(* BuildCleanup                                                            *)

\* A set of numbers that is not empty has a least one.
LEMMA NatLeast ==
  ASSUME NEW T \in SUBSET Nat, T # {} PROVE \E x \in T : \A y \in T : x <= y
<1> DEFINE R == {p \in Nat \X Nat : p[1] < p[2]}
<1>1. R = OpToRel(<, Nat)
  BY DEF OpToRel
<1>2. IsWellFoundedOn(R, Nat)
  BY <1>1, NatLessThanWellFounded, Zenon
<1>3. T \subseteq Nat
  OBVIOUS
<1> HIDE DEF R
<1>4. \E x \in T : \A y \in T : <<y, x>> \notin R
  BY <1>2, <1>3, WFMin, Zenon
<1>5. PICK x \in T : \A y \in T : <<y, x>> \notin R
  BY <1>4
<1>6. ASSUME NEW y \in T PROVE x <= y
  <2>1. <<y, x>> \notin R
    BY <1>5
  <2>2. ~ (y < x)
    BY <2>1 DEF R
  <2> QED
    BY <2>2
<1> QED
  BY <1>5, <1>6

LEMMA LeastLabel ==
  ASSUME NEW T \in SUBSET Nat, T # {}
  PROVE  BuildCleanup!Min(T) \in T /\ \A y \in T : BuildCleanup!Min(T) <= y
  BY NatLeast DEF BuildCleanup!Min

\* A directory on the list is one the operator has approved, by its inode unless
\* a build has made it anew since, and older than all that are protected.
SweepListed(l) ==
    /\ \E d \in sweep.approved.delete :
           d.label = l /\ (l \in DOMAIN dirs => d.inode = dirs[l] \/ dirs[l] > sweep.begun)
    /\ \A p \in sweep.approved.protected : l < p

CleanupTypes ==
    /\ lastInode \in Nat /\ DOMAIN dirs \subseteq Labels
    /\ DOMAIN sweep = {"todo", "begun", "approved"}
    /\ sweep.todo \subseteq Labels /\ sweep.begun \in Nat /\ sweep.begun <= lastInode

CleanupInv ==
    /\ CleanupTypes
    /\ \A l \in sweep.todo : SweepListed(l)
    /\ BuildCleanup!RemovedAsPreviewed

LEMMA CleanupInitial == BuildCleanup!Init => CleanupInv
<1> SUFFICES ASSUME BuildCleanup!Init PROVE CleanupInv
  OBVIOUS
<1>1. BuildCleanup!Cardinality(Labels) \in Nat
  BY LabelsAssumption, FS_CardinalityType, Zenon DEF BuildCleanup!Cardinality, Cardinality
<1> QED
  BY <1>1
  DEF BuildCleanup!Init, BuildCleanup!Resting, CleanupInv, CleanupTypes,
      BuildCleanup!RemovedAsPreviewed

LEMMA CleanupStep == CleanupInv /\ BuildCleanup!Next => CleanupInv'
<1> SUFFICES ASSUME CleanupInv, BuildCleanup!Next PROVE CleanupInv'
  OBVIOUS
<1> USE LabelsAssumption DEF CleanupInv
<1>1. CASE BuildCleanup!Build
  <2>1. UNCHANGED <<sweep, removed>>
    BY <1>1 DEF BuildCleanup!Build
  <2>2. CASE UNCHANGED <<dirs, lastInode>>
    BY <2>1, <2>2 DEF CleanupTypes, SweepListed, BuildCleanup!RemovedAsPreviewed
  <2>3. ASSUME lastInode' = lastInode + 1, NEW l \in Labels,
               dirs' = [k \in DOMAIN dirs \cup {l} |-> IF k = l THEN lastInode' ELSE dirs[k]]
        PROVE  CleanupInv'
    <3>1. CleanupTypes'
      BY <2>1, <2>3 DEF CleanupTypes
    <3>2. ASSUME NEW t \in sweep.todo PROVE SweepListed(t)'
      BY <2>1, <2>3, <3>2 DEF CleanupTypes, SweepListed
    <3> QED
      BY <2>1, <3>1, <3>2 DEF BuildCleanup!RemovedAsPreviewed
  <2> QED
    BY <1>1, <2>2, <2>3 DEF BuildCleanup!Build
<1>2. CASE BuildCleanup!Preview
  BY <1>2 DEF BuildCleanup!Preview, CleanupTypes, SweepListed, BuildCleanup!RemovedAsPreviewed
<1>3. CASE BuildCleanup!Apply
  <2>1. PICK keep \in BuildCleanup!Protections :
          /\ BuildCleanup!PlanApproved(keep)
          /\ sweep' = [todo |-> BuildCleanup!Selected(keep), begun |-> lastInode,
                       approved |-> previewed]
    BY <1>3 DEF BuildCleanup!Apply
  <2>2. UNCHANGED <<dirs, lastInode, removed>>
    BY <1>3 DEF BuildCleanup!Apply
  <2>3. previewed = [protected |-> keep,
                     delete |-> {[label |-> l, inode |-> dirs[l]] :
                                    l \in BuildCleanup!Selected(keep)}]
    BY <2>1 DEF BuildCleanup!PlanApproved, BuildCleanup!Plan
  <2>4. keep \in SUBSET Nat /\ keep # {}
    <3>1. keep \in SUBSET Labels /\ BuildCleanup!Cardinality(keep) = 3
      BY DEF BuildCleanup!Protections
    <3>2. BuildCleanup!Cardinality({}) = 0
      BY FS_EmptySet, Zenon DEF BuildCleanup!Cardinality, Cardinality
    <3>3. ASSUME keep = {} PROVE FALSE
      <4>1. BuildCleanup!Cardinality({}) = 3
        BY <3>1, <3>3, Zenon
      <4> QED
        BY <3>2, <4>1
    <3> QED
      BY <3>1, <3>3
  <2>5. ASSUME NEW l \in BuildCleanup!Selected(keep)
        PROVE  l \in DOMAIN dirs /\ \A p \in keep : l < p
    <3>1. l \in DOMAIN dirs /\ l < BuildCleanup!Min(keep)
      BY DEF BuildCleanup!Selected, BuildCleanup!Eligible
    <3>2. BuildCleanup!Min(keep) \in keep
          /\ \A p \in keep : BuildCleanup!Min(keep) <= p
      BY <2>4, LeastLabel
    <3>3. l \in Nat /\ BuildCleanup!Min(keep) \in Nat /\ \A p \in keep : p \in Nat
      BY <2>4, <3>1, <3>2 DEF CleanupTypes
    <3> QED
      BY <3>1, <3>2, <3>3
  <2>6. ASSUME NEW l \in sweep'.todo PROVE SweepListed(l)'
    <3>1. l \in BuildCleanup!Selected(keep)
      BY <2>1
    <3>2. [label |-> l, inode |-> dirs[l]] \in previewed.delete
      BY <2>3, <3>1
    <3>3. sweep'.approved = previewed /\ previewed.protected = keep
      BY <2>1, <2>3
    <3> QED
      BY <2>2, <2>5, <3>1, <3>2, <3>3 DEF SweepListed
  <2>7. CleanupTypes'
    BY <2>1, <2>2, <2>5 DEF CleanupTypes
  <2> QED
    BY <2>2, <2>6, <2>7 DEF BuildCleanup!RemovedAsPreviewed
<1>4. CASE BuildCleanup!RemoveNext
  <2> DEFINE l == BuildCleanup!Min(sweep.todo)
  <2>1. l \in sweep.todo /\ SweepListed(l)
    BY <1>4, LeastLabel DEF BuildCleanup!RemoveNext, CleanupTypes
  <2> HIDE DEF l
  <2>2. ASSUME l \in DOMAIN dirs \ busy,
               removed' = removed \cup {[label |-> l, inode |-> dirs[l], begun |-> sweep.begun,
                                         plan |-> sweep.approved]},
               dirs' = BuildCleanup!Without(l),
               sweep' = IF sweep.todo = {l} THEN BuildCleanup!Resting
                        ELSE [sweep EXCEPT !.todo = @ \ {l}],
               UNCHANGED lastInode
        PROVE  CleanupInv'
    <3>1. BuildCleanup!RemovedAsPreviewed'
      BY <2>1, <2>2 DEF SweepListed, BuildCleanup!RemovedAsPreviewed
    <3>2. CASE sweep' = BuildCleanup!Resting
      BY <2>2, <3>1, <3>2 DEF CleanupTypes, BuildCleanup!Resting, BuildCleanup!Without
    <3>3. CASE sweep' = [sweep EXCEPT !.todo = @ \ {l}]
      <4>1. CleanupTypes'
        BY <2>2, <3>3 DEF CleanupTypes, BuildCleanup!Without
      <4>2. ASSUME NEW t \in sweep'.todo PROVE SweepListed(t)'
        BY <2>2, <3>3, <4>2 DEF CleanupTypes, BuildCleanup!Without, SweepListed
      <4> QED
        BY <3>1, <4>1, <4>2
    <3> QED
      BY <2>2, <3>2, <3>3
  <2>3. CASE sweep' = BuildCleanup!Resting /\ UNCHANGED <<dirs, removed, lastInode>>
    BY <2>3 DEF CleanupTypes, BuildCleanup!Resting, BuildCleanup!RemovedAsPreviewed
  <2> QED
    BY <1>4, <2>2, <2>3 DEF BuildCleanup!RemoveNext, l
<1>5. CASE BuildCleanup!Interrupted
  BY <1>5 DEF BuildCleanup!Interrupted, CleanupTypes, BuildCleanup!Resting,
     BuildCleanup!RemovedAsPreviewed
<1> QED
  BY <1>1, <1>2, <1>3, <1>4, <1>5 DEF BuildCleanup!Next

\* cleanup_old_builds.py: what is removed was listed in the preview that the
\* operator approved and is older than everything protected, for any labels,
\* sizes and builds in between; only a directory that a build replaced while the
\* removal was running has another inode.
THEOREM CleanupRemovesApproved == Spec => []RemovedAsPreviewed
<1> DEFINE I == Is("BuildCleanup") => CleanupInv
<1>1. Init => I
  BY CleanupInitial DEF Init, Is
<1>2. I /\ [Next]_vars => I'
  <2> SUFFICES ASSUME I, [Next]_vars, Is("BuildCleanup")' PROVE CleanupInv'
    OBVIOUS
  <2>1. CASE UNCHANGED vars
    BY <2>1
    DEF vars, cleanupVars, Is, CleanupInv, CleanupTypes, SweepListed, BuildCleanup!RemovedAsPreviewed
  <2>2. CASE Next
    BY <2>2, CleanupStep DEF Next, Others, Is
  <2> QED
    BY <2>1, <2>2
<1>3. I => RemovedAsPreviewed
  BY DEF CleanupInv, RemovedAsPreviewed
<1> QED
  BY <1>1, <1>2, <1>3, PTL DEF Spec

-----------------------------------------------------------------------------
(* K3sTargets                                                              *)

NoRepeats(seq) == \A m, n \in 1 .. Len(seq) : seq[m] = seq[n] => m = n

\* list holds the members of the first n of seq, each once, the first of them in front.
Condenses(list, seq, n) ==
    /\ list \in Seq(STRING) /\ NoRepeats(list)
    /\ \A x : x \in K3sTargets!Range(list) <=> \E m \in 1 .. n : x = seq[m]
    /\ n > 0 => list # <<>> /\ list[1] = seq[1]

LEMMA CondensesOneMore ==
    ASSUME NEW seq \in Seq(STRING), NEW n \in 1 .. Len(seq), NEW list, Condenses(list, seq, n - 1)
    PROVE  /\ seq[n] \in K3sTargets!Range(list) => Condenses(list, seq, n)
           /\ seq[n] \notin K3sTargets!Range(list) => Condenses(Append(list, seq[n]), seq, n)
<1>1. /\ list \in Seq(STRING) /\ NoRepeats(list) /\ seq[n] \in STRING /\ n \in Nat /\ n > 0
      /\ \A x : x \in K3sTargets!Range(list) <=> \E m \in 1 .. n - 1 : x = seq[m]
      /\ \A m : m \in 1 .. n <=> m \in 1 .. n - 1 \/ m = n
  BY DEF Condenses
<1>2. n = 1 => list = <<>>
  <2> SUFFICES ASSUME n = 1, list # <<>> PROVE FALSE
    OBVIOUS
  <2>1. 1 \in DOMAIN list
    BY <1>1
  <2>2. list[1] \in K3sTargets!Range(list)
    BY <2>1 DEF K3sTargets!Range
  <2> QED BY <1>1, <2>2
<1>3. n > 1 => list # <<>> /\ list[1] = seq[1]
  BY DEF Condenses
<1>4. ASSUME seq[n] \in K3sTargets!Range(list)
      PROVE  Condenses(list, seq, n)
  <2>1. n # 1
    BY <1>2, <1>4 DEF K3sTargets!Range
  <2>2. \A x : x \in K3sTargets!Range(list) <=> \E m \in 1 .. n : x = seq[m]
    BY <1>1, <1>4
  <2> QED BY <1>1, <1>3, <2>1, <2>2 DEF Condenses
<1>5. ASSUME seq[n] \notin K3sTargets!Range(list)
      PROVE  Condenses(Append(list, seq[n]), seq, n)
  <2> DEFINE more == Append(list, seq[n])
  <2>1. /\ more \in Seq(STRING) /\ Len(more) = Len(list) + 1 /\ Len(list) \in Nat
        /\ DOMAIN more = 1 .. Len(list) + 1 /\ DOMAIN list = 1 .. Len(list)
        /\ \A k \in 1 .. Len(list) : more[k] = list[k]
        /\ more[Len(list) + 1] = seq[n]
    BY <1>1
  <2> HIDE DEF more
  <2>2. \A k \in 1 .. Len(list) : list[k] \in K3sTargets!Range(list)
    BY <2>1 DEF K3sTargets!Range
  <2>3. NoRepeats(more)
    BY <1>1, <1>5, <2>1, <2>2 DEF NoRepeats
  <2>4. \A x : x \in K3sTargets!Range(more) <=> x \in K3sTargets!Range(list) \/ x = seq[n]
    BY <2>1 DEF K3sTargets!Range
  <2>5. \A x : x \in K3sTargets!Range(more) <=> \E m \in 1 .. n : x = seq[m]
    BY <1>1, <2>4
  <2>6. more # <<>> /\ more[1] = seq[1]
    <3>1. CASE n = 1
      <4>1. Len(list) = 0
        BY <1>2, <3>1
      <4>2. Len(more) = 1 /\ more[1] = seq[n]
        BY <2>1, <4>1
      <4>3. more # <<>>
        <5>1. Len(<<>>) = 0
          OBVIOUS
        <5>2. Len(more) # Len(<<>>)
          BY <4>2, <5>1
        <5> QED BY <5>2, Zenon
      <4> QED BY <3>1, <4>2, <4>3
    <3>2. CASE n # 1
      <4>1. list # <<>> /\ list[1] = seq[1] /\ 1 \in 1 .. Len(list)
        BY <1>1, <1>3, <2>1, <3>2
      <4> QED BY <2>1, <4>1
    <3> QED BY <3>1, <3>2
  <2>7. Condenses(more, seq, n)
    BY <1>1, <2>1, <2>3, <2>5, <2>6 DEF Condenses
  <2> QED BY <2>7 DEF more
<1> QED BY <1>4, <1>5

LEMMA UniqueCondenses ==
    ASSUME NEW seq \in Seq(STRING)
    PROVE  Condenses(K3sTargets!Unique(seq), seq, Len(seq))
<1> DEFINE last == Len(seq)
           body(f) == [n \in 0 .. last |->
                          IF n = 0 THEN <<>>
                          ELSE IF seq[n] \in K3sTargets!Range(f[n - 1]) THEN f[n - 1] ELSE Append(f[n - 1], seq[n])]
           kept == CHOOSE f : f = body(f)
           step == [n \in 1 .. last |-> [list \in Seq(STRING) |->
                       IF seq[n] \in K3sTargets!Range(list) THEN list ELSE Append(list, seq[n])]]
<1>1. last \in Nat /\ <<>> \in Seq(STRING)
  OBVIOUS
<1>2. K3sTargets!Unique(seq) = kept[last]
  BY DEF K3sTargets!Unique
<1>3. step \in [1 .. last -> [Seq(STRING) -> Seq(STRING)]]
  <2>1. \A n \in 1 .. last : seq[n] \in STRING
    OBVIOUS
  <2>2. \A n \in 1 .. last : \A list \in Seq(STRING) : Append(list, seq[n]) \in Seq(STRING)
    BY <2>1
  <2> QED BY <2>2
<1> HIDE DEF step
<1>4. PICK f : Recursive(f, last, Seq(STRING), <<>>, step)
  BY <1>1, <1>3, RecursionTo
<1>5. f = body(f)
  <2>1. f \in [0 .. last -> Seq(STRING)] /\ f[0] = <<>> /\ \A n \in 1 .. last : f[n] = step[n][f[n - 1]]
    BY <1>4 DEF Recursive
  <2>2. ASSUME NEW n \in 1 .. last
        PROVE  f[n] = IF seq[n] \in K3sTargets!Range(f[n - 1]) THEN f[n - 1] ELSE Append(f[n - 1], seq[n])
    <3>1. n - 1 \in 0 .. last
      BY <1>1
    <3>2. f[n - 1] \in Seq(STRING)
      BY <2>1, <3>1
    <3> QED BY <2>1, <3>2 DEF step
  <2>3. \A n \in 0 .. last : n = 0 \/ n \in 1 .. last
    BY <1>1
  <2>4. \A n \in 0 .. last : f[n] = IF n = 0 THEN <<>>
            ELSE IF seq[n] \in K3sTargets!Range(f[n - 1]) THEN f[n - 1] ELSE Append(f[n - 1], seq[n])
    BY <2>1, <2>2, <2>3
  <2> QED BY <2>1, <2>4
<1> HIDE DEF body
<1>6. kept = body(kept)
  BY <1>5
<1> HIDE DEF kept
<1>7. /\ kept[0] = <<>>
      /\ \A n \in 1 .. last : kept[n] = IF seq[n] \in K3sTargets!Range(kept[n - 1]) THEN kept[n - 1]
                                        ELSE Append(kept[n - 1], seq[n])
  <2>1. \A n \in 0 .. last : kept[n] = IF n = 0 THEN <<>>
            ELSE IF seq[n] \in K3sTargets!Range(kept[n - 1]) THEN kept[n - 1] ELSE Append(kept[n - 1], seq[n])
    BY <1>6, Zenon DEF body
  <2>2. 0 \in 0 .. last /\ \A n \in 1 .. last : n \in 0 .. last /\ n # 0
    BY <1>1
  <2> QED BY <2>1, <2>2
<1> DEFINE S == {n \in 0 .. last : Condenses(kept[n], seq, n)}
<1>8. 0 \in S
  <2>1. Condenses(<<>>, seq, 0)
    BY DEF Condenses, NoRepeats, K3sTargets!Range
  <2> QED BY <1>1, <1>7, <2>1
<1>9. ASSUME NEW n \in 1 .. last, n - 1 \in S
      PROVE  n \in S
  <2>1. Condenses(kept[n - 1], seq, n - 1)
    BY <1>9
  <2>2. Condenses(kept[n], seq, n)
    BY <1>7, <2>1, CondensesOneMore
  <2> QED BY <2>2
<1> HIDE DEF S
<1>10. \A n \in 0 .. last : n \in S
  BY <1>1, <1>8, <1>9, InductionTo
<1> QED BY <1>1, <1>2, <1>10 DEF S

LEMMA UniqueRange ==
    ASSUME NEW seq \in Seq(STRING)
    PROVE  /\ K3sTargets!Unique(seq) \in Seq(STRING) /\ NoRepeats(K3sTargets!Unique(seq))
           /\ K3sTargets!Range(K3sTargets!Unique(seq)) = K3sTargets!Range(seq)
           /\ seq # <<>> => K3sTargets!Unique(seq) # <<>> /\ K3sTargets!Unique(seq)[1] = seq[1]
<1> DEFINE list == K3sTargets!Unique(seq)
<1>1. Condenses(list, seq, Len(seq))
  BY UniqueCondenses
<1> HIDE DEF list
<1>2. K3sTargets!Range(seq) = {seq[n] : n \in 1 .. Len(seq)}
  BY DEF K3sTargets!Range
<1>3. K3sTargets!Range(list) = K3sTargets!Range(seq)
  BY <1>1, <1>2 DEF Condenses
<1>4. /\ list \in Seq(STRING) /\ NoRepeats(list)
      /\ seq # <<>> => list # <<>> /\ list[1] = seq[1]
  BY <1>1 DEF Condenses
<1> QED BY <1>3, <1>4 DEF list

LEMMA EmptyIsZero ==
    ASSUME NEW S, NEW seq \in Seq(S)
    PROVE  seq = <<>> <=> Len(seq) = 0
  OBVIOUS

LEMMA MemberOf ==
    ASSUME NEW S, NEW seq \in Seq(S), NEW n \in 1 .. Len(seq)
    PROVE  seq[n] \in S
  OBVIOUS

LEMMA TopAndRest ==
    ASSUME NEW seq \in Seq(STRING), seq # <<>>
    PROVE  /\ Head(seq) \in STRING /\ Tail(seq) \in Seq(STRING)
           /\ K3sTargets!Range(seq) = {Head(seq)} \cup K3sTargets!Range(Tail(seq))
<1> DEFINE rest == Tail(seq)
<1>1. /\ Head(seq) \in STRING /\ rest \in Seq(STRING) /\ Len(seq) \in Nat \ {0}
      /\ DOMAIN seq = 1 .. Len(seq) /\ DOMAIN rest = 1 .. Len(seq) - 1
      /\ seq[1] = Head(seq) /\ \A n \in 1 .. Len(seq) - 1 : rest[n] = seq[n + 1]
  OBVIOUS
<1> HIDE DEF rest
<1>2. ASSUME NEW x \in K3sTargets!Range(seq)
      PROVE  x = Head(seq) \/ x \in K3sTargets!Range(rest)
  <2>1. PICK n \in 1 .. Len(seq) : x = seq[n]
    BY <1>1 DEF K3sTargets!Range
  <2>2. CASE n # 1
    <3>1. n - 1 \in 1 .. Len(seq) - 1 /\ (n - 1) + 1 = n
      BY <1>1, <2>2
    <3>2. rest[n - 1] = x
      BY <1>1, <2>1, <3>1
    <3> QED BY <1>1, <3>1, <3>2 DEF K3sTargets!Range
  <2> QED BY <1>1, <2>1, <2>2
<1>3. ASSUME NEW x \in K3sTargets!Range(rest)
      PROVE  x \in K3sTargets!Range(seq)
  <2>1. PICK n \in 1 .. Len(seq) - 1 : x = rest[n]
    BY <1>1, <1>3 DEF K3sTargets!Range
  <2>2. n + 1 \in 1 .. Len(seq) /\ x = seq[n + 1]
    BY <1>1, <2>1
  <2> QED BY <1>1, <2>2 DEF K3sTargets!Range
<1>4. Head(seq) \in K3sTargets!Range(seq)
  <2>1. 1 \in DOMAIN seq
    BY <1>1
  <2> QED BY <1>1, <2>1 DEF K3sTargets!Range
<1>5. K3sTargets!Range(seq) = {Head(seq)} \cup K3sTargets!Range(rest)
  BY <1>2, <1>3, <1>4
<1> QED BY <1>1, <1>5 DEF rest

LEMMA JoinedRange ==
    ASSUME NEW one \in Seq(STRING), NEW two \in Seq(STRING)
    PROVE  /\ one \o two \in Seq(STRING)
           /\ K3sTargets!Range(one \o two) = K3sTargets!Range(one) \cup K3sTargets!Range(two)
<1> DEFINE both == one \o two
           k == Len(one)
           l == Len(two)
<1>1. /\ both \in Seq(STRING) /\ k \in Nat /\ l \in Nat
      /\ DOMAIN one = 1 .. k /\ DOMAIN two = 1 .. l /\ DOMAIN both = 1 .. k + l
      /\ \A n \in 1 .. k : both[n] = one[n]
      /\ \A n \in 1 .. l : both[k + n] = two[n]
  OBVIOUS
<1> HIDE DEF both, k, l
<1>2. ASSUME NEW x \in K3sTargets!Range(both)
      PROVE  x \in K3sTargets!Range(one) \cup K3sTargets!Range(two)
  <2>1. PICK n \in 1 .. k + l : x = both[n]
    BY <1>1 DEF K3sTargets!Range
  <2>2. CASE n \in 1 .. k
    BY <1>1, <2>1, <2>2 DEF K3sTargets!Range
  <2>3. CASE n \notin 1 .. k
    <3>1. n - k \in 1 .. l /\ k + (n - k) = n
      BY <1>1, <2>3
    <3>2. x = two[n - k]
      BY <1>1, <2>1, <3>1
    <3> QED BY <1>1, <3>1, <3>2 DEF K3sTargets!Range
  <2> QED BY <2>2, <2>3
<1>3. \A x \in K3sTargets!Range(one) : x \in K3sTargets!Range(both)
  <2>1. \A n \in 1 .. k : n \in 1 .. k + l
    BY <1>1
  <2> QED BY <1>1, <2>1 DEF K3sTargets!Range
<1>4. \A x \in K3sTargets!Range(two) : x \in K3sTargets!Range(both)
  <2>1. \A n \in 1 .. l : k + n \in 1 .. k + l
    BY <1>1
  <2> QED BY <1>1, <2>1 DEF K3sTargets!Range
<1>5. K3sTargets!Range(both) = K3sTargets!Range(one) \cup K3sTargets!Range(two)
  BY <1>2, <1>3, <1>4
<1> QED BY <1>1, <1>5 DEF both

WalkTypes ==
    walk \in [for : {ControlGroup, AgentGroup}, stack : Seq(STRING), seen : SUBSET STRING, hosts : Seq(STRING)]

TargetTypes ==
    /\ query \in TargetQueries
    /\ WalkTypes
    /\ walk.for = IF found = <<>> THEN ControlGroup ELSE AgentGroup
    /\ found \in Seq(Seq(STRING)) /\ Len(found) <= 2

KnownGroups == DOMAIN query.groups
HostsOf(g) == K3sTargets!Range(query.groups[g].hosts)
ChildrenOf(g) == K3sTargets!Range(query.groups[g].children)
\* The groups that the walk has met.
Met == walk.seen \cup K3sTargets!Range(walk.stack)
\* A set of groups that a group, itself in it, cannot lead out of.
Encloses(groups, group) ==
    groups \in SUBSET KnownGroups /\ K3sTargets!Closed(groups) /\ (group \in KnownGroups => group \in groups)

\* The walk has met the group it started from and every child of a group that
\* it has seen, has met nothing else, and has the hosts of what it has seen.
WalkMeetsChildren ==
    /\ walk.for \in Met
    /\ \A g \in walk.seen : g \in KnownGroups => ChildrenOf(g) \subseteq Met
WalkStaysBelow == \A groups : Encloses(groups, walk.for) => \A g \in Met : g \in KnownGroups => g \in groups
WalkHasHosts ==
    \A x : x \in K3sTargets!Range(walk.hosts) <=> \E g \in walk.seen : g \in KnownGroups /\ x \in HostsOf(g)
HostsFound ==
    /\ Len(found) >= 1 => K3sTargets!Range(found[1]) = K3sTargets!HostsBelow(ControlGroup)
    /\ Len(found) = 2 => K3sTargets!Range(found[2]) = K3sTargets!HostsBelow(AgentGroup)

TargetInv ==
    TargetTypes /\ WalkMeetsChildren /\ WalkStaysBelow /\ WalkHasHosts /\ HostsFound /\ K3sTargets!EveryNodeOnce

Start(group) == [for |-> group, stack |-> <<group>>, seen |-> {}, hosts |-> <<>>]

(* At the start of a walk nothing is seen and one group is met.            *)
LEMMA WalkStarts ==
    query \in TargetQueries /\ (walk = Start(ControlGroup) \/ walk = Start(AgentGroup))
        => WalkTypes /\ WalkMeetsChildren /\ WalkStaysBelow /\ WalkHasHosts
<1> SUFFICES ASSUME query \in TargetQueries, NEW group \in {ControlGroup, AgentGroup}, walk = Start(group)
             PROVE  WalkTypes /\ WalkMeetsChildren /\ WalkStaysBelow /\ WalkHasHosts
  OBVIOUS
<1>1. group \in STRING /\ <<group>> \in Seq(STRING) /\ <<>> \in Seq(STRING)
  BY TargetAssumption
<1>2. /\ walk.for = group /\ walk.stack = <<group>> /\ walk.seen = {} /\ walk.hosts = <<>>
  BY DEF Start
<1>3. WalkTypes
  BY <1>1 DEF WalkTypes, Start
<1>4. K3sTargets!Range(<<group>>) = {group} /\ K3sTargets!Range(<<>>) = {}
  BY DEF K3sTargets!Range
<1>5. Met = {group}
  BY <1>2, <1>4 DEF Met
<1>6. WalkMeetsChildren
  BY <1>2, <1>5 DEF WalkMeetsChildren
<1>7. WalkStaysBelow
  BY <1>2, <1>5 DEF WalkStaysBelow, Encloses
<1>8. WalkHasHosts
  BY <1>2, <1>4 DEF WalkHasHosts
<1> QED BY <1>3, <1>6, <1>7, <1>8

(* What unmoved variables leave as it was.                                 *)
LEMMA WalkUnmoved ==
    ASSUME TargetInv, UNCHANGED <<query, walk>>
    PROVE  WalkMeetsChildren' /\ WalkStaysBelow' /\ WalkHasHosts'
<1>1. /\ KnownGroups' = KnownGroups /\ Met' = Met
      /\ \A g : HostsOf(g)' = HostsOf(g) /\ ChildrenOf(g)' = ChildrenOf(g)
      /\ \A g, groups : Encloses(groups, g)' = Encloses(groups, g)
  BY DEF KnownGroups, Met, HostsOf, ChildrenOf, Encloses, K3sTargets!Closed, K3sTargets!Known, K3sTargets!Range
<1>2. WalkMeetsChildren'
  BY <1>1 DEF TargetInv, WalkMeetsChildren
<1>3. WalkStaysBelow'
  BY <1>1 DEF TargetInv, WalkStaysBelow, Encloses, K3sTargets!Closed, K3sTargets!Known, KnownGroups
<1>4. WalkHasHosts'
  BY <1>1 DEF TargetInv, WalkHasHosts, K3sTargets!Range
<1> QED BY <1>2, <1>3, <1>4

LEMMA BelowUnmoved ==
    ASSUME UNCHANGED query
    PROVE  /\ K3sTargets!HostsBelow(ControlGroup)' = K3sTargets!HostsBelow(ControlGroup)
           /\ K3sTargets!HostsBelow(AgentGroup)' = K3sTargets!HostsBelow(AgentGroup)
  BY DEF K3sTargets!HostsBelow, K3sTargets!Below, K3sTargets!Closed, K3sTargets!Known, K3sTargets!Range

LEMMA FoundUnmoved ==
    ASSUME TargetInv, UNCHANGED <<query, found>>
    PROVE  HostsFound'
<1>1. HostsFound
  BY DEF TargetInv
<1> QED BY <1>1, BelowUnmoved DEF HostsFound, K3sTargets!Range

LEMMA TypesUnmoved ==
    ASSUME TargetInv, UNCHANGED <<query, walk, found>>
    PROVE  TargetTypes'
  BY DEF TargetInv, TargetTypes, WalkTypes

(* A walk with nothing left to visit has the hosts below its group.        *)
LEMMA WalkEnds ==
    ASSUME WalkMeetsChildren, WalkStaysBelow, WalkHasHosts, walk.stack = <<>>
    PROVE  K3sTargets!Range(walk.hosts) = K3sTargets!HostsBelow(walk.for)
<1> DEFINE inside == walk.seen \cap KnownGroups
<1>1. Met = walk.seen
  BY DEF Met, K3sTargets!Range
<1>2. Encloses(inside, walk.for)
  <2>1. K3sTargets!Closed(inside)
    BY <1>1 DEF K3sTargets!Closed, K3sTargets!Known, WalkMeetsChildren, ChildrenOf, KnownGroups
  <2> QED BY <1>1, <2>1 DEF Encloses, WalkMeetsChildren
<1>3. K3sTargets!Below(walk.for) = {g \in KnownGroups : \A groups : Encloses(groups, walk.for) => g \in groups}
  BY DEF K3sTargets!Below, K3sTargets!Known, Encloses, KnownGroups
<1>4. K3sTargets!Below(walk.for) = inside
  <2>1. \A g \in inside : \A groups : Encloses(groups, walk.for) => g \in groups
    BY <1>1 DEF WalkStaysBelow
  <2> HIDE DEF inside
  <2>2. \A g \in K3sTargets!Below(walk.for) : g \in inside
    BY <1>2, <1>3
  <2>3. \A g \in inside : g \in K3sTargets!Below(walk.for)
    BY <1>3, <2>1 DEF inside
  <2> QED BY <2>2, <2>3
<1>5. \A x : x \in K3sTargets!HostsBelow(walk.for) <=> \E g \in inside : x \in HostsOf(g)
  BY <1>4 DEF K3sTargets!HostsBelow, HostsOf
<1> QED BY <1>5 DEF WalkHasHosts

(* A visit to a group that is known and not yet seen.                      *)
LEMMA VisitNewKeeps ==
    ASSUME TargetInv, NEW group, NEW rest, walk.stack # <<>>, group = Head(walk.stack), rest = Tail(walk.stack),
           group \in KnownGroups, group \notin walk.seen,
           walk' = [walk EXCEPT !.stack = query.groups[group].children \o rest,
                                !.seen = @ \cup {group},
                                !.hosts = K3sTargets!Unique(@ \o query.groups[group].hosts)],
           UNCHANGED <<query, found>>
    PROVE  TargetTypes' /\ WalkMeetsChildren' /\ WalkStaysBelow' /\ WalkHasHosts'
<1>1. /\ query \in TargetQueries /\ walk.stack \in Seq(STRING) /\ walk.hosts \in Seq(STRING)
      /\ walk.seen \subseteq STRING
      /\ WalkTypes
  BY DEF TargetInv, TargetTypes, WalkTypes
<1>2. /\ group \in STRING /\ rest \in Seq(STRING)
      /\ K3sTargets!Range(walk.stack) = {group} \cup K3sTargets!Range(rest)
  BY <1>1, TopAndRest
<1>3. query.groups[group].children \in Seq(STRING) /\ query.groups[group].hosts \in Seq(STRING)
  BY <1>1, TargetAssumption DEF KnownGroups
<1>4. /\ walk'.for = walk.for
      /\ walk'.stack = query.groups[group].children \o rest
      /\ walk'.seen = walk.seen \cup {group}
      /\ walk'.hosts = K3sTargets!Unique(walk.hosts \o query.groups[group].hosts)
      /\ walk' = [for |-> walk'.for, stack |-> walk'.stack, seen |-> walk'.seen, hosts |-> walk'.hosts]
  BY <1>1 DEF WalkTypes
<1>5. /\ walk'.stack \in Seq(STRING)
      /\ K3sTargets!Range(walk'.stack) = ChildrenOf(group) \cup K3sTargets!Range(rest)
  BY <1>2, <1>3, <1>4, JoinedRange DEF ChildrenOf
<1>6. /\ walk'.hosts \in Seq(STRING)
      /\ K3sTargets!Range(walk'.hosts) = K3sTargets!Range(walk.hosts) \cup HostsOf(group)
  <2>1. /\ walk.hosts \o query.groups[group].hosts \in Seq(STRING)
        /\ K3sTargets!Range(walk.hosts \o query.groups[group].hosts) = K3sTargets!Range(walk.hosts) \cup HostsOf(group)
    BY <1>1, <1>3, JoinedRange DEF HostsOf
  <2> QED BY <1>4, <2>1, UniqueRange
<1>7. /\ KnownGroups' = KnownGroups
      /\ \A g : HostsOf(g)' = HostsOf(g) /\ ChildrenOf(g)' = ChildrenOf(g)
      /\ \A g, groups : Encloses(groups, g)' = Encloses(groups, g)
  BY DEF KnownGroups, HostsOf, ChildrenOf, Encloses, K3sTargets!Closed, K3sTargets!Known
<1>8. Met' = Met \cup ChildrenOf(group)
  BY <1>2, <1>4, <1>5 DEF Met
<1>9. TargetTypes'
  <2>1. WalkTypes'
    BY <1>1, <1>2, <1>4, <1>5, <1>6 DEF WalkTypes
  <2> QED BY <1>4, <2>1 DEF TargetInv, TargetTypes
<1>10. WalkMeetsChildren'
  <2>1. /\ walk.for \in Met
        /\ \A g \in walk.seen : g \in KnownGroups => ChildrenOf(g) \subseteq Met
    BY DEF TargetInv, WalkMeetsChildren
  <2>2. /\ walk'.for \in Met'
        /\ \A g \in walk'.seen : g \in KnownGroups => ChildrenOf(g) \subseteq Met'
    BY <1>4, <1>8, <2>1
  <2> QED BY <1>7, <2>2 DEF WalkMeetsChildren
<1>11. WalkStaysBelow'
  <2>1. ASSUME NEW groups, Encloses(groups, walk.for), NEW g \in Met', g \in KnownGroups
        PROVE  g \in groups
    <3>1. \A h \in Met : h \in KnownGroups => h \in groups
      BY <2>1 DEF TargetInv, WalkStaysBelow
    <3>2. group \in groups
      BY <1>2, <3>1 DEF Met
    <3>3. CASE g \in ChildrenOf(group)
      BY <2>1, <3>2, <3>3 DEF Encloses, K3sTargets!Closed, K3sTargets!Known, ChildrenOf, KnownGroups
    <3> QED BY <1>8, <2>1, <3>1, <3>3
  <2>2. \A groups : Encloses(groups, walk'.for) => \A g \in Met' : g \in KnownGroups => g \in groups
    BY <1>4, <2>1
  <2>3. \A groups : Encloses(groups, walk'.for) = Encloses(groups, walk.for)'
    BY <1>4, <1>7
  <2> QED BY <1>7, <2>2, <2>3 DEF WalkStaysBelow
<1>12. WalkHasHosts'
  <2>1. \A x : x \in K3sTargets!Range(walk.hosts) <=> \E g \in walk.seen : g \in KnownGroups /\ x \in HostsOf(g)
    BY DEF TargetInv, WalkHasHosts
  <2>2. \A x : x \in K3sTargets!Range(walk'.hosts) <=> \E g \in walk'.seen : g \in KnownGroups /\ x \in HostsOf(g)
    BY <1>4, <1>6, <2>1
  <2> QED BY <1>7, <2>2 DEF WalkHasHosts, K3sTargets!Range
<1> QED BY <1>9, <1>10, <1>11, <1>12

(* A visit to a group that is seen or unknown takes it from the stack.     *)
LEMMA VisitOldKeeps ==
    ASSUME TargetInv, NEW group, NEW rest, walk.stack # <<>>, group = Head(walk.stack), rest = Tail(walk.stack),
           group \in walk.seen \/ group \notin KnownGroups,
           walk' = [walk EXCEPT !.stack = rest, !.seen = @ \cup {group}],
           UNCHANGED <<query, found>>
    PROVE  TargetTypes' /\ WalkMeetsChildren' /\ WalkStaysBelow' /\ WalkHasHosts'
<1>1. /\ query \in TargetQueries /\ walk.stack \in Seq(STRING) /\ walk.hosts \in Seq(STRING)
      /\ walk.seen \subseteq STRING
      /\ WalkTypes
  BY DEF TargetInv, TargetTypes, WalkTypes
<1>2. /\ group \in STRING /\ rest \in Seq(STRING)
      /\ K3sTargets!Range(walk.stack) = {group} \cup K3sTargets!Range(rest)
  BY <1>1, TopAndRest
<1>3. /\ walk'.for = walk.for /\ walk'.stack = rest /\ walk'.hosts = walk.hosts
      /\ walk'.seen = walk.seen \cup {group}
      /\ walk' = [for |-> walk'.for, stack |-> walk'.stack, seen |-> walk'.seen, hosts |-> walk'.hosts]
  BY <1>1 DEF WalkTypes
<1>4. /\ KnownGroups' = KnownGroups
      /\ \A g : HostsOf(g)' = HostsOf(g) /\ ChildrenOf(g)' = ChildrenOf(g)
      /\ \A g, groups : Encloses(groups, g)' = Encloses(groups, g)
  BY DEF KnownGroups, HostsOf, ChildrenOf, Encloses, K3sTargets!Closed, K3sTargets!Known
<1>5. Met' = Met
  BY <1>2, <1>3 DEF Met
<1>6. TargetTypes'
  <2>1. WalkTypes'
    BY <1>1, <1>2, <1>3 DEF WalkTypes
  <2> QED BY <1>3, <2>1 DEF TargetInv, TargetTypes
<1>7. WalkMeetsChildren'
  BY <1>3, <1>4, <1>5 DEF TargetInv, WalkMeetsChildren
<1>8. WalkStaysBelow'
  BY <1>3, <1>4, <1>5 DEF TargetInv, WalkStaysBelow, Encloses, K3sTargets!Closed, K3sTargets!Known, KnownGroups
<1>9. WalkHasHosts'
  <2>1. \A x : x \in K3sTargets!Range(walk.hosts) <=> \E g \in walk.seen : g \in KnownGroups /\ x \in HostsOf(g)
    BY DEF TargetInv, WalkHasHosts
  <2>2. \A x : x \in K3sTargets!Range(walk'.hosts) <=> \E g \in walk'.seen : g \in KnownGroups /\ x \in HostsOf(g)
    BY <1>3, <2>1
  <2> QED BY <1>4, <2>2 DEF WalkHasHosts, K3sTargets!Range
<1> QED BY <1>6, <1>7, <1>8, <1>9

LEMMA VisitKeeps == TargetInv /\ K3sTargets!Visit => TargetInv'
<1> SUFFICES ASSUME TargetInv, K3sTargets!Visit PROVE TargetInv'
  OBVIOUS
<1> DEFINE group == Head(walk.stack)
           rest == Tail(walk.stack)
<1>1. /\ walk.stack # <<>> /\ answer'.inventory.status # "resolved"
      /\ UNCHANGED <<query, found>>
      /\ walk' = IF group \in walk.seen \/ group \notin KnownGroups
                 THEN [walk EXCEPT !.stack = rest, !.seen = @ \cup {group}]
                 ELSE [walk EXCEPT !.stack = query.groups[group].children \o rest,
                                   !.seen = @ \cup {group},
                                   !.hosts = K3sTargets!Unique(@ \o query.groups[group].hosts)]
  BY DEF K3sTargets!Visit, K3sTargets!Walking, K3sTargets!Known, KnownGroups
<1>2. TargetTypes' /\ WalkMeetsChildren' /\ WalkStaysBelow' /\ WalkHasHosts'
  <2>1. CASE group \in walk.seen \/ group \notin KnownGroups
    BY <1>1, <2>1, VisitOldKeeps
  <2>2. CASE group \notin walk.seen /\ group \in KnownGroups
    BY <1>1, <2>2, VisitNewKeeps
  <2> QED BY <2>1, <2>2
<1>3. HostsFound'
  BY <1>1, FoundUnmoved
<1>4. K3sTargets!EveryNodeOnce'
  BY <1>1 DEF K3sTargets!EveryNodeOnce
<1> QED BY <1>2, <1>3, <1>4 DEF TargetInv

LEMMA NextGroupKeeps == TargetInv /\ K3sTargets!NextGroup => TargetInv'
<1> SUFFICES ASSUME TargetInv, K3sTargets!NextGroup PROVE TargetInv'
  OBVIOUS
<1>1. /\ walk.stack = <<>> /\ answer'.inventory.status # "resolved" /\ Len(found) < 2
      /\ found' = Append(found, walk.hosts) /\ query' = query
      /\ walk' = IF found = <<>> THEN Start(AgentGroup) ELSE walk
  BY DEF K3sTargets!NextGroup, K3sTargets!Walking, Start
<1>2. /\ query \in TargetQueries
      /\ WalkTypes /\ walk.hosts \in Seq(STRING)
      /\ walk.for = IF found = <<>> THEN ControlGroup ELSE AgentGroup
      /\ found \in Seq(Seq(STRING)) /\ Len(found) \in Nat
  BY DEF TargetInv, TargetTypes, WalkTypes
<1>3. /\ found' \in Seq(Seq(STRING)) /\ Len(found') = Len(found) + 1
      /\ found'[Len(found')] = walk.hosts
      /\ Len(found) >= 1 => found'[1] = found[1]
  BY <1>1, <1>2
<1>4. found' # <<>> /\ Len(found') <= 2
  BY <1>1, <1>2, <1>3, EmptyIsZero
<1>5. TargetTypes' /\ WalkMeetsChildren' /\ WalkStaysBelow' /\ WalkHasHosts'
  <2>1. CASE found = <<>>
    <3>1. WalkTypes' /\ WalkMeetsChildren' /\ WalkStaysBelow' /\ WalkHasHosts'
      <4>1. query' \in TargetQueries /\ walk' = Start(AgentGroup)
        BY <1>1, <1>2, <2>1
      <4>2. (query \in TargetQueries /\ (walk = Start(ControlGroup) \/ walk = Start(AgentGroup))
                => WalkTypes /\ WalkMeetsChildren /\ WalkStaysBelow /\ WalkHasHosts)'
        BY WalkStarts, PTL
      <4> QED BY <4>1, <4>2 DEF Start
    <3>2. walk'.for = AgentGroup
      BY <1>1, <2>1 DEF Start
    <3> QED BY <1>1, <1>2, <1>3, <1>4, <3>1, <3>2 DEF TargetTypes
  <2>2. CASE found # <<>>
    <3>1. walk' = walk
      BY <1>1, <2>2
    <3>2. TargetTypes'
      BY <1>1, <1>2, <1>3, <1>4, <2>2, <3>1 DEF TargetTypes, WalkTypes
    <3>3. WalkMeetsChildren' /\ WalkStaysBelow' /\ WalkHasHosts'
      BY <1>1, <3>1, WalkUnmoved
    <3> QED BY <3>2, <3>3
  <2> QED BY <2>1, <2>2
<1>6. HostsFound'
  <2>1. K3sTargets!Range(walk.hosts) = K3sTargets!HostsBelow(walk.for)
    BY <1>1, WalkEnds DEF TargetInv
  <2>3. K3sTargets!HostsBelow(ControlGroup)' = K3sTargets!HostsBelow(ControlGroup)
        /\ K3sTargets!HostsBelow(AgentGroup)' = K3sTargets!HostsBelow(AgentGroup)
    BY <1>1, BelowUnmoved
  <2>4. CASE found = <<>>
    <3>1. Len(found') = 1 /\ found'[1] = walk.hosts /\ walk.for = ControlGroup
      BY <1>2, <1>3, <2>4
    <3> QED BY <2>1, <2>3, <3>1 DEF HostsFound, K3sTargets!Range
  <2>5. CASE found # <<>>
    <3>1. Len(found) = 1
      <4>1. found \in Seq(Seq(STRING))
        BY <1>2
      <4>2. Len(found) # 0
        BY <2>5, <4>1, EmptyIsZero, Zenon
      <4>3. Len(found) \in Nat /\ Len(found) < 2
        BY <1>1, <1>2
      <4>4. \A k \in Nat : k # 0 /\ k < 2 => k = 1
        OBVIOUS
      <4> QED BY <4>2, <4>3, <4>4, Zenon
    <3>2. Len(found') = 2 /\ found'[2] = walk.hosts /\ walk.for = AgentGroup /\ found'[1] = found[1]
      BY <1>2, <1>3, <2>5, <3>1
    <3>3. K3sTargets!Range(found[1]) = K3sTargets!HostsBelow(ControlGroup)
      BY <3>1 DEF TargetInv, HostsFound
    <3> QED BY <2>1, <2>3, <3>2, <3>3 DEF HostsFound, K3sTargets!Range
  <2> QED BY <2>4, <2>5
<1>7. K3sTargets!EveryNodeOnce'
  BY <1>1 DEF K3sTargets!EveryNodeOnce
<1> QED BY <1>5, <1>6, <1>7 DEF TargetInv

(* A list without repetitions has as many places as it has members.        *)
LEMMA CountedOnce ==
    ASSUME NEW list \in Seq(STRING), NoRepeats(list)
    PROVE  Len(list) = K3sTargets!Cardinality(K3sTargets!Range(list))
<1> DEFINE S == K3sTargets!Range(list)
           n == Len(list)
<1>1. n \in Nat /\ list \in [1 .. n -> S] /\ S = {list[m] : m \in 1 .. n}
  BY DEF K3sTargets!Range
<1> HIDE DEF S
<1>2. list \in Bijection(1 .. n, S)
  BY <1>1 DEF NoRepeats, Bijection, Injection, Surjection, IsInjective
<1> HIDE DEF n
<1>3. IsFiniteSet(1 .. n) /\ Cardinality(1 .. n) = n
  <2>1. 1 \in Int /\ n \in Int
    BY <1>1
  <2>2. IsFiniteSet(1 .. n) /\ Cardinality(1 .. n) = IF 1 > n THEN 0 ELSE n - 1 + 1
    BY <2>1, FS_Interval, Zenon
  <2> QED BY <1>1, <2>2
<1>4. ExistsBijection(1 .. n, S)
  BY <1>2 DEF ExistsBijection
<1>5. Cardinality(1 .. n) = Cardinality(S)
  BY <1>3, <1>4, FS_Bijection, Zenon
<1>6. K3sTargets!Cardinality(S) = Cardinality(S)
  BY Zenon DEF K3sTargets!Cardinality, Cardinality
<1> QED BY <1>3, <1>5, <1>6 DEF S, n

LEMMA ResolutionOnce ==
    ASSUME TargetInv, Len(found) = 2, NEW res, res = K3sTargets!Resolution(found[1], found[2]), res.status = "resolved"
    PROVE  /\ K3sTargets!Range(res.node_hosts) = K3sTargets!HostsBelow(ControlGroup) \cup K3sTargets!HostsBelow(AgentGroup)
           /\ \A m, n \in DOMAIN res.targets : res.targets[m][2] = res.targets[n][2] => m = n
           /\ res.expected_nodes = K3sTargets!Cardinality(K3sTargets!Range(res.node_hosts))
           /\ K3sTargets!HostsBelow(ControlGroup) = {Head(res.node_hosts)} /\ res.control = res.targets[1]
<1> DEFINE controls == found[1]
           agents == found[2]
           hosts == K3sTargets!Unique(controls \o agents)
           bad == K3sTargets!Rejected(hosts)
<1>1. controls \in Seq(STRING) /\ agents \in Seq(STRING)
  <2>1. found \in Seq(Seq(STRING))
    BY DEF TargetInv, TargetTypes
  <2>2. 1 \in 1 .. Len(found) /\ 2 \in 1 .. Len(found)
    OBVIOUS
  <2>3. found[1] \in Seq(STRING) /\ found[2] \in Seq(STRING)
    BY <2>1, <2>2, MemberOf, Zenon
  <2> QED BY <2>3
<1>2. /\ K3sTargets!Range(controls) = K3sTargets!HostsBelow(ControlGroup)
      /\ K3sTargets!Range(agents) = K3sTargets!HostsBelow(AgentGroup)
  BY DEF TargetInv, HostsFound
<1>3. /\ controls # <<>> /\ ~(Len(controls) > 1) /\ bad = {}
      /\ res.control = K3sTargets!SshTarget(Head(controls)) /\ res.node_hosts = hosts
      /\ res.targets = [n \in DOMAIN hosts |-> K3sTargets!SshTarget(hosts[n])]
      /\ res.expected_nodes = Len(hosts)
  <2> HIDE DEF controls, agents
  <2> QED BY DEF K3sTargets!Resolution, K3sTargets!Fallback, controls, agents
<1> HIDE DEF controls, agents
<1>31. controls # <<>> /\ Len(controls) = 1 /\ Head(controls) = controls[1]
  <2>1. controls # <<>> /\ ~(Len(controls) > 1)
    BY <1>3
  <2>2. Len(controls) \in Nat
    BY <1>1
  <2>3. Len(controls) # 0
    BY <1>1, <2>1, EmptyIsZero
  <2>4. ~(Len(controls) > 1)
    BY <2>1
  <2>5. Len(controls) = 1
    <3>1. \A k \in Nat : k # 0 /\ ~(k > 1) => k = 1
      OBVIOUS
    <3> QED BY <2>2, <2>3, <2>4, <3>1, Zenon
  <2>6. Head(controls) = controls[1]
    BY <1>1, <2>1
  <2> QED BY <2>1, <2>5, <2>6
<1>4. /\ controls \o agents \in Seq(STRING) /\ controls \o agents # <<>>
      /\ (controls \o agents)[1] = controls[1]
      /\ K3sTargets!Range(controls \o agents) = K3sTargets!Range(controls) \cup K3sTargets!Range(agents)
  <2>1. /\ controls \o agents \in Seq(STRING)
        /\ K3sTargets!Range(controls \o agents) = K3sTargets!Range(controls) \cup K3sTargets!Range(agents)
    BY <1>1, JoinedRange
  <2>2. Len(agents) \in Nat /\ Len(controls \o agents) = Len(controls) + Len(agents)
    BY <1>1
  <2>3. (controls \o agents)[1] = controls[1]
    BY <1>1, <1>31
  <2>4. Len(controls \o agents) # 0
    BY <1>31, <2>2
  <2> QED BY <2>1, <2>3, <2>4, EmptyIsZero
<1>5. /\ hosts \in Seq(STRING) /\ NoRepeats(hosts) /\ hosts # <<>> /\ hosts[1] = controls[1]
      /\ K3sTargets!Range(hosts) = K3sTargets!Range(controls) \cup K3sTargets!Range(agents)
  BY <1>4, UniqueRange
<1> HIDE DEF hosts, bad
<1>6. DOMAIN hosts = 1 .. Len(hosts) /\ Len(hosts) \in Nat \ {0} /\ Head(hosts) = hosts[1]
  BY <1>5
<1>7. \A n \in DOMAIN hosts : \A m \in 1 .. n - 1 : K3sTargets!Address(hosts[m]) # K3sTargets!Address(hosts[n])
  BY <1>3 DEF bad, K3sTargets!Rejected, K3sTargets!SameNode
<1>8. \A m, n \in DOMAIN res.targets : res.targets[m][2] = res.targets[n][2] => m = n
  <2>1. DOMAIN res.targets = 1 .. Len(hosts) /\ \A n \in 1 .. Len(hosts) : res.targets[n][2] = K3sTargets!Address(hosts[n])
    BY <1>3, <1>6 DEF K3sTargets!SshTarget
  <2>2. \A m, n \in 1 .. Len(hosts) : m < n => m \in 1 .. n - 1
    BY <1>6
  <2>3. \A m, n \in 1 .. Len(hosts) : m < n \/ n < m \/ m = n
    BY <1>6
  <2> QED BY <1>6, <1>7, <2>1, <2>2, <2>3
<1>9. K3sTargets!HostsBelow(ControlGroup) = {Head(hosts)}
  <2>1. DOMAIN controls = {1}
    <3>1. DOMAIN controls = 1 .. Len(controls)
      BY <1>1
    <3> QED BY <1>31, <3>1
  <2>2. K3sTargets!Range(controls) = {controls[1]}
    BY <2>1 DEF K3sTargets!Range
  <2> QED BY <1>2, <1>5, <1>6, <2>2
<1>10. res.control = res.targets[1]
  BY <1>3, <1>31, <1>5, <1>6
<1> QED BY <1>2, <1>3, <1>5, <1>8, <1>9, <1>10, CountedOnce

LEMMA ResolutionKeeps == TargetInv /\ K3sTargets!Answer => TargetInv'
<1> SUFFICES ASSUME TargetInv, K3sTargets!Answer PROVE TargetInv'
  OBVIOUS
<1> DEFINE res == K3sTargets!Resolution(found[1], found[2])
<1>1. Len(found) = 2 /\ answer'.inventory = res /\ UNCHANGED <<query, walk, found>>
  BY DEF K3sTargets!Answer
<1>2. TargetTypes' /\ WalkMeetsChildren' /\ WalkStaysBelow' /\ WalkHasHosts' /\ HostsFound'
  BY <1>1, TypesUnmoved, WalkUnmoved, FoundUnmoved
<1> HIDE DEF res
<1>3. K3sTargets!EveryNodeOnce'
  <2> SUFFICES ASSUME answer'.inventory.status = "resolved" PROVE K3sTargets!EveryNodeOnce'
    BY DEF K3sTargets!EveryNodeOnce
  <2>1. K3sTargets!HostsBelow(ControlGroup)' = K3sTargets!HostsBelow(ControlGroup)
        /\ K3sTargets!HostsBelow(AgentGroup)' = K3sTargets!HostsBelow(AgentGroup)
    BY <1>1, BelowUnmoved
  <2>2. res = K3sTargets!Resolution(found[1], found[2])
    BY DEF res
  <2> QED BY <1>1, <2>1, <2>2, ResolutionOnce DEF K3sTargets!EveryNodeOnce, K3sTargets!Range
<1> QED BY <1>2, <1>3 DEF TargetInv

LEMMA TargetUnmoved == TargetInv /\ UNCHANGED <<query, walk, found, answer>> => TargetInv'
<1> SUFFICES ASSUME TargetInv, UNCHANGED <<query, walk, found, answer>> PROVE TargetInv'
  OBVIOUS
<1>1. TargetTypes' /\ WalkMeetsChildren' /\ WalkStaysBelow' /\ WalkHasHosts' /\ HostsFound'
  BY TypesUnmoved, WalkUnmoved, FoundUnmoved
<1>2. K3sTargets!EveryNodeOnce
  BY DEF TargetInv
<1>3. K3sTargets!EveryNodeOnce'
  BY <1>2, BelowUnmoved DEF K3sTargets!EveryNodeOnce, K3sTargets!Range, K3sTargets!Cardinality
<1> QED BY <1>1, <1>3 DEF TargetInv

\* pi_k3s_inventory_targets.py: of every inventory that resolves, however its
\* groups are nested, shared or cyclic, the hosts below the two groups are listed
\* once each, under an address of their own, and counted.
THEOREM TargetsEveryNodeOnce == Spec => []EveryNodeOnce
<1> DEFINE I == Is("K3sTargets") => TargetInv
<1>1. Init => I
  <2> SUFFICES ASSUME K3sTargets!Init PROVE TargetInv
    BY DEF Init, Is
  <2>1. query \in TargetQueries /\ found = <<>> /\ answer.inventory.status # "resolved" /\ walk = Start(ControlGroup)
    BY DEF K3sTargets!Init, Start
  <2>2. WalkTypes /\ WalkMeetsChildren /\ WalkStaysBelow /\ WalkHasHosts
    BY <2>1, WalkStarts
  <2>3. walk.for = ControlGroup /\ Len(found) = 0 /\ found \in Seq(Seq(STRING))
    BY <2>1 DEF Start
  <2>4. TargetTypes /\ HostsFound /\ K3sTargets!EveryNodeOnce
    BY <2>1, <2>2, <2>3 DEF TargetTypes, HostsFound, K3sTargets!EveryNodeOnce
  <2> QED BY <2>2, <2>4 DEF TargetInv
<1>2. I /\ [Next]_vars => I'
  <2> SUFFICES ASSUME I, [Next]_vars, Is("K3sTargets")' PROVE TargetInv'
    OBVIOUS
  <2>1. CASE UNCHANGED vars
    <3>1. UNCHANGED <<query, walk, found, answer>> /\ TargetInv
      BY <2>1 DEF vars, targetVars, Is
    <3> QED BY <3>1, TargetUnmoved
  <2>2. CASE Next
    <3>1. CASE Is("K3sTargets") /\ K3sTargets!Next
      BY <3>1, VisitKeeps, NextGroupKeeps, ResolutionKeeps DEF K3sTargets!Next
    <3>2. CASE ~(Is("K3sTargets") /\ K3sTargets!Next)
      BY <2>2, <3>2 DEF Next, Others, Is
    <3> QED BY <3>1, <3>2
  <2> QED
    BY <2>1, <2>2
<1>3. I => EveryNodeOnce
  BY DEF TargetInv, EveryNodeOnce
<1> QED
  BY <1>1, <1>2, <1>3, PTL DEF Spec
=============================================================================
