--------------------------- MODULE ReleaseIdentity ---------------------------
(* The two release-identity probes: pxe_release_identity_status.py (is a bundle
   date unused?) and rpi5_common_kernel_identity_status.py (are a kernel build
   date and a bundle date unused?), which asks the inventory and two machines
   one after the other, around the builds, inventory edits and clean-ups whose
   traces they look for.  A date is a number; 0 is a string that is no date.   *)
EXTENDS Naturals

CONSTANTS Dates,     \* candidate dates, 0 included
          BundlePaths \* the paths a bundle leaves on OpenWrt

VARIABLES
  stageDate,   \* openwrt_gentoo_release_bundle_stage_dates.stg
  kernelDate,  \* rpi5_common_kernel_build_stage_date
  override,    \* the inventory overrides a path or release the probe derives
  bundles,     \* paths on OpenWrt: <<date, path>>
  kernels,     \* dates with a build directory or archive on the builder
  probe,       \* the running probe: [step, kernel, pxe, moved]
  verdict,     \* its answer: [status, reason, kernel, pxe, kernelDate, pxeDate]
  everBuilt    \* ghost: bundle dates a build was ever started for

identityVars == <<stageDate, kernelDate, override, bundles, kernels, probe, verdict,
                  everBuilt>>

Valid(d) == d # 0
World == <<stageDate, kernelDate, override, bundles, kernels, everBuilt>>
NoProbe == [step |-> "none", kernel |-> 0, pxe |-> 0, moved |-> FALSE]
Terminal(status, reason, k, p) ==
  [status |-> status, reason |-> reason, kernelIdentity |-> k, pxeIdentity |-> p,
   kernelDate |-> probe.kernel, pxeDate |-> probe.pxe]
NoVerdict == [status |-> "unknown", reason |-> "source_unavailable",
              kernelIdentity |-> "unknown", pxeIdentity |-> "unknown",
              kernelDate |-> 0, pxeDate |-> 0]

Init ==
  /\ stageDate \in Dates /\ kernelDate \in Dates /\ override \in BOOLEAN
  /\ bundles = {<<stageDate, p>> : p \in BundlePaths}
  /\ kernels = {kernelDate}
  /\ everBuilt = {stageDate}
  /\ probe = NoProbe /\ verdict = NoVerdict

Answer(status, reason, k, p) ==
  /\ verdict' = Terminal(status, reason, k, p) /\ probe' = NoProbe
  /\ UNCHANGED World
GoOn(step) ==
  probe' = [probe EXCEPT !.step = step] /\ UNCHANGED verdict /\ UNCHANGED World

(* A command that fails, times out or prints what is not expected. *)
Unavailable(k, p) == Answer("unknown", "source_unavailable", k, p)

Ask ==
  /\ probe = NoProbe
  /\ \E k \in Dates, p \in Dates: probe' = [NoProbe EXCEPT !.step = "dates", !.kernel = k,
                                                                    !.pxe = p]
  /\ verdict' = NoVerdict /\ UNCHANGED World

CheckDates ==
  /\ probe.step = "dates"
  /\ IF Valid(probe.kernel) /\ Valid(probe.pxe) THEN GoOn("builder_contract")
     ELSE Answer("blocked", "probe_blocked", "unknown", "unknown")

(* _builder_contract: the builder's inventory date, and no override of what the
   probe derives from it.  The kernel date is in use when it is the current one. *)
BuilderContract ==
  /\ probe.step = "builder_contract"
  /\ \/ Unavailable("unknown", "not_checked")
     \/ /\ Valid(kernelDate)
        /\ CASE override -> Answer("blocked", "probe_blocked", "unknown", "not_checked")
             [] ~override /\ kernelDate = probe.kernel ->
                  Answer("blocked", "kernel_identity_in_use", "in_use", "not_checked")
             [] OTHER -> GoOn("builder_paths")

(* _builder_collision: the build directory, the archive or its checksum exists. *)
BuilderPaths ==
  /\ probe.step = "builder_paths"
  /\ \/ Unavailable("unknown", "not_checked")
     \/ IF probe.kernel \in kernels
        THEN Answer("blocked", "kernel_identity_in_use", "in_use", "not_checked")
        ELSE GoOn("stage_date")

(* Mutant: only the current date itself is taken. *)
NotAheadEqual(candidate) == candidate = stageDate

(* probe_candidate compares dates as strings of eight digits. *)
NotAhead(candidate) == candidate <= stageDate

StageDate ==
  /\ probe.step = "stage_date"
  /\ \/ Unavailable("available", "unknown")
     \/ /\ Valid(stageDate)
        /\ IF NotAhead(probe.pxe)
           THEN Answer("blocked", "pxe_identity_in_use", "available", "in_use")
           ELSE GoOn("bundle_paths")

(* _remote_collision: the manifest, a root file system or a TFTP tree exists. *)
Collides(candidate) == \E p \in BundlePaths: <<candidate, p>> \in bundles

RemotePaths ==
  /\ probe.step = "bundle_paths"
  /\ \/ Unavailable("available", "unknown")
     \/ IF Collides(probe.pxe)
        THEN Answer("blocked", "pxe_identity_in_use", "available", "in_use")
        ELSE Answer("pass", "identities_available", "available", "available")

-----------------------------------------------------------------------------
(* What happens between probes.                                                *)

Unprobed == UNCHANGED <<verdict, override>>

(* A gated build: it starts on a passed verdict and leaves path after path. *)
Build ==
  /\ verdict.status = "pass"
  /\ \E p \in BundlePaths:
       /\ <<verdict.pxeDate, p>> \notin bundles
       /\ bundles' = bundles \cup {<<verdict.pxeDate, p>>}
  /\ everBuilt' = everBuilt \cup {verdict.pxeDate}
  /\ kernels' = kernels \cup {verdict.kernelDate}
  /\ UNCHANGED <<stageDate, kernelDate, probe>> /\ Unprobed

(* The inventory moves on to a bundle, and to the kernel of a build. *)
Adopt ==
  /\ \E d \in everBuilt:
       d > stageDate /\ (\A p \in BundlePaths: <<d, p>> \in bundles) /\ stageDate' = d
  /\ kernelDate' \in kernels
  /\ probe' = [probe EXCEPT !.moved = probe.step # "none"]
  /\ UNCHANGED <<bundles, kernels, everBuilt>> /\ Unprobed

(* Old bundles and old kernel builds are removed (cleanup_old_builds.py). *)
Prune ==
  /\ \/ \E e \in bundles:
          e[1] < stageDate /\ bundles' = bundles \ {e} /\ UNCHANGED kernels
     \/ \E k \in kernels:
          k # kernelDate /\ kernels' = kernels \ {k} /\ UNCHANGED bundles
  /\ UNCHANGED <<stageDate, kernelDate, everBuilt, probe>> /\ Unprobed

Next == \/ Ask \/ CheckDates \/ BuilderContract \/ BuilderPaths \/ StageDate
        \/ RemotePaths \/ Build \/ Adopt \/ Prune

Spec == Init /\ [][Next]_identityVars

-----------------------------------------------------------------------------

(* A bundle date passes only if no build was ever started under it: not one that
   failed half-way, and not one whose paths a clean-up has removed since.  (When
   the inventory moves on while the probe is running, the date it read first is
   not read again, and the clean-up may win the race.)                           *)
FreshPass ==
  verdict'.status = "pass" /\ verdict.status # "pass" /\ ~probe.moved =>
    verdict'.pxeDate \notin everBuilt
IdentityNeverReused == [][FreshPass]_identityVars
==============================================================================
