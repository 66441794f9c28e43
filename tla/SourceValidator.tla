--------------------------- MODULE SourceValidator ---------------------------
(* pxe_standard_source_validate.py and rpi5_common_kernel_source_validate.py:
   the required paths, the revision, a clean status, then the fixed checks one
   by one on the working tree, which others may change meanwhile.              *)
EXTENDS Naturals, FiniteSets

CONSTANTS Commits,    \* revisions of the repository
          Checks,     \* how many checks a validator runs
          MaxMoves    \* bound: changes of the checkout by others

VARIABLES
  healthy,    \* [Commits -> SUBSET checks]: the checks a clean tree of it passes
  repo,       \* [head, dirty]: a dirty tree passes the checks in repo.passes
  gate,       \* the validator: [step, revision, done, quiet]
  outcome,    \* its result: [status, reason, revision, checks]
  moves       \* how many changes others made

validatorVars == <<healthy, repo, gate, outcome, moves>>

AllChecks == 1..Checks
(* The checks the tree passes as it is now. *)
Passes == IF repo.dirty THEN repo.passes ELSE healthy[repo.head]

Start == [step |-> "paths", revision |-> 0, done |-> 0, quiet |-> TRUE]
NoOutcome == [status |-> "none", reason |-> "none", revision |-> 0, checks |-> 0]

Init ==
  /\ healthy \in [Commits -> SUBSET AllChecks]
  /\ repo \in [head: Commits, dirty: BOOLEAN, passes: SUBSET AllChecks]
  /\ gate = Start /\ outcome = NoOutcome /\ moves = 0

Result(status, reason) ==
  /\ outcome' = [status |-> status, reason |-> reason, revision |-> gate.revision,
                 checks |-> gate.done]
  /\ gate' = [gate EXCEPT !.step = "ended"]
GoOn(step) == gate' = [gate EXCEPT !.step = step] /\ UNCHANGED outcome
Reads == UNCHANGED <<healthy, repo, moves>>

(* SOURCE_PATHS: each has to be a regular file. *)
Paths ==
  /\ gate.step = "paths"
  /\ GoOn("revision") \/ Result("blocked", "path_missing") \/ Result("blocked", "path_invalid")
  /\ Reads

(* git rev-parse HEAD *)
Revision ==
  /\ gate.step = "revision"
  /\ \/ gate' = [gate EXCEPT !.step = "status", !.revision = repo.head, !.quiet = TRUE]
          /\ UNCHANGED outcome
     \/ Result("unknown", "revision_unavailable")
     \/ Result("unknown", "revision_invalid")
  /\ Reads

(* Mutant: the status is not asked for. *)
IsCleanAssumed == TRUE

(* git status --porcelain --untracked-files=normal *)
IsClean == ~repo.dirty

Status ==
  /\ gate.step = "status"
  /\ \/ IF IsClean THEN GoOn("checks") ELSE Result("blocked", "repository_dirty")
     \/ Result("unknown", "status_unavailable")
  /\ Reads

(* One check: no result, a failure, or on to the next. *)
RunCheck ==
  /\ gate.step = "checks" /\ gate.done < Checks
  /\ \/ Result("unknown", "check_unavailable")
     \/ IF gate.done + 1 \in Passes
        THEN gate' = [gate EXCEPT !.done = @ + 1] /\ UNCHANGED outcome
        ELSE Result("blocked", "check_failed")
  /\ Reads

Validated ==
  /\ gate.step = "checks" /\ gate.done = Checks
  /\ Result("pass", "source_validated")
  /\ Reads

(* Somebody checks out a commit, edits the tree or restores it. *)
Move ==
  /\ moves < MaxMoves /\ moves' = moves + 1
  /\ repo' \in [head: Commits, dirty: BOOLEAN, passes: SUBSET AllChecks] \ {repo}
  /\ gate' = [gate EXCEPT !.quiet = FALSE]
  /\ UNCHANGED <<healthy, outcome>>

(* The next invocation. *)
Again ==
  /\ gate.step = "ended"
  /\ gate' = Start /\ outcome' = NoOutcome
  /\ Reads

Next == Paths \/ Revision \/ Status \/ RunCheck \/ Validated \/ Move \/ Again

Spec == Init /\ [][Next]_validatorVars

-----------------------------------------------------------------------------

(* A pass vouches for the commit it names: every check passes on a clean tree of
   that revision, unless the checkout was changed between the reading of the
   revision and the end (the validator does not look again).                    *)
PassVouchesForRevision ==
  outcome.status = "pass" /\ gate.quiet => healthy[outcome.revision] = AllChecks
==============================================================================
