----------------------------- MODULE PullWrapper -----------------------------
(* The boot-time configuration pull of a PXE node: pxe-ansible-pull-wrapper.sh,
   started per role under flock on /run/ansible-pull.lock, the source pin it
   resolves (pxe-source-pin.py), the checkout it prepares, the receipts it leaves
   in /run/ansible-pull, and the read-only programs that turn those files into
   evidence while another run may be writing them.

   A revision stands for a commit and for the requirements.yml of that commit; a
   declaration's digest is the declaration itself.  Files are written at once:
   a half-written one fails the readers' parse and reads as an absent one.      *)
EXTENDS Naturals, Sequences

CONSTANTS Roles,      \* the roles of the node
          AgentRole,  \* the role that waits for a k3s token
          Revisions,  \* commits of the repository
          Builds,     \* build identifiers
          None,       \* a file, a field or a verdict that is not there
          TokenWait,  \* K3S_STG_AGENT_TOKEN_WAIT_SECS
          Skew,       \* MAX_SKEW_SECONDS of the receipt readers
          MaxRuns,    \* bound: wrapper runs
          MaxBoots,   \* bound: boots
          MaxEdits,   \* bound: changes made by others
          MaxClock    \* bound: the clock

VARIABLES
  node,      \* [boot, since, clock, mode, stage]: the boot and the image it runs
  declared,  \* /etc/ansible-pull/source-declaration.json
  tip,       \* the commit the stage's branch points to
  token,     \* TRUE: the k3s token file is fresh and its CA is the server's
  checkout,  \* DEST: [head, modified, untracked, galaxy]
  marker,    \* pinned-source-prepared.env
  wrapper,   \* the run that holds the lock: [step, role, run, pin, deadline, ok, touched]
  files,     \* per role: [state, receipt, execution]; "last" holds last.env
  history,   \* ghost: what each run played and how it ended
  reader,    \* the program that is reading evidence
  edits      \* how many changes others made

vars == <<node, declared, tip, token, checkout, marker, wrapper, files, history,
          reader, edits>>

Pins == [rev: Revisions, build: Builds]
(* "shared" is a valid declaration that its group may write. *)
Declarations == {[kind |-> "absent"], [kind |-> "bad"]}
                  \cup [kind: {"good", "shared"}, pin: Pins]
LegacyPin == [rev |-> None, build |-> None]
NoCheckout == [head |-> None, modified |-> FALSE, untracked |-> FALSE, galaxy |-> None]
NoFiles == [state |-> None, receipt |-> None, execution |-> None]
Idle == [step |-> "idle", role |-> None, run |-> 0, pin |-> LegacyPin,
         deadline |-> 0, ok |-> FALSE, touched |-> FALSE]
QuietReader == [kind |-> None, role |-> None, now |-> 0, receipt |-> None]

Init ==
  /\ node \in [boot: {1}, since: {0}, clock: {0}, mode: {"legacy", "pinned"},
               stage: {"stg", "prod"}]
  /\ declared \in Declarations
  /\ tip = CHOOSE r \in Revisions: TRUE
  /\ token \in BOOLEAN
  /\ checkout = NoCheckout
  /\ marker = None
  /\ wrapper = Idle
  /\ files = [r \in Roles \cup {"last"} |-> NoFiles]
  /\ history = <<>>
  /\ reader = QuietReader
  /\ edits = 0

-----------------------------------------------------------------------------
(* The pin, the marker and the token.                                          *)

Staging == node.stage = "stg"

(* decode_declaration: bytes, JSON, keys, schema, environment and identities
   are in order; nothing is asked of the file's owner or mode.                 *)
Decodes(d) == d.kind \in {"good", "shared"} /\ Staging

(* resolve: legacy only when there is no declaration at all; pinned only on a
   staging node with a declaration that decodes.  None is a refusal.           *)
Resolve ==
  CASE node.mode = "legacy" /\ declared.kind = "absent" -> LegacyPin
    [] node.mode = "pinned" /\ Staging /\ Decodes(declared) -> declared.pin
    [] OTHER -> None

Pinned == wrapper.pin # LegacyPin

TreeClean == ~checkout.modified /\ ~checkout.untracked

(* Mutant: the marker and HEAD alone are taken for a prepared tree. *)
PrepareCurrentByHead ==
  /\ marker = [pin |-> wrapper.pin, boot |-> node.boot]
  /\ checkout.head = wrapper.pin.rev

(* pinned_prepare_is_current: the marker of this boot names this pin, HEAD is
   the pin, the tree is clean and the galaxy content is what it requires.      *)
PrepareCurrent ==
  /\ marker = [pin |-> wrapper.pin, boot |-> node.boot]
  /\ checkout.head = wrapper.pin.rev
  /\ TreeClean
  /\ checkout.galaxy = wrapper.pin.rev

(* The token is usable and its CA is the server's. *)
TokenUsable == token

(* Mutant: the wait has no deadline. *)
TokenTimedOutNever == FALSE

TokenTimedOut == node.clock >= wrapper.deadline

-----------------------------------------------------------------------------
(* The wrapper.  A command that fails ends the script through the finish trap. *)

GoTo(step) == wrapper' = [wrapper EXCEPT !.step = step]
Fail == wrapper' = [wrapper EXCEPT !.step = "log", !.ok = FALSE]
Env == UNCHANGED <<declared, tip, token, edits, reader>>
Quiet == UNCHANGED <<node, checkout, marker, files, history>> /\ Env

(* systemd starts the unit of a role; flock keeps the runs apart.  A run takes
   time, so that its files are younger than those of the run before.           *)
Start(r) ==
  /\ wrapper.step = "idle"
  /\ Len(history) < MaxRuns
  /\ node.clock + 1 + TokenWait <= MaxClock
  /\ node' = [node EXCEPT !.clock = @ + 1]
  /\ wrapper' = [Idle EXCEPT !.step = "pin", !.role = r, !.run = Len(history) + 1]
  /\ history' = Append(history, [role |-> r, boot |-> node.boot, played |-> None,
                                 ok |-> FALSE])
  /\ UNCHANGED <<checkout, marker, files>> /\ Env

(* resolve_branch and source_pin; then the k3s agent's wait gets its deadline. *)
ResolvePin ==
  /\ wrapper.step = "pin"
  /\ IF Resolve = None
     THEN Fail
     ELSE wrapper' = [wrapper EXCEPT !.step = "vars", !.pin = Resolve,
                                     !.deadline = node.clock + TokenWait]
  /\ Quiet

(* prepare_role_extra_vars: the agent polls for its token until the deadline. *)
ExtraVars ==
  /\ wrapper.step = "vars"
  /\ \/ (wrapper.role = AgentRole => TokenUsable) /\ GoTo("prepare")
     \/ wrapper.role = AgentRole /\ ~TokenUsable /\ TokenTimedOut /\ Fail
  /\ Quiet

(* A pinned run reuses a current preparation, else it forgets the marker. *)
Prepare ==
  /\ wrapper.step = "prepare"
  /\ IF Pinned /\ PrepareCurrent
     THEN GoTo("galaxy") /\ UNCHANGED marker
     ELSE GoTo("fetch") /\ marker' = IF Pinned THEN None ELSE marker
  /\ UNCHANGED <<node, checkout, files, history>> /\ Env

(* git fetch of the pin or the branch; the old galaxy roles go away. *)
Fetch ==
  /\ wrapper.step = "fetch"
  /\ \/ GoTo("reset") /\ checkout' = [checkout EXCEPT !.galaxy = None]
     \/ Fail /\ UNCHANGED checkout
  /\ UNCHANGED <<node, marker, files, history>> /\ Env

(* git reset --hard; a pinned run refuses untracked source. *)
Reset ==
  /\ wrapper.step = "reset"
  /\ checkout' = [checkout EXCEPT !.head = IF Pinned THEN wrapper.pin.rev ELSE tip,
                                  !.modified = FALSE]
  /\ IF Pinned /\ checkout.untracked THEN Fail ELSE GoTo("galaxy")
  /\ UNCHANGED <<node, marker, files, history>> /\ Env

(* ansible-galaxy, unless the preparation is current; a pinned run then checks
   what was installed and the tree, and leaves the marker.                     *)
Galaxy ==
  /\ wrapper.step = "galaxy"
  /\ \/ /\ Pinned /\ PrepareCurrent
        /\ GoTo("verify") /\ UNCHANGED <<checkout, marker>>
     \/ /\ ~(Pinned /\ PrepareCurrent)
        /\ checkout' = [checkout EXCEPT !.galaxy = checkout.head]
        /\ IF ~Pinned THEN GoTo("verify") /\ UNCHANGED marker
           ELSE IF TreeClean
           THEN GoTo("verify") /\ marker' = [pin |-> wrapper.pin, boot |-> node.boot]
           ELSE Fail /\ UNCHANGED marker
     \/ /\ ~(Pinned /\ PrepareCurrent)
        /\ checkout' = [checkout EXCEPT !.galaxy = None]
        /\ Fail /\ UNCHANGED marker
  /\ UNCHANGED <<node, files, history>> /\ Env

(* verify_source_pin looks at HEAD and at tracked files. *)
SourceVerified ==
  Pinned => checkout.head = wrapper.pin.rev /\ ~checkout.modified

(* The playbook: ansible-playbook on the verified tree, or ansible-pull, which
   moves the checkout to the branch itself.                                    *)
Play ==
  /\ wrapper.step = "verify"
  /\ IF SourceVerified
     THEN LET tree == IF Pinned THEN checkout
                      ELSE [checkout EXCEPT !.head = tip, !.modified = FALSE]
          IN /\ checkout' = tree
             /\ history' = [history EXCEPT ![wrapper.run].played = tree]
             /\ GoTo("play")
     ELSE Fail /\ UNCHANGED <<checkout, history>>
  /\ UNCHANGED <<node, marker, files>> /\ Env

PlayEnds ==
  /\ wrapper.step = "play"
  /\ \E ok \in BOOLEAN: wrapper' = [wrapper EXCEPT !.step = "log", !.ok = ok]
  /\ Quiet

(* log_state writes last.env and the role's state file. *)
LogState ==
  /\ wrapper.step = "log"
  /\ LET s == [ok |-> wrapper.ok, at |-> node.clock, run |-> wrapper.run] IN
     files' = [files EXCEPT !["last"].state = s, ![wrapper.role].state = s]
  /\ history' = [history EXCEPT ![wrapper.run].ok = wrapper.ok]
  /\ GoTo("post")
  /\ UNCHANGED <<node, checkout, marker>> /\ Env

Receipt == [head |-> checkout.head, pin |-> wrapper.pin, boot |-> node.boot,
            at |-> node.clock, run |-> wrapper.run]

(* record_post_pull_identity: the old receipt goes; a completed staging run
   leaves one with the HEAD it finds, if it can be written.                    *)
RecordPostPull ==
  /\ wrapper.step = "post"
  /\ \E r \in {None} \cup {Receipt}:
       /\ r # None => wrapper.ok /\ Staging /\ checkout.head # None
       /\ files' = [files EXCEPT ![wrapper.role].receipt = r]
  /\ GoTo("execution")
  /\ UNCHANGED <<node, checkout, marker, history>> /\ Env

(* What a pinned receipt requires at the end of the run. *)
StillPinned ==
  /\ wrapper.ok /\ Pinned
  /\ Resolve = wrapper.pin
  /\ checkout.head = wrapper.pin.rev /\ ~checkout.modified

(* record_pinned_execution_identity, and the end of the script. *)
RecordExecution ==
  /\ wrapper.step = "execution"
  /\ \E r \in {None} \cup {Receipt}:
       /\ r # None => StillPinned
       /\ files' = [files EXCEPT ![wrapper.role].execution = r]
  /\ wrapper' = Idle
  /\ UNCHANGED <<node, checkout, marker, history>> /\ Env

(* The script is killed: no trap, no receipts. *)
Kill ==
  /\ wrapper.step # "idle" /\ edits < MaxEdits
  /\ edits' = edits + 1
  /\ wrapper' = Idle
  /\ UNCHANGED <<node, declared, tip, token, checkout, marker, files, history, reader>>

-----------------------------------------------------------------------------
(* The readers.  They take the time, read the receipt, then the role's state.  *)

(* Mutant: the state may be younger than the receipt. *)
TimesAgreeAnyOrder(state, receipt, now) ==
  /\ node.since <= state.at /\ state.at <= now /\ receipt.at <= now

(* The times of a receipt and of the state beside it, seen at time now. *)
TimesAgree(state, receipt, now) ==
  /\ node.since <= state.at /\ state.at <= receipt.at /\ receipt.at <= now
  /\ receipt.at - state.at <= Skew

(* pxe_post_pull_receipt_status._read_role *)
PostPullRole(state, receipt, now) ==
  /\ receipt # None /\ state # None
  /\ Staging /\ receipt.boot = node.boot /\ state.ok
  /\ TimesAgree(state, receipt, now)

(* pxe_pinned_execution_status._read_role *)
PinnedRole(state, receipt, now) ==
  /\ PostPullRole(state, receipt, now)
  /\ receipt.pin \in Pins /\ receipt.pin.rev = receipt.head

(* pxe_node_lineage_status._state *)
LineageState(state) ==
  CASE state = None \/ ~Staging -> "unknown"
    [] state # None /\ Staging /\ node.since > state.at -> "unknown"
    [] OTHER -> IF state.ok THEN "completed" ELSE "not_completed"

(* pxe_node_lineage_status: the HEAD of the checkout beside the last run's state. *)
Lineage ==
  LET pull == LineageState(files["last"].state) IN
  [status |-> IF pull = "unknown" \/ checkout.head = None THEN "unknown" ELSE "partial",
   pull |-> pull, head |-> checkout.head]

(* pxe_node_source_declaration_status: the file must also be root's alone to
   write; the stage and the mode of the node are not asked for.                *)
DeclarationObserved == declared.kind = "good"

(* What each reader would report if it read its last file now. *)
Observed ==
  LET s == files[reader.role].state IN
  CASE reader.kind = "pinned" -> PinnedRole(s, reader.receipt, reader.now)
    [] reader.kind = "post-pull" -> PostPullRole(s, reader.receipt, reader.now)
    [] OTHER -> FALSE

Others == UNCHANGED <<node, declared, tip, token, checkout, marker, wrapper, files,
                      history, edits>>

(* A missing receipt ends the read at once. *)
ReadReceipt(kind, r) ==
  LET found == IF kind = "pinned" THEN files[r].execution ELSE files[r].receipt IN
  /\ reader = QuietReader /\ found # None
  /\ reader' = [kind |-> kind, role |-> r, now |-> node.clock, receipt |-> found]
  /\ Others

ReadState == reader # QuietReader /\ reader' = QuietReader /\ Others

-----------------------------------------------------------------------------
(* The world around.                                                           *)

Touch == wrapper' = [wrapper EXCEPT !.touched = wrapper.step # "idle"]

(* Somebody edits the checkout, spoils the galaxy content, or moves HEAD. *)
EditCheckout ==
  /\ edits < MaxEdits /\ edits' = edits + 1
  /\ \/ \E f \in {"modified", "untracked"}: checkout' = [checkout EXCEPT ![f] = ~@]
     \/ \E r \in Revisions \ {checkout.head}: checkout' = [checkout EXCEPT !.head = r]
     \/ checkout' = [checkout EXCEPT !.galaxy = None]
  /\ Touch
  /\ UNCHANGED <<node, declared, tip, token, marker, files, history, reader>>

(* The declaration, the branch or the token changes. *)
EditInputs ==
  /\ edits < MaxEdits /\ edits' = edits + 1
  /\ \/ declared' \in Declarations \ {declared} /\ UNCHANGED <<tip, token>>
     \/ tip' \in Revisions \ {tip} /\ UNCHANGED <<declared, token>>
     \/ token' = ~token /\ UNCHANGED <<declared, tip>>
  /\ UNCHANGED <<node, checkout, marker, wrapper, files, history, reader>>

(* A boot (a power failure is a Kill before it): /run starts empty, the checkout
   survives or is lost with the root, the image brings its mode and declaration. *)
Reboot ==
  /\ wrapper.step = "idle" /\ node.boot < MaxBoots
  /\ \E m \in {"legacy", "pinned"}:
       node' = [node EXCEPT !.boot = @ + 1, !.since = node.clock, !.mode = m]
  /\ declared' \in Declarations
  /\ checkout' \in {checkout, NoCheckout}
  /\ marker' = None /\ reader' = QuietReader
  /\ files' = [r \in Roles \cup {"last"} |-> NoFiles]
  /\ UNCHANGED <<tip, token, wrapper, history, edits>>

Tick ==
  /\ wrapper.step \in {"vars", "post"} /\ node.clock < MaxClock
  /\ node.clock < wrapper.deadline \/ wrapper.step = "post"
  /\ node' = [node EXCEPT !.clock = @ + 1]
  /\ UNCHANGED <<declared, tip, token, checkout, marker, wrapper, files, history,
                 reader, edits>>

Wrapper == \/ ResolvePin \/ ExtraVars \/ Prepare \/ Fetch \/ Reset \/ Galaxy \/ Play
           \/ PlayEnds \/ LogState \/ RecordPostPull \/ RecordExecution
Readers == \/ \E k \in {"post-pull", "pinned"}, r \in Roles: ReadReceipt(k, r)
           \/ ReadState
World == EditCheckout \/ EditInputs \/ Reboot \/ Kill

Next == (\E r \in Roles: Start(r)) \/ Wrapper \/ Readers \/ World \/ Tick
Spec == Init /\ [][Next]_vars

(* The script runs on and time passes. *)
Fairness == WF_vars(Wrapper) /\ WF_vars(Tick)
FairSpec == Spec /\ Fairness

-----------------------------------------------------------------------------

(* What the evidence readers say is so, whichever files of which runs they met:
   an observed receipt was written by the run that wrote the state beside it, in
   this boot, and that run completed; a pinned-execution receipt names the tree
   its playbook was started on; the lineage probe says "completed" only of a run
   of this boot that completed.  While the declaration probe shows a declaration,
   no run resolves to anything else: it takes the declared pin or is refused, and
   on a staging node in pinned mode it takes it.  On a production node, or in
   legacy mode, the probe shows a declaration that every run refuses.           *)
ReportsTrue ==
  /\ Observed =>
       LET h == history[reader.receipt.run] IN
       /\ files[reader.role].state.run = reader.receipt.run
       /\ h.ok /\ h.boot = node.boot /\ h.role = reader.role
       /\ reader.kind = "pinned" => /\ h.played.head = reader.receipt.pin.rev
                                    /\ ~h.played.modified
  /\ Lineage.status = "partial" /\ Lineage.pull = "completed" =>
       LET h == history[files["last"].state.run] IN h.ok /\ h.boot = node.boot
  /\ DeclarationObserved => /\ Resolve \in {None, declared.pin}
                            /\ node.mode = "pinned" /\ Staging => Resolve = declared.pin

(* A pinned run nobody interferes with starts its playbook on exactly the pinned
   commit, with no change, no stray source and that commit's galaxy content,
   whatever earlier runs, kills, cache markers and boots left behind.           *)
UndisturbedIsExact ==
  wrapper.step = "play" /\ Pinned /\ ~wrapper.touched =>
    history[wrapper.run].played =
      [head |-> wrapper.pin.rev, modified |-> FALSE, untracked |-> FALSE,
       galaxy |-> wrapper.pin.rev]

(* The lock is always given back: a run ends whether or not its token ever
   arrives, so that the roles behind it in the boot get their turn.             *)
LockReleased == wrapper.step # "idle" ~> wrapper.step = "idle"
==============================================================================
