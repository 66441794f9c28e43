------------------------------ MODULE BanipProof ------------------------------
(***************************************************************************)
(* The proof that banIP's kernel sets hold what the providers publish      *)
(* (openwrt_banip/files/banip_feed_proof.py) and the heartbeat that        *)
(* reports it (openwrt_security_monitor/files/security_monitor.py).        *)
(*                                                                         *)
(* verify and refresh run under a lock: snapshot, download, snapshot,      *)
(* compare, save.  status, which the heartbeat calls, takes no lock.       *)
(* banIP reloads its sets, the providers change their feeds and the clock  *)
(* moves between any two steps.  The content of a set stands for its       *)
(* canonical digest (module CanonicalNets says when two digests agree).    *)
(***************************************************************************)
EXTENDS Integers, Sequences, FiniteSets

CONSTANTS FeedOrder,  \* the configured feeds, sorted as configuration() does
          Contents,   \* contents a feed or a set may have
          None,       \* no proof, no snapshot, nothing downloaded
          MaxAge,     \* MAX_AGE, in ticks
          MaxVerify,  \* the longest verification (90 s), in ticks
          Skew,       \* tolerated clock difference (300 s), in ticks
          Slack,      \* tolerated difference of ages in a heartbeat (30 s)
          MaxClock,   \* bound on the clock
          MaxEvents   \* bound on reloads, feed changes and commands

Feeds == {FeedOrder[i] : i \in DOMAIN FeedOrder}

\* A good proof of a feed: the content it was verified with, and when.
Proofs == [content : Contents, at : Nat]

\* configuration() refuses an empty list of feeds and one with a repetition.
ASSUME BanipAssumption ==
    /\ {MaxAge, MaxVerify, Skew, Slack, MaxClock, MaxEvents} \subseteq Nat
    /\ FeedOrder \in Seq(Feeds) /\ FeedOrder # <<>>
    /\ \A i, j \in DOMAIN FeedOrder : FeedOrder[i] = FeedOrder[j] => i = j
    /\ Contents # {}
    /\ None \notin Contents /\ None \notin Nat /\ None \notin Proofs

VARIABLES
    clock,     \* time.time()
    upstream,  \* what each provider serves
    nft,       \* what each kernel set holds
    runtime,   \* banIP.runtime.json: [status, generation]
    events,    \* reloads, feed changes and commands so far
    file,      \* STATE: each feed's last check and last good proof
    part,      \* STATE.part exists
    cmd,       \* the command that holds the lock
    mon,       \* the heartbeat; verified is what the last one reported so
    snap,      \* the snapshot each of the two is taking
    served     \* history: when the latest verification to download it began

world == <<upstream, nft, runtime, events>>
vars == <<clock, world, file, part, cmd, mon, snap, served>>

Actors == {"cmd", "mon"}

MonIdle(verified) == [pc |-> "idle", prior |-> None, now |-> 0, verified |-> verified]
NoRecord == [last_check |-> None, last_verified |-> None]
Idle == [pc |-> "idle", prior |-> None, first |-> None, before |-> None,
         results |-> <<>>, after |-> None, start |-> 0]

Init ==
    /\ clock = 0
    /\ upstream = [f \in Feeds |-> CHOOSE c \in Contents : TRUE] /\ nft = upstream
    /\ runtime = [status |-> "active", generation |-> 0]
    /\ events = 0
    /\ file = [f \in Feeds |-> NoRecord] /\ part = FALSE
    /\ cmd = Idle /\ mon = MonIdle({})
    /\ snap = [a \in Actors |-> None]
    /\ served = [f \in Feeds |-> [c \in Contents |-> None]]

-----------------------------------------------------------------------------
(* banIP, the providers and the clock; outside this repository             *)

FeedChanges(f, c) ==
    /\ events < MaxEvents /\ events' = events + 1
    /\ upstream' = [upstream EXCEPT ![f] = c]
    /\ UNCHANGED <<nft, runtime>>

ReloadBegins ==
    /\ runtime.status = "active"
    /\ events < MaxEvents /\ events' = events + 1
    /\ runtime' = [runtime EXCEPT !.status = "processing"]

\* The sets are replaced by what was downloaded, or restored from a backup.
ReloadEnds(good) ==
    /\ runtime.status = "processing"
    /\ nft' = [f \in Feeds |-> IF f \in good THEN upstream[f] ELSE nft[f]]
    /\ runtime' = [status |-> "active", generation |-> runtime.generation + 1]
    /\ UNCHANGED <<upstream, events>>

World ==
    /\ \/ \E f \in Feeds, c \in Contents : c # upstream[f] /\ FeedChanges(f, c)
       \/ ReloadBegins /\ UNCHANGED <<upstream, nft>>
       \/ \E good \in SUBSET Feeds : ReloadEnds(good)
    /\ UNCHANGED <<clock, file, part, cmd, mon, snap, served>>

\* Time passes, or the clock is stepped back by one tick.
Tick ==
    /\ clock' \in {clock - 1, clock + 1} \cap 0..MaxClock
    /\ UNCHANGED <<world, file, part, cmd, mon, snap, served>>

-----------------------------------------------------------------------------
(* snapshot: the runtime file, the sets one by one, the runtime file again *)

SnapBegin(a) ==
    /\ snap[a] = None /\ runtime.status = "active"
    /\ snap' = [snap EXCEPT ![a] = [generation |-> runtime.generation, sets |-> <<>>]]

SnapRead(a) ==
    /\ snap[a] # None /\ Len(snap[a].sets) < Len(FeedOrder)
    /\ snap' = [snap EXCEPT ![a].sets = Append(@, nft[FeedOrder[Len(@) + 1]])]

SnapDone(a) ==
    /\ snap[a] # None /\ Len(snap[a].sets) = Len(FeedOrder)
    /\ runtime.status = "active" /\ runtime.generation = snap[a].generation

SetOf(s, f) == s.sets[CHOOSE i \in DOMAIN FeedOrder : FeedOrder[i] = f]
EndSnap(a) == snap' = [snap EXCEPT ![a] = None]

SnapPcs == {"refreshSnap", "waitSnap", "beforeSnap", "afterSnap"}

Snapshot ==
    /\ \/ cmd.pc \in SnapPcs /\ (SnapBegin("cmd") \/ SnapRead("cmd"))
       \/ mon.pc = "snap" /\ (SnapBegin("mon") \/ SnapRead("mon"))
    /\ UNCHANGED <<clock, world, file, part, cmd, mon, served>>

-----------------------------------------------------------------------------
(* state: what makes the proof on disk usable, and summary                 *)

StateReadable ==
    /\ ~part
    /\ \A f \in Feeds : \A p \in {file[f].last_check, file[f].last_verified} \ {None} :
           p.at <= clock + Skew

Age(at) == IF clock > at THEN clock - at ELSE 0

\* Mutant of Summary: the set is not compared with the proof.
SummaryAnySet(proof, current, f) ==
    LET good == proof[f].last_verified
        check == proof[f].last_check
    IN IF current = None \/ check = None THEN "unknown"
       ELSE IF check.status # "verified" THEN check.status
       ELSE IF good = None THEN "unknown"
       ELSE IF Age(good.at) > MaxAge THEN "stale"
       ELSE "verified"
Summary(proof, current, f) ==
    LET good == proof[f].last_verified
        check == proof[f].last_check
    IN IF current = None \/ check = None THEN "unknown"
       ELSE IF check.status # "verified" THEN check.status
       ELSE IF good = None \/ good.content # SetOf(current, f) THEN "unknown"
       ELSE IF Age(good.at) > MaxAge THEN "stale"
       ELSE "verified"

-----------------------------------------------------------------------------
(* verify and refresh                                                      *)

CmdStep(pc) == cmd.pc = pc /\ UNCHANGED <<clock, mon>>
Goto(pc) == cmd' = [cmd EXCEPT !.pc = pc]

\* main takes the lock without waiting and reads the state under it; the
\* read before the lock only refuses.
Lock ==
    /\ cmd.pc = "idle" /\ StateReadable
    /\ events < MaxEvents /\ events' = events + 1
    /\ \E pc \in {"refreshSnap", "beforeSnap"} :
           cmd' = [Idle EXCEPT !.pc = pc, !.prior = file, !.start = clock]
    /\ UNCHANGED <<clock, upstream, nft, runtime, file, part, mon, snap, served>>

\* failed_check: every feed's last check is an error; the proofs are kept.
FailedCheck(prior) ==
    [f \in Feeds |-> [prior[f] EXCEPT !.last_check = [status |-> "error", at |-> clock]]]

\* Mutant of Verdict: a failed check replaces the whole record.
VerdictForgets(f) ==
    LET ok == cmd.results # None
        check == IF ~ok \/ cmd.results[f] = None THEN "error"
                 ELSE IF cmd.before # cmd.after THEN "unknown"
                 ELSE IF cmd.results[f] # SetOf(cmd.after, f) THEN "error" ELSE "verified"
    IN [last_check |-> [status |-> check, at |-> clock],
        last_verified |-> IF check = "verified" THEN [content |-> cmd.results[f], at |-> clock] ELSE None]
\* The end of verify for one feed; results is None when a snapshot failed.
Verdict(f) ==
    LET ok == cmd.results # None
        check == IF ~ok \/ cmd.results[f] = None THEN "error"
                 ELSE IF cmd.before # cmd.after THEN "unknown"
                 ELSE IF cmd.results[f] # SetOf(cmd.after, f) THEN "error" ELSE "verified"
    IN [last_check |-> [status |-> check, at |-> clock],
        last_verified |-> IF check = "verified" THEN [content |-> cmd.results[f], at |-> clock]
                          ELSE cmd.prior[f].last_verified]

\* An exception of the refresh, or a clock that moved, ends in failed_check.
Fail == cmd' = [Idle EXCEPT !.pc = "save", !.prior = FailedCheck(cmd.prior)]

RefreshSnapped ==
    /\ CmdStep("refreshSnap") /\ EndSnap("cmd")
    /\ \/ SnapDone("cmd") /\ cmd' = [cmd EXCEPT !.pc = "reload", !.first = snap["cmd"].generation]
       \/ Fail
    /\ UNCHANGED <<world, file, part, served>>
Reload ==
    /\ CmdStep("reload")
    /\ \/ ReloadBegins /\ Goto("waitSnap")
       \/ runtime.status = "processing" /\ Goto("waitSnap") /\ UNCHANGED <<runtime, events>>
       \/ Fail /\ UNCHANGED <<runtime, events>>
    /\ UNCHANGED <<upstream, nft, file, part, snap, served>>
\* A snapshot of another generation ends the wait; any other is repeated.
Waited ==
    /\ CmdStep("waitSnap") /\ EndSnap("cmd")
    /\ \/ /\ SnapDone("cmd") /\ snap["cmd"].generation # cmd.first
          /\ cmd' = [cmd EXCEPT !.pc = "beforeSnap", !.first = None, !.start = clock]
       \/ snap["cmd"] # None /\ UNCHANGED cmd
    /\ UNCHANGED <<world, file, part, served>>
\* Mutant of Deadline: the wait has no deadline.
DeadlineNever == FALSE /\ UNCHANGED vars
Deadline ==
    /\ CmdStep("waitSnap") /\ EndSnap("cmd") /\ Fail
    /\ UNCHANGED <<world, file, part, served>>
BeforeSnapped ==
    /\ CmdStep("beforeSnap") /\ EndSnap("cmd")
    /\ \/ SnapDone("cmd") /\ cmd' = [cmd EXCEPT !.pc = "fetch", !.before = snap["cmd"]]
       \/ cmd' = [cmd EXCEPT !.pc = "finish", !.results = None]
    /\ UNCHANGED <<world, file, part, served>>
Fetch ==
    /\ CmdStep("fetch")
    /\ LET f == FeedOrder[Cardinality(DOMAIN cmd.results) + 1]
           last == Cardinality(DOMAIN cmd.results) + 1 = Len(FeedOrder)
           with(c) == [g \in DOMAIN cmd.results \cup {f} |-> IF g = f THEN c ELSE cmd.results[g]]
           next(c) == [cmd EXCEPT !.results = with(c), !.pc = IF last THEN "afterSnap" ELSE "fetch"]
       IN \/ /\ cmd' = next(upstream[f])
             /\ served' = [served EXCEPT ![f][upstream[f]] =
                                IF @ = None \/ @ < cmd.start THEN cmd.start ELSE @]
          \/ cmd' = next(None) /\ UNCHANGED served
    /\ UNCHANGED <<world, file, part, snap>>
AfterSnapped ==
    /\ CmdStep("afterSnap") /\ EndSnap("cmd")
    /\ \/ SnapDone("cmd") /\ cmd' = [cmd EXCEPT !.pc = "finish", !.after = snap["cmd"]]
       \/ cmd' = [cmd EXCEPT !.pc = "finish", !.results = None]
    /\ UNCHANGED <<world, file, part, served>>
Finish ==
    /\ CmdStep("finish")
    /\ \/ /\ clock - cmd.start \in 0..MaxVerify
          /\ cmd' = [Idle EXCEPT !.pc = "save", !.prior = [f \in Feeds |-> Verdict(f)]]
       \/ clock - cmd.start \notin 0..MaxVerify /\ Fail
    /\ UNCHANGED <<world, file, part, snap, served>>
\* save: a temporary file and a rename; an error leaves the temporary file.
\* The summary the command then prints changes nothing.
SavePart ==
    /\ CmdStep("save") /\ part' = TRUE
    /\ Goto("rename") \/ cmd' = Idle
    /\ UNCHANGED <<world, file, snap, served>>
Rename ==
    /\ CmdStep("rename") /\ part' = FALSE
    /\ file' = cmd.prior /\ cmd' = Idle
    /\ UNCHANGED <<world, snap, served>>
CmdKilled ==
    /\ cmd.pc # "idle" /\ cmd' = Idle /\ EndSnap("cmd")
    /\ UNCHANGED <<clock, world, file, part, mon, served>>

Command == RefreshSnapped \/ Reload \/ Waited \/ Deadline \/ BeforeSnapped \/ Fetch \/ AfterSnapped
           \/ Finish \/ SavePart \/ Rename

-----------------------------------------------------------------------------
(* heartbeat: the runtime file, then the status action, then its check     *)

HeartbeatBegin ==
    /\ mon.pc = "idle"
    /\ IF runtime.status = "active" /\ StateReadable
       THEN mon' = [pc |-> "snap", prior |-> file, now |-> clock, verified |-> {}]
       ELSE mon' = MonIdle({})
    /\ UNCHANGED <<clock, world, file, part, cmd, snap, served>>

\* checked_feed_proof: stamps and ages must agree with the heartbeat's clock.
RowsAgree(statuses) ==
    \A f \in Feeds :
        LET good == mon.prior[f].last_verified IN
        IF good = None THEN statuses[f] \notin {"verified", "stale"}
        ELSE LET mine == IF mon.now > good.at THEN mon.now - good.at ELSE 0 IN
             /\ good.at <= mon.now + Skew
             /\ Age(good.at) - mine \in -Slack..Slack
             /\ statuses[f] = "verified" => Age(good.at) <= MaxAge

\* read_feed_proof: the status action answers within its deadline and its
\* size, or its group is killed and there is no answer.
ReadFeedProof == {None} \cup (IF SnapDone("mon") THEN {snap["mon"]} ELSE {})

HeartbeatEnd ==
    /\ mon.pc = "snap" /\ EndSnap("mon")
    /\ \E current \in ReadFeedProof :
           LET statuses == [f \in Feeds |-> Summary(mon.prior, current, f)] IN
           mon' = MonIdle(IF RowsAgree(statuses)
                          THEN {f \in Feeds : statuses[f] = "verified"} ELSE {})
    /\ UNCHANGED <<clock, world, file, part, cmd, served>>

-----------------------------------------------------------------------------
Next == World \/ Tick \/ Snapshot \/ Lock \/ Command \/ CmdKilled
        \/ HeartbeatBegin \/ HeartbeatEnd

Spec == Init /\ [][Next]_vars

\* The command is scheduled, and each of its waits has a deadline.
Fairness == WF_vars(Command) /\ WF_vars(Deadline)
FairSpec == Spec /\ Fairness

-----------------------------------------------------------------------------
(* A heartbeat that calls a feed verified rests on evidence: the set the   *)
(* heartbeat saw holds a content that was downloaded from the provider not *)
(* longer ago than the age limit, the tolerated difference of the two      *)
(* clock readings and one verification, whatever reloads, feed changes,    *)
(* failed saves and clock steps came between (summary, snapshot,           *)
(* checked_feed_proof).                                                    *)
VerifiedIsFresh ==
    [][mon.pc = "snap" => \A f \in mon'.verified :
           LET downloaded == served[f][SetOf(snap["mon"], f)] IN
           downloaded # None /\ mon.now - downloaded <= MaxAge + Slack + MaxVerify]_vars

(* Evidence is never lost: what a command saves keeps, for each feed, the  *)
(* last good proof unless this very check found a new one; an error, a     *)
(* concurrent change or a failed refresh leaves it as it is (verify,       *)
(* failed_check, save).                                                    *)
EvidenceKept ==
    [][\A f \in Feeds : \/ file[f].last_verified = None
                        \/ file'[f].last_verified = file[f].last_verified
                        \/ /\ file'[f].last_verified # None
                           /\ file'[f].last_check.status = "verified"]_vars

(* A command ends: the wait for a reload has a deadline, so the lock is    *)
(* free again (main, banip_reload_deadline).                               *)
CommandEnds == cmd.pc # "idle" ~> cmd.pc = "idle"
=============================================================================
