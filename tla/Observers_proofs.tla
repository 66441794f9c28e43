---------------------------- MODULE Observers_proofs ----------------------------
(***************************************************************************)
(* Proofs about the two components of Observers, for every value of its    *)
(* constants: the banIP feed proof, whose module Observers extends, for    *)
(* every list of feeds, every set of contents and every age limit and      *)
(* tolerance; and the ansible-pull wrapper, as Observers composes it, for  *)
(* every set of roles, revisions and builds, every wait and tolerance.     *)
(*                                                                         *)
(* A proof travels: a command downloads a content, saves it in the state   *)
(* file as a feed's last good proof, and a heartbeat reads the file and    *)
(* compares it with a set much later.  Wherever a good proof is, the       *)
(* content it names was downloaded by a verification that began not longer *)
(* before the proof's stamp than a verification may take (Sourced).        *)
(*                                                                         *)
(* The files a reader of the wrapper meets may be of two runs of one role. *)
(* What keeps them apart is time: a run begins a second after the one      *)
(* before, so that a receipt of an earlier run is older than the state     *)
(* beside it, and one that is not older is of the same run (Receipted).    *)
(***************************************************************************)
EXTENDS Observers, FiniteSetTheorems, TLAPS

-----------------------------------------------------------------------------
(* BanipProof                                                              *)

Checks == [status : {"verified", "error", "unknown"}, at : Nat]
Rows == [last_check : {None} \cup Checks, last_verified : {None} \cup Proofs]
Files == [Feeds -> Rows]
Snaps == [generation : Nat, sets : Seq(Contents)]
Results == UNION {[S -> Contents \cup {None}] : S \in SUBSET Feeds}

CmdPcs == {"idle", "refreshSnap", "reload", "waitSnap", "beforeSnap", "fetch", "afterSnap",
           "finish", "save", "rename"}

WorldTyped ==
    /\ clock \in Nat
    /\ upstream \in [Feeds -> Contents]
    /\ nft \in [Feeds -> Contents]
    /\ runtime \in [status : {"active", "processing"}, generation : Nat]
    /\ served \in [Feeds -> [Contents -> {None} \cup Nat]]
CmdTyped ==
    cmd \in [pc : CmdPcs, prior : {None} \cup Files, first : {None} \cup Nat,
             before : {None} \cup Snaps, results : {None} \cup Results,
             after : {None} \cup Snaps, start : Nat]
MonTyped ==
    mon \in [pc : {"idle", "snap"}, prior : {None} \cup Files, now : Nat,
             verified : SUBSET Feeds]
SnapTyped == snap \in [Actors -> {None} \cup Snaps]

(* Every variable keeps its type.                                          *)
Typed == WorldTyped /\ CmdTyped /\ MonTyped /\ SnapTyped /\ file \in Files

(* In the downloads d, content c of feed f was downloaded by a verification *)
(* that began at time t or later.                                          *)
Downloaded(d, f, c, t) == d[f][c] # None /\ d[f][c] >= t

(* The good proofs among some rows name contents downloaded in time.       *)
Sourced(d, rows) ==
    \A f \in Feeds : LET good == rows[f].last_verified IN
        good # None => Downloaded(d, f, good.content, good.at - MaxVerify)

(* Every download of d is one of e, by the same verification or a later one.*)
Later(d, e) == \A f \in Feeds, c \in Contents, t \in Int :
                   Downloaded(d, f, c, t) => Downloaded(e, f, c, t)

(* What the rows of old say of a feed is kept or replaced by a new proof.  *)
Keeps(old, new) ==
    \A f \in Feeds : \/ old[f].last_verified = None
                     \/ new[f].last_verified = old[f].last_verified
                     \/ /\ new[f].last_verified # None
                        /\ new[f].last_check.status = "verified"

(* The downloads of the verification in progress, in the order of the      *)
(* feeds.                                                                  *)
Fetched ==
    /\ cmd.pc \in {"refreshSnap", "reload", "waitSnap", "beforeSnap"} => cmd.results = <<>>
    /\ cmd.pc = "fetch" =>
           /\ cmd.results \in Results /\ IsFiniteSet(DOMAIN cmd.results)
           /\ Cardinality(DOMAIN cmd.results) < Len(FeedOrder)
           /\ DOMAIN cmd.results = {FeedOrder[i] : i \in 1..Cardinality(DOMAIN cmd.results)}
    /\ cmd.pc \in {"afterSnap", "finish"} =>
           cmd.results = None \/ (cmd.results \in Results /\ DOMAIN cmd.results = Feeds)
    /\ cmd.pc = "fetch" \/ (cmd.pc \in {"afterSnap", "finish"} /\ cmd.results # None) =>
           \A f \in DOMAIN cmd.results : cmd.results[f] # None =>
               Downloaded(served, f, cmd.results[f], cmd.start)

(* What the command will save, and what the heartbeat has read.            *)
Carried ==
    /\ Sourced(served, file)
    /\ cmd.pc # "idle" => cmd.prior \in Files /\ Sourced(served, cmd.prior)
    /\ cmd.pc \in CmdPcs \ {"idle", "save", "rename"} => cmd.prior = file
    /\ cmd.pc \in {"save", "rename"} => Keeps(file, cmd.prior)
    /\ mon.pc = "snap" => mon.prior \in Files /\ Sourced(served, mon.prior) /\ mon.verified = {}

IInv == Typed /\ Fetched /\ Carried

-----------------------------------------------------------------------------
(* Rows, downloads and the end of a verification.                          *)

(* None is none of the values it stands beside.                            *)
LEMMA NoneApart == None \notin Contents /\ None \notin Nat /\ None \notin Proofs
BY BanipAssumption

(* The tolerances are natural numbers.                                     *)
LEMMA Tolerances == MaxAge \in Nat /\ MaxVerify \in Nat /\ Skew \in Nat /\ Slack \in Nat /\ MaxClock \in Nat
BY BanipAssumption

(* The empty function is a result in which no feed has been downloaded.    *)
LEMMA NoResults == <<>> \in Results /\ DOMAIN <<>> = {}
<1>1. <<>> \in [{} -> Contents \cup {None}]
  OBVIOUS
<1> QED BY <1>1 DEF Results

(* A command that has not started is well typed.                           *)
LEMMA IdleType ==
  /\ Idle \in [pc : CmdPcs, prior : {None} \cup Files, first : {None} \cup Nat,
               before : {None} \cup Snaps, results : {None} \cup Results,
               after : {None} \cup Snaps, start : Nat]
  /\ Idle.pc = "idle" /\ Idle.results = <<>>
<1> DEFINE e == <<>>
<1>1. e \in Results
  BY NoResults
<1>2. Idle = [pc |-> "idle", prior |-> None, first |-> None, before |-> None,
              results |-> e, after |-> None, start |-> 0]
  BY DEF Idle
<1> HIDE DEF e
<1>3. Idle.results = e
  BY <1>2
<1>4. Idle.pc = "idle" /\ Idle \in [pc : CmdPcs, prior : {None} \cup Files, first : {None} \cup Nat,
               before : {None} \cup Snaps, results : {None} \cup Results,
               after : {None} \cup Snaps, start : Nat]
  BY <1>1, <1>2 DEF CmdPcs
<1> QED BY <1>3, <1>4 DEF e

(* The mapping of a check that failed: the good proofs are as before.      *)
LEMMA FailedCheckFacts ==
  ASSUME Typed, NEW prior \in Files
  PROVE  /\ FailedCheck(prior) \in Files
         /\ \A f \in Feeds : FailedCheck(prior)[f].last_verified = prior[f].last_verified
<1>1. clock \in Nat
  BY DEF Typed, WorldTyped
<1>2. ASSUME NEW f \in Feeds
      PROVE  /\ [prior[f] EXCEPT !.last_check = [status |-> "error", at |-> clock]] \in Rows
             /\ [prior[f] EXCEPT !.last_check = [status |-> "error", at |-> clock]].last_verified
                  = prior[f].last_verified
  <2>1. prior[f] \in Rows
    BY DEF Files
  <2>2. [status |-> "error", at |-> clock] \in Checks
    BY <1>1 DEF Checks
  <2> QED BY <2>1, <2>2 DEF Rows
<1> QED BY <1>2 DEF FailedCheck, Files

(* The end of a verification for one feed: a new proof only with a content *)
(* that was downloaded by this verification, else the one there was.       *)
LEMMA VerdictFacts ==
  ASSUME IInv, cmd.pc = "finish", clock - cmd.start \in 0..MaxVerify, NEW f \in Feeds
  PROVE  /\ Verdict(f) \in Rows
         /\ \/ Verdict(f).last_verified = cmd.prior[f].last_verified
            \/ /\ Verdict(f).last_verified # None
               /\ Verdict(f).last_check.status = "verified"
         /\ LET good == Verdict(f).last_verified IN
            good # None => Downloaded(served, f, good.content, good.at - MaxVerify)
<1> DEFINE ok == cmd.results # None
           check == IF ~ok \/ cmd.results[f] = None THEN "error"
                    ELSE IF cmd.before # cmd.after THEN "unknown"
                    ELSE IF cmd.results[f] # SetOf(cmd.after, f) THEN "error" ELSE "verified"
           good == IF check = "verified" THEN [content |-> cmd.results[f], at |-> clock]
                   ELSE cmd.prior[f].last_verified
<1>1. Verdict(f) = [last_check |-> [status |-> check, at |-> clock], last_verified |-> good]
  BY DEF Verdict
<1>2. clock \in Nat /\ cmd.start \in Nat /\ MaxVerify \in Nat
  BY Tolerances DEF IInv, Typed, WorldTyped, CmdTyped
<1>3. cmd.prior \in Files /\ Sourced(served, cmd.prior)
  BY DEF IInv, Carried
<1>4. cmd.prior[f] \in Rows
  BY <1>3 DEF Files
<1>5. check \in {"verified", "error", "unknown"}
  OBVIOUS
<1>6. [status |-> check, at |-> clock] \in Checks
  BY <1>2, <1>5 DEF Checks
<1>7. CASE check = "verified"
  <2>1. cmd.results # None /\ cmd.results[f] # None
    BY <1>7
  <2>2. cmd.results \in Results /\ DOMAIN cmd.results = Feeds
    BY <2>1 DEF IInv, Fetched
  <2>3. cmd.results[f] \in Contents
    BY <2>1, <2>2 DEF Results
  <2>4. Downloaded(served, f, cmd.results[f], cmd.start)
    BY <2>1, <2>2 DEF IInv, Fetched
  <2>5. good = [content |-> cmd.results[f], at |-> clock]
    BY <1>7
  <2>6. good \in Proofs /\ good # None
    BY <1>2, <2>3, <2>5, NoneApart DEF Proofs
  <2>7. clock - MaxVerify <= cmd.start
    BY <1>2
  <2>8. good.content = cmd.results[f] /\ good.at = clock
    BY <2>5
  <2>9. served[f][cmd.results[f]] \in Nat
    BY <2>3, <2>4 DEF IInv, Typed, WorldTyped, Downloaded
  <2> HIDE DEF good, check
  <2>10. Downloaded(served, f, good.content, good.at - MaxVerify)
    BY <1>2, <2>4, <2>7, <2>8, <2>9 DEF Downloaded
  <2> QED BY <1>1, <1>6, <1>7, <2>6, <2>10 DEF Rows
<1>8. CASE check # "verified"
  <2>1. good = cmd.prior[f].last_verified
    BY <1>8
  <2> HIDE DEF good, check
  <2> QED BY <1>1, <1>3, <1>4, <1>6, <2>1 DEF Rows, Sourced
<1> QED BY <1>7, <1>8

(* A download that counts stays one.                                       *)
LEMMA SourcedStays ==
  ASSUME NEW d, NEW e, Later(d, e), NEW rows \in Files, Sourced(d, rows)
  PROVE  Sourced(e, rows)
<1> SUFFICES ASSUME NEW f \in Feeds, rows[f].last_verified # None
             PROVE  LET good == rows[f].last_verified IN
                      Downloaded(e, f, good.content, good.at - MaxVerify)
  BY DEF Sourced
<1> DEFINE good == rows[f].last_verified
<1>1. good \in Proofs
  BY DEF Files, Rows
<1>2. good.content \in Contents /\ good.at - MaxVerify \in Int
  BY <1>1, Tolerances DEF Proofs
<1>3. Downloaded(d, f, good.content, good.at - MaxVerify)
  BY DEF Sourced
<1> QED BY <1>2, <1>3 DEF Later

(* The downloads only move forward: the one that Fetch records replaces    *)
(* none that began later.                                                  *)
LEMMA DownloadsStay ==
  ASSUME Typed, [Next]_vars
  PROVE  Later(served, served') /\ served' \in [Feeds -> [Contents -> {None} \cup Nat]]
<1>1. CASE UNCHANGED served
  BY <1>1 DEF Later, Typed, WorldTyped
<1>2. CASE Fetch /\ ~UNCHANGED served
  <2> DEFINE f == FeedOrder[Cardinality(DOMAIN cmd.results) + 1]
             new(old) == IF old = None \/ old < cmd.start THEN cmd.start ELSE old
  <2>1. served' = [served EXCEPT ![f][upstream[f]] = new(@)]
    BY <1>2 DEF Fetch
  <2>2. served \in [Feeds -> [Contents -> {None} \cup Nat]] /\ cmd.start \in Nat
        /\ upstream \in [Feeds -> Contents]
    BY DEF Typed, WorldTyped, CmdTyped
  <2>3. CASE f \notin Feeds
    <3>1. served' = served
      BY <2>1, <2>2, <2>3
    <3> QED BY <1>2, <3>1
  <2>4. CASE f \in Feeds
    <3> DEFINE u == upstream[f]
    <3>1. u \in Contents /\ served[f] \in [Contents -> {None} \cup Nat]
      BY <2>2, <2>4
    <3>2. new(served[f][u]) \in {None} \cup Nat
      BY <2>2, <3>1
    <3>3. served' = [served EXCEPT ![f] = [served[f] EXCEPT ![u] = new(served[f][u])]]
      BY <2>1, <2>4
    <3>4. ASSUME NEW t \in Int, Downloaded(served, f, u, t)
          PROVE  Downloaded(served', f, u, t)
      <4>1. served'[f][u] = new(served[f][u])
        BY <2>2, <2>4, <3>1, <3>3
      <4>2. served[f][u] \in Nat /\ served[f][u] >= t
        BY <2>2, <2>4, <3>1, <3>4 DEF Downloaded
      <4>3. new(served[f][u]) \in Nat /\ new(served[f][u]) >= t
        BY <2>2, <4>2, NoneApart
      <4>4. new(served[f][u]) # None
        BY <4>3, NoneApart
      <4> QED BY <4>1, <4>3, <4>4 DEF Downloaded
    <3>5. ASSUME NEW g \in Feeds, NEW c \in Contents, g # f \/ c # u
          PROVE  served'[g][c] = served[g][c]
      BY <2>2, <2>4, <3>1, <3>3, <3>5
    <3>6. Later(served, served')
      BY <3>4, <3>5 DEF Later, Downloaded
    <3>7. served' \in [Feeds -> [Contents -> {None} \cup Nat]]
      <4> HIDE DEF new, u, f
      <4> QED BY <2>2, <2>4, <3>1, <3>2, <3>3
    <3> QED BY <3>6, <3>7
  <2> QED BY <2>3, <2>4
<1>3. ~UNCHANGED served => Fetch
  BY DEF Next, vars, World, Tick, Snapshot, Lock, Command, CmdKilled, HeartbeatBegin, HeartbeatEnd,
         RefreshSnapped, Reload, Waited, Deadline, BeforeSnapped, AfterSnapped, Finish, SavePart,
         Rename
<1> QED BY <1>1, <1>2, <1>3

-----------------------------------------------------------------------------
(* Each action preserves the invariant.                                    *)

(* Nothing is proved, downloaded or carried initially.                     *)
LEMMA InitInv == Init => IInv
<1> SUFFICES ASSUME Init PROVE IInv
  OBVIOUS
<1>1. (CHOOSE c \in Contents : TRUE) \in Contents
  BY BanipAssumption
<1>2. WorldTyped
  BY <1>1 DEF Init, WorldTyped
<1>3. CmdTyped
  BY IdleType DEF Init, CmdTyped
<1>4. MonTyped /\ SnapTyped
  BY DEF Init, MonTyped, MonIdle, SnapTyped, Actors
<1>5. file \in Files /\ \A f \in Feeds : file[f].last_verified = None
  BY DEF Init, Files, Rows, NoRecord
<1>6. Fetched
  BY IdleType DEF Init, Fetched
<1>7. Carried
  BY <1>5, IdleType DEF Init, Carried, MonIdle, CmdPcs, Sourced
<1> QED BY <1>2, <1>3, <1>4, <1>5, <1>6, <1>7 DEF IInv, Typed

(* A step keeps the invariant where neither the command nor what it saves  *)
(* changes.                                                                *)
LEMMA CmdStays ==
  ASSUME IInv, UNCHANGED <<cmd, file>>, Later(served, served'), MonTyped',
         mon' = mon \/ mon'.pc = "idle" \/ (mon'.prior = file /\ mon'.verified = {})
  PROVE  CmdTyped' /\ Fetched' /\ Carried'
<1>1. CmdTyped'
  BY DEF IInv, Typed, CmdTyped
<1>2. Fetched'
  <2>1. ASSUME cmd.pc = "fetch" \/ (cmd.pc \in {"afterSnap", "finish"} /\ cmd.results # None),
               NEW f \in DOMAIN cmd.results, cmd.results[f] # None
        PROVE  Downloaded(served', f, cmd.results[f], cmd.start)
    <3>1. cmd.results \in Results /\ cmd.start \in Int
      BY <2>1 DEF IInv, Fetched, Typed, CmdTyped
    <3>2. f \in Feeds /\ cmd.results[f] \in Contents
      BY <2>1, <3>1 DEF Results
    <3>3. Downloaded(served, f, cmd.results[f], cmd.start)
      BY <2>1 DEF IInv, Fetched
    <3> QED BY <3>1, <3>2, <3>3 DEF Later
  <2> QED BY <2>1 DEF IInv, Fetched
<1>3. Carried'
  <2>1. Sourced(served', file)
    BY SourcedStays DEF IInv, Typed, Carried
  <2>2. cmd.pc # "idle" => cmd.prior \in Files /\ Sourced(served', cmd.prior)
    BY SourcedStays DEF IInv, Carried
  <2>3. mon'.pc = "snap" =>
          mon'.prior \in Files /\ Sourced(served', mon'.prior) /\ mon'.verified = {}
    BY <2>1, SourcedStays DEF IInv, Typed, Carried
  <2> QED BY <2>1, <2>2, <2>3 DEF IInv, Carried
<1> QED BY <1>1, <1>2, <1>3

Working == CmdPcs \ {"idle", "save", "rename"}

(* What is carried stays what it is while the command works.               *)
LEMMA WorkCarries ==
  ASSUME IInv, cmd.pc \in Working, cmd'.pc \in Working, cmd'.prior = cmd.prior,
         UNCHANGED <<mon, file>>, Later(served, served')
  PROVE  Carried'
<1>1. Sourced(served', file)
  BY SourcedStays DEF IInv, Typed, Carried
<1>2. cmd.prior \in Files /\ cmd.prior = file
  BY DEF IInv, Carried, Working
<1>3. mon.pc = "snap" => mon.prior \in Files /\ Sourced(served', mon.prior) /\ mon.verified = {}
  BY SourcedStays DEF IInv, Carried
<1>4. cmd'.pc \notin {"save", "rename"}
  BY DEF Working
<1> QED BY <1>1, <1>2, <1>3, <1>4 DEF Carried

(* A command that ends carries nothing.                                    *)
LEMMA EndCarries ==
  ASSUME IInv, cmd' = Idle, UNCHANGED <<mon, served>>, file' \in Files, Sourced(served, file')
  PROVE  CmdTyped' /\ Fetched' /\ Carried'
<1>1. CmdTyped' /\ Fetched'
  BY IdleType DEF CmdTyped, Fetched
<1>2. Carried'
  BY IdleType DEF IInv, Carried
<1> QED BY <1>1, <1>2

(* A command that failed saves the good proofs it found.                   *)
LEMMA FailCarries ==
  ASSUME IInv, cmd.pc \in Working, Fail, UNCHANGED <<mon, file, served>>
  PROVE  CmdTyped' /\ Fetched' /\ Carried'
<1> DEFINE p == FailedCheck(cmd.prior)
<1>1. cmd.prior \in Files /\ cmd.prior = file /\ Sourced(served, file)
  BY DEF IInv, Carried, Working, CmdPcs
<1>2. p \in Files /\ \A f \in Feeds : p[f].last_verified = file[f].last_verified
  BY <1>1, FailedCheckFacts DEF IInv
<1>3. cmd' = [Idle EXCEPT !.pc = "save", !.prior = p]
  BY DEF Fail
<1> HIDE DEF p
<1>4. cmd'.pc = "save" /\ cmd'.prior = p /\ CmdTyped'
  BY <1>2, <1>3, IdleType DEF CmdTyped, CmdPcs
<1>5. Sourced(served, p) /\ Keeps(file, p)
  BY <1>1, <1>2 DEF Sourced, Keeps
<1>6. Fetched'
  BY <1>4 DEF Fetched
<1>7. Carried'
  BY <1>2, <1>4, <1>5 DEF IInv, Carried
<1> QED BY <1>4, <1>6, <1>7

(* A feed's state lies among those that the command's fields may have.     *)
LEMMA CmdFields ==
  ASSUME IInv
  PROVE  /\ cmd.pc \in CmdPcs /\ cmd.start \in Nat
         /\ cmd.results \in {None} \cup Results
         /\ snap["cmd"] \in {None} \cup Snaps
BY DEF IInv, Typed, CmdTyped, SnapTyped, Actors

(* The steps of a refresh.                                                 *)
LEMMA RefreshInv ==
  ASSUME IInv, RefreshSnapped \/ Reload \/ Waited \/ Deadline, Later(served, served')
  PROVE  CmdTyped' /\ Fetched' /\ Carried'
<1>1. cmd.pc \in {"refreshSnap", "reload", "waitSnap"} /\ cmd.results = <<>>
  BY DEF RefreshSnapped, Reload, Waited, Deadline, CmdStep, IInv, Fetched
<1>2. UNCHANGED <<mon, file, served>>
  BY DEF RefreshSnapped, Reload, Waited, Deadline, CmdStep
<1>3. cmd.pc \in Working
  BY <1>1 DEF Working, CmdPcs
<1>4. CASE Fail
  BY <1>2, <1>3, <1>4, FailCarries
<1>5. CASE ~Fail
  <2>1. \/ \E g \in Nat : cmd' = [cmd EXCEPT !.pc = "reload", !.first = g]
        \/ cmd' = [cmd EXCEPT !.pc = "waitSnap"]
        \/ cmd' = [cmd EXCEPT !.pc = "beforeSnap", !.first = None, !.start = clock]
        \/ cmd' = cmd
    <3>1. SnapDone("cmd") => snap["cmd"].generation \in Nat
      BY CmdFields DEF SnapDone, Snaps
    <3> QED BY <1>5, <3>1 DEF RefreshSnapped, Reload, Waited, Deadline, Goto
  <2>2. clock \in Nat
    BY DEF IInv, Typed, WorldTyped
  <2>3. CmdTyped'
    BY <2>1, <2>2 DEF IInv, Typed, CmdTyped, CmdPcs
  <2>4. /\ cmd'.pc \in {"refreshSnap", "reload", "waitSnap", "beforeSnap"}
        /\ cmd'.results = cmd.results /\ cmd'.prior = cmd.prior
    BY <1>1, <2>1 DEF IInv, Typed, CmdTyped
  <2>5. Fetched'
    BY <1>1, <2>4 DEF Fetched
  <2>6. Carried'
    BY <1>2, <1>3, <2>4, WorkCarries DEF Working, CmdPcs
  <2> QED BY <2>3, <2>5, <2>6
<1> QED BY <1>4, <1>5

(* The first snapshot of a verification: there is a feed to download.      *)
LEMMA BeforeSnappedInv ==
  ASSUME IInv, BeforeSnapped, Later(served, served')
  PROVE  CmdTyped' /\ Fetched' /\ Carried'
<1>1. cmd.pc = "beforeSnap" /\ cmd.results = <<>> /\ UNCHANGED <<mon, file, served>>
  BY DEF BeforeSnapped, CmdStep, IInv, Fetched
<1>2. \/ snap["cmd"] # None /\ cmd' = [cmd EXCEPT !.pc = "fetch", !.before = snap["cmd"]]
      \/ cmd' = [cmd EXCEPT !.pc = "finish", !.results = None]
  BY DEF BeforeSnapped, SnapDone
<1>3. CmdTyped'
  BY <1>2, CmdFields DEF IInv, Typed, CmdTyped, CmdPcs
<1>4. /\ cmd'.prior = cmd.prior
      /\ \/ cmd'.pc = "fetch" /\ cmd'.results = cmd.results
         \/ cmd'.pc = "finish" /\ cmd'.results = None
  BY <1>2 DEF IInv, Typed, CmdTyped
<1>5. Carried'
  BY <1>1, <1>4, WorkCarries DEF Working, CmdPcs
<1>6. Fetched'
  <2> DEFINE e == cmd.results
  <2>1. e \in Results /\ DOMAIN e = {}
    BY <1>1, NoResults
  <2>2. IsFiniteSet(DOMAIN e) /\ Cardinality(DOMAIN e) = 0
    BY <2>1, FS_EmptySet
  <2>3. 0 < Len(FeedOrder)
    BY BanipAssumption
  <2>4. {FeedOrder[i] : i \in 1..0} = {}
    OBVIOUS
  <2> QED BY <1>4, <2>1, <2>2, <2>3, <2>4 DEF Fetched
<1> QED BY <1>3, <1>5, <1>6

(* A download, good or failed, is that of the feed after the last one.     *)
LEMMA FetchInv ==
  ASSUME IInv, Fetch, Later(served, served')
  PROVE  CmdTyped' /\ Fetched' /\ Carried'
<1> DEFINE D == DOMAIN cmd.results
           n == Cardinality(D)
           f == FeedOrder[n + 1]
           with(c) == [g \in D \cup {f} |-> IF g = f THEN c ELSE cmd.results[g]]
<1>1. cmd.pc = "fetch" /\ UNCHANGED <<mon, file, clock>>
  BY DEF Fetch, CmdStep
<1>2. /\ cmd.results \in Results /\ IsFiniteSet(D) /\ n < Len(FeedOrder)
      /\ D = {FeedOrder[i] : i \in 1..n}
  BY <1>1 DEF IInv, Fetched
<1>3. n \in Nat /\ FeedOrder \in Seq(Feeds)
  BY <1>2, FS_CardinalityType, BanipAssumption
<1>4. f \in Feeds /\ f \notin D
  <2>1. n + 1 \in DOMAIN FeedOrder
    BY <1>2, <1>3
  <2>2. ASSUME NEW i \in 1..n PROVE FeedOrder[i] # f
    <3>1. i \in DOMAIN FeedOrder /\ i # n + 1
      BY <1>2, <1>3, <2>2
    <3> QED BY <2>1, <3>1, BanipAssumption
  <2> QED BY <1>2, <2>1, <2>2 DEF Feeds
<1>5. IsFiniteSet(D \cup {f}) /\ Cardinality(D \cup {f}) = n + 1
  BY <1>2, <1>4, FS_AddElement
<1>6. D \cup {f} = {FeedOrder[i] : i \in 1..(n + 1)}
  <2>1. 1..(n + 1) = (1..n) \cup {n + 1}
    BY <1>3
  <2> QED BY <1>2, <2>1
<1>7. PICK c \in Contents \cup {None} :
        /\ cmd' = [cmd EXCEPT !.results = with(c),
                              !.pc = IF n + 1 = Len(FeedOrder) THEN "afterSnap" ELSE "fetch"]
        /\ c # None => served' = [served EXCEPT ![f][c] =
                                    IF @ = None \/ @ < cmd.start THEN cmd.start ELSE @]
  <2>1. upstream[f] \in Contents
    BY <1>4 DEF IInv, Typed, WorldTyped
  <2> QED BY <2>1 DEF Fetch
<1>8. with(c) \in Results /\ DOMAIN with(c) = D \cup {f}
  <2>1. D \in SUBSET Feeds /\ \A g \in D : cmd.results[g] \in Contents \cup {None}
    BY <1>2 DEF Results
  <2>2. with(c) \in [D \cup {f} -> Contents \cup {None}]
    BY <2>1
  <2> QED BY <1>4, <2>1, <2>2 DEF Results
<1>w. \A g \in D \cup {f} : with(c)[g] = IF g = f THEN c ELSE cmd.results[g]
  OBVIOUS
<1> HIDE DEF with
<1>9. CmdTyped'
  BY <1>7, <1>8 DEF IInv, Typed, CmdTyped, CmdPcs
<1>10. /\ cmd'.results = with(c) /\ cmd'.prior = cmd.prior /\ cmd'.start = cmd.start
       /\ cmd'.pc = IF n + 1 = Len(FeedOrder) THEN "afterSnap" ELSE "fetch"
  BY <1>7 DEF IInv, Typed, CmdTyped
<1>11. Carried'
  BY <1>1, <1>10, WorkCarries DEF Working, CmdPcs
<1>12. ASSUME NEW g \in D \cup {f}, with(c)[g] # None
       PROVE  Downloaded(served', g, with(c)[g], cmd.start)
  <2>1. CASE g = f
    <3>1. with(c)[g] = c /\ c \in Contents
      BY <1>w, <1>12, <2>1
    <3>2. served[f] \in [Contents -> {None} \cup Nat] /\ served \in [Feeds -> [Contents -> {None} \cup Nat]] /\ cmd.start \in Nat
      BY <1>4 DEF IInv, Typed, WorldTyped, CmdTyped
    <3>3. served'[f][c] = IF served[f][c] = None \/ served[f][c] < cmd.start THEN cmd.start ELSE served[f][c]
      BY <1>4, <1>7, <1>12, <3>1, <3>2
    <3>4. served[f][c] \in {None} \cup Nat
      BY <3>1, <3>2
    <3> HIDE DEF f
    <3> QED BY <2>1, <3>1, <3>2, <3>3, <3>4, NoneApart DEF Downloaded
  <2>2. CASE g # f
    <3>1. g \in D /\ with(c)[g] = cmd.results[g]
      BY <1>w, <2>2
    <3>2. Downloaded(served, g, cmd.results[g], cmd.start)
      BY <1>1, <1>2, <1>12, <3>1 DEF IInv, Fetched
    <3>3. g \in Feeds /\ cmd.results[g] \in Contents /\ cmd.start \in Int
      BY <1>2, <1>12, <3>1, CmdFields DEF Results
    <3> QED BY <3>1, <3>2, <3>3 DEF Later
  <2> QED BY <2>1, <2>2
<1>13. n + 1 = Len(FeedOrder) => D \cup {f} = Feeds
  BY <1>3, <1>6 DEF Feeds
<1>14. Fetched'
  <2>1. CASE n + 1 = Len(FeedOrder)
    <3>1. cmd'.pc = "afterSnap" /\ cmd'.results = with(c) /\ cmd'.start = cmd.start
      BY <1>10, <2>1
    <3> QED BY <1>8, <1>12, <1>13, <2>1, <3>1 DEF Fetched
  <2>2. CASE n + 1 # Len(FeedOrder)
    <3>1. cmd'.pc = "fetch" /\ cmd'.results = with(c) /\ cmd'.start = cmd.start
      BY <1>10, <2>2
    <3>2. n + 1 < Len(FeedOrder)
      BY <1>2, <1>3, <2>2
    <3>3. DOMAIN cmd'.results = D \cup {f}
      BY <1>8, <3>1
    <3> HIDE DEF n, D, f
    <3> QED BY <1>5, <1>6, <1>8, <1>12, <3>1, <3>2, <3>3 DEF Fetched
  <2> QED BY <2>1, <2>2
<1> QED BY <1>9, <1>11, <1>14

(* The second snapshot: the downloads are compared or given up.            *)
LEMMA AfterSnappedInv ==
  ASSUME IInv, AfterSnapped, Later(served, served')
  PROVE  CmdTyped' /\ Fetched' /\ Carried'
<1>1. cmd.pc = "afterSnap" /\ UNCHANGED <<mon, file, served>>
  BY DEF AfterSnapped, CmdStep
<1>2. \/ snap["cmd"] # None /\ cmd' = [cmd EXCEPT !.pc = "finish", !.after = snap["cmd"]]
      \/ cmd' = [cmd EXCEPT !.pc = "finish", !.results = None]
  BY DEF AfterSnapped, SnapDone
<1>3. CmdTyped'
  BY <1>2, CmdFields DEF IInv, Typed, CmdTyped, CmdPcs
<1>4. /\ cmd'.prior = cmd.prior /\ cmd'.pc = "finish" /\ cmd'.start = cmd.start
      /\ cmd'.results = cmd.results \/ cmd'.results = None
  BY <1>2 DEF IInv, Typed, CmdTyped
<1>5. Carried'
  BY <1>1, <1>4, WorkCarries DEF Working, CmdPcs
<1>6. Fetched'
  BY <1>1, <1>4 DEF IInv, Fetched
<1> QED BY <1>3, <1>5, <1>6

(* The end of a verification: each feed's row keeps or renews its proof.   *)
LEMMA FinishInv ==
  ASSUME IInv, Finish
  PROVE  CmdTyped' /\ Fetched' /\ Carried'
<1>1. cmd.pc = "finish" /\ UNCHANGED <<mon, file, served>>
  BY DEF Finish, CmdStep
<1>2. CASE Fail
  BY <1>1, <1>2, FailCarries DEF Working, CmdPcs
<1>3. CASE clock - cmd.start \in 0..MaxVerify
           /\ cmd' = [Idle EXCEPT !.pc = "save", !.prior = [f \in Feeds |-> Verdict(f)]]
  <2> DEFINE p == [f \in Feeds |-> Verdict(f)]
  <2>1. p \in Files /\ Sourced(served, p)
    BY <1>1, <1>3, VerdictFacts DEF Files, Sourced
  <2>2. cmd.prior = file
    BY <1>1 DEF IInv, Carried, CmdPcs
  <2>3. Keeps(file, p)
    BY <1>1, <1>3, <2>2, VerdictFacts DEF Keeps
  <2>4. cmd' = [Idle EXCEPT !.pc = "save", !.prior = p]
    BY <1>3
  <2> HIDE DEF p
  <2>5. cmd'.pc = "save" /\ cmd'.prior = p /\ CmdTyped'
    BY <2>1, <2>4, IdleType DEF CmdTyped, CmdPcs
  <2>6. Fetched'
    BY <2>5 DEF Fetched
  <2>7. Carried'
    BY <1>1, <2>1, <2>3, <2>5 DEF IInv, Carried
  <2> QED BY <2>5, <2>6, <2>7
<1> QED BY <1>2, <1>3 DEF Finish

(* A command starts with the rows it reads under the lock.                 *)
LEMMA LockInv ==
  ASSUME IInv, Lock
  PROVE  CmdTyped' /\ Fetched' /\ Carried'
<1>1. PICK pc \in {"refreshSnap", "beforeSnap"} :
        cmd' = [Idle EXCEPT !.pc = pc, !.prior = file, !.start = clock]
  BY DEF Lock
<1>2. clock \in Nat /\ file \in Files
  BY DEF IInv, Typed, WorldTyped
<1>3. CmdTyped' /\ cmd'.pc = pc /\ cmd'.prior = file /\ cmd'.results = <<>>
  <2> DEFINE e == <<>>
  <2>1. Idle.results = e
    BY IdleType
  <2> HIDE DEF e
  <2>2. CmdTyped' /\ cmd'.pc = pc /\ cmd'.prior = file /\ cmd'.results = e
    BY <1>1, <1>2, <2>1, IdleType DEF CmdTyped, CmdPcs
  <2> QED BY <2>2 DEF e
<1>4. Fetched'
  BY <1>3 DEF Fetched
<1>5. Carried'
  BY <1>2, <1>3 DEF IInv, Carried, Lock
<1> QED BY <1>3, <1>4, <1>5

(* save: the file is replaced by what the command carries, or not at all.  *)
LEMMA SaveInv ==
  ASSUME IInv, SavePart \/ Rename \/ CmdKilled
  PROVE  CmdTyped' /\ Fetched' /\ Carried' /\ file' \in Files
<1>1. file \in Files /\ Sourced(served, file) /\ UNCHANGED <<mon, served>>
  BY DEF IInv, Typed, Carried, SavePart, Rename, CmdKilled, CmdStep
<1>2. CASE cmd' = Idle /\ file' = file
  BY <1>1, <1>2, EndCarries
<1>3. CASE Rename
  <2>1. cmd' = Idle /\ file' = cmd.prior /\ cmd.prior \in Files /\ Sourced(served, cmd.prior)
    BY <1>3 DEF Rename, CmdStep, IInv, Carried
  <2> QED BY <1>1, <2>1, EndCarries
<1>4. CASE SavePart /\ Goto("rename")
  <2>1. cmd' = [cmd EXCEPT !.pc = "rename"] /\ cmd.pc = "save" /\ file' = file
    BY <1>4 DEF SavePart, Goto, CmdStep
  <2>2. CmdTyped' /\ cmd'.pc = "rename" /\ cmd'.prior = cmd.prior
    BY <2>1 DEF IInv, Typed, CmdTyped, CmdPcs
  <2>3. Fetched'
    BY <2>2 DEF Fetched
  <2>4. Carried'
    BY <1>1, <2>1, <2>2 DEF IInv, Carried, CmdPcs
  <2> QED BY <1>1, <2>1, <2>2, <2>3, <2>4
<1> QED BY <1>2, <1>3, <1>4 DEF SavePart, CmdKilled

(* The heartbeat reads the file, and forgets it when it is done.           *)
LEMMA HeartbeatInv ==
  ASSUME IInv, HeartbeatBegin \/ HeartbeatEnd
  PROVE  MonTyped' /\ CmdTyped' /\ Fetched' /\ Carried'
<1>1. UNCHANGED <<cmd, file, served>> /\ clock \in Nat /\ file \in Files
  BY DEF HeartbeatBegin, HeartbeatEnd, IInv, Typed, WorldTyped
<1>2. MonTyped' /\ (mon'.pc = "idle" \/ (mon'.prior = file /\ mon'.verified = {}))
  <2>1. ASSUME NEW v \in SUBSET Feeds, mon' = MonIdle(v)
        PROVE  MonTyped' /\ mon'.pc = "idle"
    BY <2>1 DEF MonIdle, MonTyped
  <2>2. CASE HeartbeatEnd
    <3>1. PICK current \in ReadFeedProof :
            LET statuses == [f \in Feeds |-> Summary(mon.prior, current, f)] IN
            mon' = MonIdle(IF RowsAgree(statuses)
                           THEN {f \in Feeds : statuses[f] = "verified"} ELSE {})
      BY <2>2 DEF HeartbeatEnd
    <3> DEFINE statuses == [f \in Feeds |-> Summary(mon.prior, current, f)]
               v == IF RowsAgree(statuses) THEN {f \in Feeds : statuses[f] = "verified"} ELSE {}
    <3>2. mon' = MonIdle(v)
      BY <3>1
    <3> HIDE DEF statuses
    <3>3. v \in SUBSET Feeds
      OBVIOUS
    <3> HIDE DEF v
    <3> QED BY <2>1, <3>2, <3>3
  <2>3. CASE HeartbeatBegin /\ mon'.pc # "idle"
    <3>1. mon' = [pc |-> "snap", prior |-> file, now |-> clock, verified |-> {}]
      BY <2>3 DEF HeartbeatBegin, MonIdle
    <3> QED BY <1>1, <3>1 DEF MonTyped
  <2>4. HeartbeatBegin /\ mon'.pc = "idle" => mon' = MonIdle({})
    BY DEF HeartbeatBegin
  <2> QED BY <2>1, <2>2, <2>3, <2>4
<1>3. Later(served, served')
  BY <1>1 DEF Later
<1> QED BY <1>1, <1>2, <1>3, CmdStays

(* A snapshot is a list of contents, one for each feed read so far.        *)
LEMMA SnapshotType ==
  ASSUME IInv, [Next]_vars
  PROVE  SnapTyped'
<1>1. snap \in [Actors -> {None} \cup Snaps] /\ runtime.generation \in Nat /\ nft \in [Feeds -> Contents]
  BY DEF IInv, Typed, SnapTyped, WorldTyped
<1>2. CASE UNCHANGED snap
  BY <1>1, <1>2 DEF SnapTyped
<1>3. ASSUME NEW a \in Actors, EndSnap(a)
      PROVE  SnapTyped'
  BY <1>1, <1>3 DEF EndSnap, SnapTyped
<1>4. ASSUME NEW a \in Actors, SnapBegin(a)
      PROVE  SnapTyped'
  <2> DEFINE e == <<>>
             s == [generation |-> runtime.generation, sets |-> e]
  <2>1. e \in Seq(Contents)
    OBVIOUS
  <2>2. snap' = [snap EXCEPT ![a] = s]
    BY <1>4 DEF SnapBegin
  <2> HIDE DEF e
  <2>3. s \in Snaps
    BY <1>1, <2>1 DEF Snaps
  <2> HIDE DEF s
  <2> QED BY <1>1, <2>2, <2>3 DEF SnapTyped
<1>5. ASSUME NEW a \in Actors, SnapRead(a)
      PROVE  SnapTyped'
  <2>1. snap[a] \in Snaps /\ Len(snap[a].sets) < Len(FeedOrder)
    BY <1>1, <1>5 DEF SnapRead
  <2>2. snap[a].sets \in Seq(Contents)
    BY <2>1 DEF Snaps
  <2>3. FeedOrder[Len(snap[a].sets) + 1] \in Feeds
    BY <2>1, <2>2, BanipAssumption DEF Feeds
  <2>4. Append(snap[a].sets, nft[FeedOrder[Len(snap[a].sets) + 1]]) \in Seq(Contents)
    BY <1>1, <2>2, <2>3
  <2>5. [snap[a] EXCEPT !.sets = Append(snap[a].sets, nft[FeedOrder[Len(snap[a].sets) + 1]])]
          \in Snaps
    BY <2>1, <2>4 DEF Snaps
  <2>6. snap' = [snap EXCEPT ![a] =
                   [snap[a] EXCEPT !.sets = Append(snap[a].sets, nft[FeedOrder[Len(snap[a].sets) + 1]])]]
    BY <1>1, <1>5 DEF SnapRead
  <2> QED BY <1>1, <2>5, <2>6 DEF SnapTyped
<1>6. "cmd" \in Actors /\ "mon" \in Actors
  BY DEF Actors
<1>7. ~UNCHANGED snap => \E a \in Actors : EndSnap(a) \/ SnapBegin(a) \/ SnapRead(a)
  BY <1>6 DEF Next, vars, World, Tick, Snapshot, Lock, Command, CmdKilled, HeartbeatBegin,
         HeartbeatEnd, RefreshSnapped, Reload, Waited, Deadline, BeforeSnapped, Fetch,
         AfterSnapped, Finish, SavePart, Rename
<1> QED BY <1>2, <1>3, <1>4, <1>5, <1>7

(* The world keeps its types.                                              *)
LEMMA WorldType ==
  ASSUME IInv, [Next]_vars
  PROVE  WorldTyped'
<1>1. served' \in [Feeds -> [Contents -> {None} \cup Nat]]
  BY DownloadsStay DEF IInv
<1>2. clock' \in Nat
  <2>1. clock' = clock \/ Tick
    BY DEF Next, vars, World, Snapshot, Lock, Command, CmdKilled, HeartbeatBegin, CmdStep,
           HeartbeatEnd, RefreshSnapped, Reload, Waited, Deadline, BeforeSnapped, Fetch,
           AfterSnapped, Finish, SavePart, Rename
  <2> QED BY <2>1, Tolerances DEF Tick, IInv, Typed, WorldTyped
<1>3. /\ upstream' \in [Feeds -> Contents] /\ nft' \in [Feeds -> Contents]
      /\ runtime' \in [status : {"active", "processing"}, generation : Nat]
  <2>0. /\ upstream \in [Feeds -> Contents] /\ nft \in [Feeds -> Contents]
        /\ runtime \in [status : {"active", "processing"}, generation : Nat]
    BY DEF IInv, Typed, WorldTyped
  <2>1. CASE World
    BY <2>0, <2>1 DEF World, FeedChanges, ReloadBegins, ReloadEnds
  <2>2. CASE UNCHANGED <<upstream, nft, runtime>>
    BY <2>0, <2>2
  <2>3. CASE Reload
    BY <2>0, <2>3 DEF Reload, ReloadBegins
  <2> QED BY <2>1, <2>2, <2>3 DEF Next, vars, world, Snapshot, Lock, Command, CmdKilled,
         HeartbeatBegin, Tick, HeartbeatEnd, RefreshSnapped, Waited, Deadline, BeforeSnapped,
         Fetch, AfterSnapped, Finish, SavePart, Rename
<1> QED BY <1>1, <1>2, <1>3 DEF WorldTyped

(* IInv is inductive.                                                      *)
LEMMA NextInv == IInv /\ [Next]_vars => IInv'
<1> SUFFICES ASSUME IInv, [Next]_vars PROVE IInv'
  OBVIOUS
<1>1. Later(served, served') /\ WorldTyped' /\ SnapTyped'
  BY DownloadsStay, WorldType, SnapshotType DEF IInv
<1>2. CASE Command
  <2>1. CASE SavePart \/ Rename
    BY <1>1, <2>1, SaveInv DEF SavePart, Rename, CmdStep, IInv, Typed, MonTyped
  <2>2. CASE ~(SavePart \/ Rename)
    <3>1. CmdTyped' /\ Fetched' /\ Carried'
      BY <1>1, <1>2, <2>2, RefreshInv, BeforeSnappedInv, FetchInv, AfterSnappedInv, FinishInv
         DEF Command
    <3>2. UNCHANGED <<mon, file>>
      BY <1>2, <2>2 DEF Command, CmdStep, RefreshSnapped, Reload, Waited, Deadline, BeforeSnapped,
         Fetch, AfterSnapped, Finish
    <3> QED BY <1>1, <3>1, <3>2 DEF IInv, Typed, MonTyped
  <2> QED BY <2>1, <2>2
<1>3. CASE Lock
  BY <1>1, <1>3, LockInv DEF Lock, IInv, Typed, MonTyped
<1>4. CASE CmdKilled
  BY <1>1, <1>4, SaveInv DEF CmdKilled, IInv, Typed, MonTyped
<1>5. CASE HeartbeatBegin \/ HeartbeatEnd
  BY <1>1, <1>5, HeartbeatInv DEF HeartbeatBegin, HeartbeatEnd, IInv, Typed
<1>6. CASE UNCHANGED <<cmd, file, mon>>
  <2>1. MonTyped'
    BY <1>6 DEF IInv, Typed, MonTyped
  <2> QED BY <1>1, <1>6, <2>1, CmdStays DEF IInv, Typed
<1> QED BY <1>2, <1>3, <1>4, <1>5, <1>6 DEF Next, vars, World, Tick, Snapshot

(* The invariant holds in every behaviour.                                 *)
LEMMA Invariance == Spec => []IInv
BY InitInv, NextInv, PTL DEF Spec

-----------------------------------------------------------------------------
(* The theorems.                                                           *)

(* A verified feed rests on a download that is not older than the age      *)
(* limit, the tolerated difference of two clock readings and one           *)
(* verification.                                                           *)
THEOREM ReportsAreFresh == Spec => VerifiedIsFresh
<1> DEFINE Fresh(f) ==
             LET downloaded == served[f][SetOf(snap["mon"], f)] IN
             downloaded # None /\ mon.now - downloaded <= MaxAge + Slack + MaxVerify
<1>1. ASSUME IInv, [Next]_vars, mon.pc = "snap", NEW f \in mon'.verified
      PROVE  Fresh(f)
  <2> DEFINE good == mon.prior[f].last_verified
             c == good.content
             mine == IF mon.now > good.at THEN mon.now - good.at ELSE 0
  <2>1. mon.prior \in Files /\ Sourced(served, mon.prior) /\ mon.verified = {}
    BY <1>1 DEF IInv, Carried
  <2>2. HeartbeatEnd
    <3>1. mon' # mon
      BY <1>1, <2>1
    <3> QED BY <1>1, <3>1 DEF Next, vars, World, Tick, Snapshot, Lock, Command, CmdKilled,
           HeartbeatBegin, CmdStep, RefreshSnapped, Reload, Waited, Deadline, BeforeSnapped,
           Fetch, AfterSnapped, Finish, SavePart, Rename
  <2>3. PICK current \in ReadFeedProof :
          LET statuses == [g \in Feeds |-> Summary(mon.prior, current, g)] IN
          mon' = MonIdle(IF RowsAgree(statuses)
                         THEN {g \in Feeds : statuses[g] = "verified"} ELSE {})
    BY <2>2 DEF HeartbeatEnd
  <2> DEFINE statuses == [g \in Feeds |-> Summary(mon.prior, current, g)]
  <2>4. RowsAgree(statuses) /\ f \in Feeds /\ statuses[f] = "verified"
    BY <1>1, <2>3 DEF MonIdle
  <2>5. Summary(mon.prior, current, f) = "verified"
    BY <2>4
  <2>6. mon.prior[f].last_check = None \/ mon.prior[f].last_check.status \in {"verified", "error", "unknown"}
    BY <2>1, <2>4 DEF Files, Rows, Checks
  <2>7. current # None /\ good # None /\ c = SetOf(current, f)
    BY <2>5, <2>6 DEF Summary
  <2>8. current = snap["mon"]
    BY <2>7 DEF ReadFeedProof
  <2>9. /\ Age(good.at) - mine \in -Slack..Slack
        /\ Age(good.at) <= MaxAge
    BY <2>4, <2>7 DEF RowsAgree
  <2>10. good \in Proofs
    BY <2>1, <2>4, <2>7 DEF Files, Rows
  <2>11. good.at \in Nat /\ c \in Contents
    BY <2>10 DEF Proofs
  <2>12. clock \in Nat /\ mon.now \in Nat /\ served[f][c] \in {None} \cup Nat
    BY <1>1, <2>4, <2>11 DEF IInv, Typed, WorldTyped, MonTyped
  <2>13. served[f][c] # None /\ served[f][c] >= good.at - MaxVerify
    BY <2>1, <2>4, <2>7 DEF Sourced, Downloaded
  <2>14. served[f][c] = served[f][SetOf(snap["mon"], f)]
    BY <2>7, <2>8
  <2> HIDE DEF good, c, statuses
  <2>15. Age(good.at) \in Nat
    BY <2>11, <2>12 DEF Age
  <2>16. mine <= MaxAge + Slack
    BY <2>9, <2>11, <2>12, <2>15, Tolerances
  <2>17. mon.now - good.at <= mine
    BY <2>11, <2>12
  <2>18. mon.now - served[f][c] <= MaxAge + Slack + MaxVerify
    BY <2>11, <2>12, <2>13, <2>16, <2>17, Tolerances
  <2> QED BY <2>13, <2>14, <2>18
<1>2. IInv /\ [Next]_vars =>
        [mon.pc = "snap" => \A f \in mon'.verified :
           LET downloaded == served[f][SetOf(snap["mon"], f)] IN
           downloaded # None /\ mon.now - downloaded <= MaxAge + Slack + MaxVerify]_vars
  BY <1>1
<1> QED BY <1>2, Invariance, PTL DEF Spec, VerifiedIsFresh

(* A good proof is replaced only by a newer one.                           *)
THEOREM EvidenceIsKept == Spec => EvidenceKept
<1>1. ASSUME IInv, [Next]_vars
      PROVE  Keeps(file, file')
  <2>1. CASE UNCHANGED file
    BY <2>1 DEF Keeps
  <2>2. CASE Rename
    BY <1>1, <2>2 DEF Rename, CmdStep, IInv, Carried
  <2>3. ~UNCHANGED file => Rename
    BY <1>1 DEF Next, vars, World, Tick, Snapshot, Lock, Command, CmdKilled, HeartbeatBegin,
         HeartbeatEnd, RefreshSnapped, Reload, Waited, Deadline, BeforeSnapped, Fetch,
         AfterSnapped, Finish, SavePart
  <2> QED BY <2>1, <2>2, <2>3
<1>2. IInv /\ [Next]_vars =>
        [\A f \in Feeds : \/ file[f].last_verified = None
                          \/ file'[f].last_verified = file[f].last_verified
                          \/ /\ file'[f].last_verified # None
                             /\ file'[f].last_check.status = "verified"]_vars
  BY <1>1 DEF Keeps
<1> QED BY <1>2, Invariance, PTL DEF Spec, EvidenceKept

-----------------------------------------------------------------------------
(* PullWrapper                                                             *)

Files0 == Roles \cup {"last"}
PinSet == PullWrapper!Pins \cup {PullWrapper!LegacyPin}
Trees == [head : {None} \cup Revisions, modified : BOOLEAN, untracked : BOOLEAN,
          galaxy : {None} \cup Revisions]
States == [ok : BOOLEAN, at : Nat, run : Nat]
Receipts == [head : {None} \cup Revisions, pin : PinSet, boot : Nat, at : Nat, run : Nat]
Runs == [role : Roles, boot : Nat, played : {None} \cup Trees, ok : BOOLEAN]
Steps == {"idle", "pin", "vars", "prepare", "fetch", "reset", "galaxy", "verify", "play",
          "log", "post", "execution"}
Kinds == {"post-pull", "pinned"}

NodeTyped ==
    /\ node \in [boot : Nat, since : Nat, clock : Nat, mode : {"legacy", "pinned"},
                 stage : {"stg", "prod"}]
    /\ declared \in PullWrapper!Declarations
    /\ tip \in Revisions
    /\ checkout \in Trees
WrapperTyped ==
    wrapper \in [step : Steps, role : {None} \cup Roles, run : Nat, pin : PinSet,
                 deadline : Nat, ok : BOOLEAN, touched : BOOLEAN]
FilesTyped ==
    files \in [Files0 -> [state : {None} \cup States, receipt : {None} \cup Receipts,
                          execution : {None} \cup Receipts]]
ReaderTyped ==
    \/ reader = PullWrapper!QuietReader
    \/ reader \in [kind : Kinds, role : Roles, now : Nat, receipt : {None} \cup Receipts]

(* Every variable keeps its type.                                          *)
PullTyped == NodeTyped /\ WrapperTyped /\ FilesTyped /\ ReaderTyped /\ history \in Seq(Runs)

(* The run in progress has not logged its state yet.                       *)
Unlogged == wrapper.step \notin {"idle", "post", "execution"}

(* The run in progress is the last of the history.                         *)
Running ==
    wrapper.step # "idle" =>
        /\ wrapper.run = Len(history) /\ wrapper.run \in 1..Len(history)
        /\ wrapper.role \in Roles
        /\ history[wrapper.run].role = wrapper.role
        /\ history[wrapper.run].boot = node.boot

(* A state file is of this boot and says how its run ended.                *)
LoggedState(r) ==
    LET s == files[r].state IN
    s # None =>
        /\ s.run \in 1..Len(history) /\ s.at <= node.clock
        /\ history[s.run].boot = node.boot /\ history[s.run].ok = s.ok
        /\ r \in Roles => history[s.run].role = r
        /\ Unlogged => s.run # wrapper.run
Logged ==
    /\ \A r \in Files0 : LoggedState(r)
    /\ wrapper.step \in {"post", "execution"} =>
           /\ files[wrapper.role].state \in States
           /\ files[wrapper.role].state.run = wrapper.run

(* A receipt x of role r, on the disk or in a reader's hands, is of the run *)
(* that wrote the role's state, or of an earlier one and then older.       *)
Beside(r, x) ==
    LET s == files[r].state IN
    /\ x \in Receipts
    /\ x.run \in 1..Len(history) /\ x.at <= node.clock
    /\ wrapper.step # "idle" /\ x.run # wrapper.run => x.at < node.clock
    /\ Unlogged => x.run # wrapper.run
    /\ s \in States /\ x.run <= s.run
    /\ x.run < s.run => x.at < s.at
Receipted ==
    /\ \A r \in Roles : /\ files[r].receipt # None => Beside(r, files[r].receipt)
                        /\ files[r].execution # None => Beside(r, files[r].execution)
    /\ reader.kind \in Kinds => Beside(reader.role, reader.receipt)

(* The playbook of run n was started on an unmodified tree of commit rev.  *)
PlayedAt(n, rev) == history[n].played.head = rev /\ ~history[n].played.modified
Witnessed ==
    /\ \A r \in Roles : LET x == files[r].execution IN x # None => PlayedAt(x.run, x.pin.rev)
    /\ reader.kind = "pinned" => PlayedAt(reader.receipt.run, reader.receipt.pin.rev)
Started ==
    wrapper.step = "play" \/ (wrapper.step \in {"log", "post", "execution"} /\ wrapper.ok) =>
        (PullWrapper!Pinned => PlayedAt(wrapper.run, wrapper.pin.rev))

(* What a pinned run that nobody disturbs has prepared so far.             *)
Exact ==
    PullWrapper!Pinned /\ ~wrapper.touched =>
        /\ wrapper.step \in {"galaxy", "verify"} =>
               checkout.head = wrapper.pin.rev /\ PullWrapper!TreeClean
        /\ wrapper.step = "verify" => checkout.galaxy = wrapper.pin.rev
        /\ wrapper.step = "play" =>
               history[wrapper.run].played =
                   [head |-> wrapper.pin.rev, modified |-> FALSE, untracked |-> FALSE,
                    galaxy |-> wrapper.pin.rev]

PullInv == PullTyped /\ Running /\ Logged /\ Receipted /\ Witnessed /\ Started /\ Exact

-----------------------------------------------------------------------------
(* Steps of a run that write no file.                                      *)

(* The names are apart and the branch points at a commit.                  *)
LEMMA Apart == "last" \notin Roles /\ None \notin Kinds /\ TokenWait \in Nat /\ Revisions # {}
BY WrapperAssumption DEF Kinds

(* The run in progress goes on, or what it does is not its own doing: the  *)
(* files, the history and the reader stay as they are.                     *)
Aside ==
    /\ UNCHANGED <<node, files, history, reader>>
    /\ wrapper'.run = wrapper.run /\ wrapper'.role = wrapper.role
    /\ wrapper'.step = wrapper.step \/ (Unlogged /\ Unlogged')

LEMMA AsideKeeps ==
  ASSUME PullInv, Aside
  PROVE  /\ Running' /\ Logged' /\ Receipted' /\ FilesTyped' /\ ReaderTyped'
         /\ Witnessed' /\ (history \in Seq(Runs))'
<1>1. /\ node' = node /\ files' = files /\ history' = history /\ reader' = reader
      /\ wrapper'.run = wrapper.run /\ wrapper'.role = wrapper.role
  BY DEF Aside
<1>2. Unlogged' <=> Unlogged
  BY DEF Aside, Unlogged
<1>3. (wrapper'.step = "idle" <=> wrapper.step = "idle") /\
      (wrapper'.step \in {"post", "execution"} <=> wrapper.step \in {"post", "execution"})
  BY DEF Aside, Unlogged
<1>4. Running'
  BY <1>1, <1>3 DEF PullInv, Running
<1>5. Logged'
  BY <1>1, <1>2, <1>3 DEF PullInv, Logged, LoggedState
<1>6. ASSUME NEW r, NEW x, Beside(r, x)
      PROVE  Beside(r, x)'
  BY <1>1, <1>2, <1>3, <1>6 DEF Beside
<1>7. Receipted'
  BY <1>1, <1>6 DEF PullInv, Receipted
<1>8. FilesTyped' /\ ReaderTyped' /\ (history \in Seq(Runs))'
  BY <1>1 DEF PullInv, PullTyped, FilesTyped, ReaderTyped, PullWrapper!QuietReader
<1>9. \A n, v : PlayedAt(n, v)' <=> PlayedAt(n, v)
  BY <1>1 DEF PlayedAt
<1>10. Witnessed'
  BY <1>1, <1>9 DEF PullInv, Witnessed
<1> QED BY <1>4, <1>5, <1>7, <1>8, <1>10

(* The pin that resolve gives is the declared one or none.                 *)
LEMMA ResolvedPin ==
  ASSUME PullTyped, PullWrapper!Resolve # None
  PROVE  PullWrapper!Resolve \in PinSet
<1>1. declared.kind \in {"good", "shared"} => declared.pin \in PullWrapper!Pins
  BY DEF PullTyped, NodeTyped, PullWrapper!Declarations
<1> QED BY <1>1 DEF PullWrapper!Resolve, PullWrapper!Decodes, PinSet

(* A pin that is not the one of a legacy run names a revision.             *)
LEMMA PinnedRevision ==
  ASSUME PullTyped, PullWrapper!Pinned
  PROVE  wrapper.pin.rev \in Revisions
<1>1. wrapper.pin \in PullWrapper!Pins
  BY DEF PullTyped, WrapperTyped, PullWrapper!Pinned, PinSet
<1> QED BY <1>1 DEF PullWrapper!Pins

(* Nobody holds the lock in a state of the right type.                     *)
LEMMA IdleTyped ==
  PullWrapper!Idle \in [step : Steps, role : {None} \cup Roles, run : Nat, pin : PinSet,
                        deadline : Nat, ok : BOOLEAN, touched : BOOLEAN]
<1>1. PullWrapper!LegacyPin \in PinSet
  BY DEF PinSet
<1> QED BY <1>1 DEF PullWrapper!Idle, Steps

-----------------------------------------------------------------------------
(* The invariant: the first state.                                         *)

LEMMA PullInit ==
  ASSUME PullWrapper!Init
  PROVE  PullInv
<1> USE Apart
<1>1. /\ node.boot = 1 /\ node.clock = 0 /\ wrapper = PullWrapper!Idle
      /\ reader = PullWrapper!QuietReader /\ history = <<>>
      /\ files = [r \in Files0 |-> PullWrapper!NoFiles]
      /\ checkout = PullWrapper!NoCheckout
  BY DEF PullWrapper!Init, Files0
<1>2. \A r \in Files0 : files[r].state = None /\ files[r].receipt = None /\ files[r].execution = None
  BY <1>1 DEF PullWrapper!NoFiles
<1>3. wrapper.step = "idle" /\ reader.kind = None
  BY <1>1 DEF PullWrapper!Idle, PullWrapper!QuietReader
<1>4. NodeTyped
  <2>1. (CHOOSE r \in Revisions : TRUE) \in Revisions
    OBVIOUS
  <2>2. checkout \in Trees
    BY <1>1 DEF PullWrapper!NoCheckout, Trees
  <2> QED BY <2>1, <2>2 DEF PullWrapper!Init, NodeTyped
<1>5. WrapperTyped
  BY <1>1, IdleTyped DEF WrapperTyped
<1>6. FilesTyped
  BY <1>1 DEF FilesTyped, PullWrapper!NoFiles
<1>7. history \in Seq(Runs)
  BY <1>1
<1>8. PullTyped
  BY <1>1, <1>4, <1>5, <1>6, <1>7 DEF PullTyped, ReaderTyped
<1>9. Running /\ Logged
  BY <1>2, <1>3 DEF Running, Logged, LoggedState
<1>10. \A r \in Roles : r \in Files0
  BY DEF Files0
<1>11. Receipted /\ Witnessed /\ Started
  BY <1>2, <1>3, <1>10 DEF Receipted, Witnessed, Started, Kinds
<1>12. Exact
  BY <1>3 DEF Exact
<1> QED BY <1>8, <1>9, <1>11, <1>12 DEF PullInv

-----------------------------------------------------------------------------
(* The invariant: steps that write neither a file nor the history.         *)

(* What is left to show of such a step.                                    *)
LEMMA AsideEnough ==
  ASSUME PullInv, Aside, NodeTyped', WrapperTyped', Started', Exact'
  PROVE  PullInv'
BY AsideKeeps DEF PullInv, PullTyped

(* A run that fails has nothing more to show of its playbook.              *)
LEMMA FailKeeps ==
  ASSUME PullInv, PullWrapper!Fail, Unlogged, wrapper.step # "idle",
         UNCHANGED <<node, files, history, reader, declared, tip>>, checkout' \in Trees
  PROVE  PullInv'
<1>1. WrapperTyped /\ NodeTyped
  BY DEF PullInv, PullTyped
<1>2. /\ wrapper'.step = "log" /\ ~wrapper'.ok /\ WrapperTyped'
      /\ wrapper'.run = wrapper.run /\ wrapper'.role = wrapper.role
  BY <1>1 DEF WrapperTyped, PullWrapper!Fail, Steps
<1>3. Aside
  BY <1>2 DEF Aside, Unlogged
<1>4. NodeTyped'
  BY <1>1 DEF NodeTyped
<1>5. Started' /\ Exact'
  BY <1>2 DEF Started, Exact
<1> QED BY <1>2, <1>3, <1>4, <1>5, AsideEnough

(* A step of the run in progress before its playbook starts.               *)
LEMMA GoOnKeeps ==
  ASSUME PullInv, NEW st \in {"prepare", "fetch", "reset", "galaxy", "verify"},
         PullWrapper!GoTo(st), Unlogged, wrapper.step # "idle",
         UNCHANGED <<node, files, history, reader, declared, tip>>, checkout' \in Trees,
         PullWrapper!Pinned /\ ~wrapper.touched =>
            /\ st \in {"galaxy", "verify"} =>
                 checkout'.head = wrapper.pin.rev /\ ~checkout'.modified /\ ~checkout'.untracked
            /\ st = "verify" => checkout'.galaxy = wrapper.pin.rev
  PROVE  PullInv'
<1>1. WrapperTyped /\ NodeTyped
  BY DEF PullInv, PullTyped
<1>2. wrapper' = [wrapper EXCEPT !.step = st] /\ st \in Steps
  BY DEF PullWrapper!GoTo, Steps
<1>3. /\ wrapper'.step = st /\ WrapperTyped'
      /\ wrapper'.run = wrapper.run /\ wrapper'.role = wrapper.role
      /\ wrapper'.pin = wrapper.pin /\ wrapper'.touched = wrapper.touched
  BY <1>1, <1>2 DEF WrapperTyped
<1>4. Aside
  BY <1>3 DEF Aside, Unlogged
<1>5. NodeTyped'
  BY <1>1 DEF NodeTyped
<1>6. Started'
  BY <1>3 DEF Started
<1>7. Exact'
  BY <1>3 DEF Exact, PullWrapper!Pinned, PullWrapper!TreeClean
<1> QED BY <1>3, <1>4, <1>5, <1>6, <1>7, AsideEnough

(* The pin, the extra variables, the preparation, the fetch and the reset. *)
LEMMA EarlyStepsKeep ==
  ASSUME PullInv,
         \/ PullWrapper!ResolvePin \/ PullWrapper!ExtraVars \/ PullWrapper!Prepare
         \/ PullWrapper!Fetch \/ PullWrapper!Reset
  PROVE  PullInv'
<1> USE DEF PullWrapper!Env, PullWrapper!Quiet
<1>1. WrapperTyped /\ NodeTyped /\ checkout \in Trees /\ tip \in Revisions
  BY DEF PullInv, PullTyped, NodeTyped
<1>2. CASE PullWrapper!ResolvePin
  <2>1. wrapper.step = "pin" /\ Unlogged /\ UNCHANGED <<node, files, history, reader, declared, tip, checkout>>
    BY <1>2 DEF PullWrapper!ResolvePin, Unlogged
  <2>2. CASE PullWrapper!Resolve = None
    BY <1>1, <1>2, <2>1, <2>2, FailKeeps DEF PullWrapper!ResolvePin
  <2>3. CASE PullWrapper!Resolve # None
    <3>1. PullWrapper!Resolve \in PinSet
      BY <2>3, ResolvedPin DEF PullInv
    <3>2. node.clock + TokenWait \in Nat
      BY <1>1, Apart DEF NodeTyped
    <3>3. wrapper' = [wrapper EXCEPT !.step = "vars", !.pin = PullWrapper!Resolve,
                                     !.deadline = node.clock + TokenWait]
      BY <1>2, <2>3 DEF PullWrapper!ResolvePin
    <3>4. /\ wrapper'.step = "vars" /\ WrapperTyped'
          /\ wrapper'.run = wrapper.run /\ wrapper'.role = wrapper.role
      <4> DEFINE p == PullWrapper!Resolve
                 t == node.clock + TokenWait
      <4> HIDE DEF p, t
      <4>1. p \in PinSet /\ t \in Nat /\ wrapper' = [wrapper EXCEPT !.step = "vars", !.pin = p, !.deadline = t]
        BY <3>1, <3>2, <3>3 DEF p, t
      <4> QED BY <1>1, <4>1 DEF WrapperTyped, Steps
    <3>5. Aside
      BY <2>1, <3>4 DEF Aside, Unlogged
    <3>6. NodeTyped'
      BY <1>1, <2>1 DEF NodeTyped
    <3>7. Started' /\ Exact'
      BY <3>4 DEF Started, Exact
    <3> QED BY <3>4, <3>5, <3>6, <3>7, AsideEnough
  <2> QED BY <2>2, <2>3
<1>3. CASE PullWrapper!ExtraVars
  <2>1. wrapper.step = "vars" /\ Unlogged /\ UNCHANGED <<node, files, history, reader, declared, tip, checkout>>
    BY <1>3 DEF PullWrapper!ExtraVars, Unlogged
  <2> QED BY <1>1, <1>3, <2>1, FailKeeps, GoOnKeeps DEF PullWrapper!ExtraVars
<1>4. CASE PullWrapper!Prepare
  <2>1. wrapper.step = "prepare" /\ Unlogged /\ UNCHANGED <<node, files, history, reader, declared, tip, checkout>>
    BY <1>4 DEF PullWrapper!Prepare, Unlogged
  <2>2. \/ PullWrapper!Pinned /\ PullWrapper!PrepareCurrent /\ PullWrapper!GoTo("galaxy")
        \/ PullWrapper!GoTo("fetch")
    BY <1>4 DEF PullWrapper!Prepare
  <2>3. PullWrapper!PrepareCurrent => checkout.head = wrapper.pin.rev /\ ~checkout.modified /\ ~checkout.untracked
    BY DEF PullWrapper!PrepareCurrent, PullWrapper!TreeClean
  <2> QED BY <1>1, <2>1, <2>2, <2>3, GoOnKeeps
<1>5. CASE PullWrapper!Fetch
  <2>1. wrapper.step = "fetch" /\ Unlogged /\ UNCHANGED <<node, files, history, reader, declared, tip>>
    BY <1>5 DEF PullWrapper!Fetch, Unlogged
  <2>2. [checkout EXCEPT !.galaxy = None] \in Trees
    BY <1>1 DEF Trees
  <2>3. \/ PullWrapper!GoTo("reset") /\ checkout' \in Trees
        \/ PullWrapper!Fail /\ checkout' \in Trees
    BY <1>1, <1>5, <2>2 DEF PullWrapper!Fetch
  <2> QED BY <2>1, <2>3, FailKeeps, GoOnKeeps
<1>6. CASE PullWrapper!Reset
  <2>1. wrapper.step = "reset" /\ Unlogged /\ UNCHANGED <<node, files, history, reader, declared, tip>>
    BY <1>6 DEF PullWrapper!Reset, Unlogged
  <2> DEFINE rev == IF PullWrapper!Pinned THEN wrapper.pin.rev ELSE tip
  <2>2. rev \in Revisions
    BY <1>1, PinnedRevision DEF PullInv
  <2>3. checkout' = [checkout EXCEPT !.head = rev, !.modified = FALSE]
    BY <1>6 DEF PullWrapper!Reset
  <2>4. PullWrapper!Pinned => rev = wrapper.pin.rev
    OBVIOUS
  <2> HIDE DEF rev
  <2>5. checkout' \in Trees /\ checkout'.head = rev /\ ~checkout'.modified
        /\ checkout'.untracked = checkout.untracked
    BY <1>1, <2>2, <2>3 DEF Trees
  <2>6. CASE PullWrapper!Pinned /\ checkout.untracked
    BY <1>6, <2>1, <2>5, <2>6, FailKeeps DEF PullWrapper!Reset
  <2>7. CASE ~(PullWrapper!Pinned /\ checkout.untracked)
    <3>1. PullWrapper!GoTo("galaxy")
      BY <1>6, <2>7 DEF PullWrapper!Reset
    <3> QED BY <2>1, <2>4, <2>5, <2>7, <3>1, GoOnKeeps
  <2> QED BY <2>6, <2>7
<1> QED BY <1>2, <1>3, <1>4, <1>5, <1>6

(* ansible-galaxy.                                                         *)
LEMMA GalaxyKeeps ==
  ASSUME PullInv, PullWrapper!Galaxy
  PROVE  PullInv'
<1> USE DEF PullWrapper!Env
<1>1. checkout \in Trees
  BY DEF PullInv, PullTyped, NodeTyped
<1>2. wrapper.step = "galaxy" /\ Unlogged /\ UNCHANGED <<node, files, history, reader, declared, tip>>
  BY DEF PullWrapper!Galaxy, Unlogged
<1>3. PullWrapper!Pinned /\ ~wrapper.touched =>
         checkout.head = wrapper.pin.rev /\ ~checkout.modified /\ ~checkout.untracked
  BY <1>2 DEF PullInv, Exact, PullWrapper!TreeClean
<1>4. CASE PullWrapper!Pinned /\ PullWrapper!PrepareCurrent
  <2>1. PullWrapper!GoTo("verify") /\ checkout' = checkout /\ checkout.galaxy = wrapper.pin.rev
    BY <1>4 DEF PullWrapper!Galaxy, PullWrapper!PrepareCurrent
  <2> QED BY <1>1, <1>2, <1>3, <2>1, GoOnKeeps
<1>5. ASSUME checkout' = [checkout EXCEPT !.galaxy = checkout.head],
             PullWrapper!GoTo("verify")
      PROVE  PullInv'
  <2>1. /\ checkout' \in Trees /\ checkout'.head = checkout.head
        /\ checkout'.galaxy = checkout.head /\ checkout'.modified = checkout.modified
        /\ checkout'.untracked = checkout.untracked
    BY <1>1, <1>5 DEF Trees
  <2> QED BY <1>2, <1>3, <1>5, <2>1, GoOnKeeps
<1>6. ASSUME checkout' = [checkout EXCEPT !.galaxy = checkout.head]
              \/ checkout' = [checkout EXCEPT !.galaxy = None],
             PullWrapper!Fail
      PROVE  PullInv'
  <2>1. checkout' \in Trees
    BY <1>1, <1>6 DEF Trees
  <2> QED BY <1>2, <1>6, <2>1, FailKeeps
<1>7. \/ PullWrapper!Pinned /\ PullWrapper!PrepareCurrent
      \/ checkout' = [checkout EXCEPT !.galaxy = checkout.head] /\ PullWrapper!GoTo("verify")
      \/ checkout' = [checkout EXCEPT !.galaxy = checkout.head] /\ PullWrapper!Fail
      \/ checkout' = [checkout EXCEPT !.galaxy = None] /\ PullWrapper!Fail
  BY DEF PullWrapper!Galaxy
<1> QED BY <1>4, <1>5, <1>6, <1>7

(* The end of the playbook.                                                *)
LEMMA PlayEndsKeeps ==
  ASSUME PullInv, PullWrapper!PlayEnds
  PROVE  PullInv'
<1> USE DEF PullWrapper!Env, PullWrapper!Quiet
<1>1. WrapperTyped /\ NodeTyped /\ Started
  BY DEF PullInv, PullTyped
<1>2. /\ wrapper.step = "play" /\ Unlogged
      /\ UNCHANGED <<node, files, history, reader, declared, tip, checkout>>
  BY DEF PullWrapper!PlayEnds, Unlogged
<1>3. PICK ok \in BOOLEAN : wrapper' = [wrapper EXCEPT !.step = "log", !.ok = ok]
  BY DEF PullWrapper!PlayEnds
<1>4. /\ wrapper'.step = "log" /\ WrapperTyped' /\ wrapper'.pin = wrapper.pin
      /\ wrapper'.run = wrapper.run /\ wrapper'.role = wrapper.role
  BY <1>1, <1>3 DEF WrapperTyped, Steps
<1>5. Aside
  BY <1>2, <1>4 DEF Aside, Unlogged
<1>6. NodeTyped'
  BY <1>1, <1>2 DEF NodeTyped
<1>7. Started' /\ Exact'
  BY <1>1, <1>2, <1>4 DEF Started, Exact, PlayedAt, PullWrapper!Pinned
<1> QED BY <1>4, <1>5, <1>6, <1>7, AsideEnough

-----------------------------------------------------------------------------
(* The invariant: steps that write the history or a file.                  *)

(* A run begins: everything on the disk is a second older than its clock.  *)
LEMMA StartKeeps ==
  ASSUME PullInv, NEW r \in Roles, PullWrapper!Start(r)
  PROVE  PullInv'
<1> USE DEF PullWrapper!Env
<1> DEFINE entry == [role |-> r, boot |-> node.boot, played |-> None, ok |-> FALSE]
<1>1. WrapperTyped /\ NodeTyped /\ FilesTyped /\ ReaderTyped /\ history \in Seq(Runs) /\ node.boot \in Nat
  BY DEF PullInv, PullTyped, NodeTyped
<1>2. /\ wrapper.step = "idle" /\ node' = [node EXCEPT !.clock = @ + 1]
      /\ wrapper' = [PullWrapper!Idle EXCEPT !.step = "pin", !.role = r, !.run = Len(history) + 1]
      /\ history' = Append(history, entry)
      /\ UNCHANGED <<checkout, files, declared, tip, reader>>
  BY DEF PullWrapper!Start
<1>3. entry \in Runs /\ entry.role = r /\ entry.boot = node.boot
  BY <1>1 DEF Runs
<1> HIDE DEF entry
<1>4. node' \in [boot : Nat, since : Nat, clock : Nat, mode : {"legacy", "pinned"},
                 stage : {"stg", "prod"}] /\ node'.clock = node.clock + 1 /\ node'.boot = node.boot
  BY <1>1, <1>2 DEF NodeTyped
<1>5. /\ WrapperTyped' /\ wrapper'.step = "pin" /\ wrapper'.role = r
      /\ wrapper'.run = Len(history) + 1
  <2> DEFINE n == Len(history) + 1
  <2>1. n \in Nat /\ wrapper' = [PullWrapper!Idle EXCEPT !.step = "pin", !.role = r, !.run = n]
    BY <1>1, <1>2
  <2> HIDE DEF n
  <2>2. wrapper'.step = "pin" /\ wrapper'.role = r /\ wrapper'.run = n
    BY <2>1, IdleTyped
  <2>3. WrapperTyped'
    BY <2>1, IdleTyped DEF WrapperTyped, Steps
  <2> QED BY <2>2, <2>3 DEF n
<1>6. /\ history' \in Seq(Runs) /\ Len(history') = Len(history) + 1
      /\ history'[Len(history) + 1] = entry
      /\ \A i \in 1..Len(history) : history'[i] = history[i] /\ i \in 1..Len(history') /\ i # wrapper'.run
  BY <1>1, <1>2, <1>3, <1>5
<1>8. NodeTyped' /\ FilesTyped' /\ ReaderTyped'
  BY <1>1, <1>2, <1>4 DEF NodeTyped, FilesTyped, ReaderTyped, PullWrapper!QuietReader
<1>9. Running'
  BY <1>1, <1>3, <1>4, <1>5, <1>6 DEF Running
<1>10. Logged'
  <2>1. ASSUME NEW q \in Files0
        PROVE  LoggedState(q)'
    <3>1. LoggedState(q) /\ (files[q].state # None => files[q].state \in States)
      BY <1>1 DEF PullInv, Logged, FilesTyped
    <3> QED BY <1>1, <1>2, <1>4, <1>6, <3>1 DEF LoggedState, NodeTyped, States
  <2> QED BY <1>5, <2>1 DEF Logged
<1>11. ASSUME NEW q, NEW x, Beside(q, x)
       PROVE  Beside(q, x)' /\ \A v : PlayedAt(x.run, v) => PlayedAt(x.run, v)'
  <2>1. x.at \in Nat /\ node.clock \in Nat
    BY <1>1, <1>11 DEF Beside, Receipts, NodeTyped
  <2> QED BY <1>2, <1>4, <1>6, <1>11, <2>1 DEF Beside, PlayedAt
<1>12. Receipted'
  BY <1>2, <1>11 DEF PullInv, Receipted
<1>13. Witnessed'
  <2>1. Receipted /\ Witnessed
    BY DEF PullInv
  <2> QED BY <1>2, <1>11, <2>1 DEF Receipted, Witnessed, Kinds
<1>14. Started' /\ Exact'
  BY <1>5 DEF Started, Exact
<1> QED BY <1>5, <1>6, <1>8, <1>9, <1>10, <1>12, <1>13, <1>14 DEF PullInv, PullTyped

(* A step of a run that has logged no state yet and that changes only its  *)
(* own entry of the history.                                               *)
LEMMA EntryKeeps ==
  ASSUME PullInv, Unlogged, wrapper.step # "idle",
         NEW entry \in Runs, history' = [history EXCEPT ![wrapper.run] = entry],
         entry.role = history[wrapper.run].role, entry.boot = history[wrapper.run].boot
  PROVE  /\ history' \in Seq(Runs) /\ Len(history') = Len(history)
         /\ history'[wrapper.run] = entry
         /\ \A i \in 1..Len(history) : i # wrapper.run => history'[i] = history[i]
         /\ \A q, x, v : /\ Beside(q, x)
                         => x.run # wrapper.run /\ (PlayedAt(x.run, v) => PlayedAt(x.run, v)')
<1>1. history \in Seq(Runs) /\ wrapper.run \in 1..Len(history)
  BY DEF PullInv, PullTyped, Running
<1>2. /\ history' \in Seq(Runs) /\ Len(history') = Len(history)
      /\ history'[wrapper.run] = entry
      /\ \A i \in 1..Len(history) : i # wrapper.run => history'[i] = history[i]
  BY <1>1
<1>3. ASSUME NEW q, NEW x, NEW v, Beside(q, x)
      PROVE  x.run # wrapper.run /\ (PlayedAt(x.run, v) => PlayedAt(x.run, v)')
  BY <1>2, <1>3 DEF Beside, PlayedAt
<1> QED BY <1>2, <1>3

(* The playbook starts on the tree it finds.                               *)
LEMMA PlayKeeps ==
  ASSUME PullInv, PullWrapper!Play
  PROVE  PullInv'
<1> USE DEF PullWrapper!Env
<1>1. /\ WrapperTyped /\ NodeTyped /\ checkout \in Trees /\ tip \in Revisions
      /\ history \in Seq(Runs) /\ Running
  BY DEF PullInv, PullTyped, NodeTyped
<1>2. /\ wrapper.step = "verify" /\ Unlogged
      /\ UNCHANGED <<node, files, reader, declared, tip>>
  BY DEF PullWrapper!Play, Unlogged
<1>3. CASE ~PullWrapper!SourceVerified
  BY <1>1, <1>2, <1>3, FailKeeps DEF PullWrapper!Play
<1>4. CASE PullWrapper!SourceVerified
  <2> DEFINE tree == IF PullWrapper!Pinned THEN checkout
                     ELSE [checkout EXCEPT !.head = tip, !.modified = FALSE]
             entry == [history[wrapper.run] EXCEPT !.played = tree]
  <2>1. tree \in Trees
    BY <1>1 DEF Trees
  <2>2. PullWrapper!Pinned => tree = checkout
    OBVIOUS
  <2>3. /\ checkout' = tree /\ history' = [history EXCEPT ![wrapper.run].played = tree]
        /\ wrapper' = [wrapper EXCEPT !.step = "play"]
    BY <1>4 DEF PullWrapper!Play, PullWrapper!GoTo
  <2> HIDE DEF tree
  <2>4. wrapper.run \in 1..Len(history) /\ history[wrapper.run] \in Runs
    BY <1>1, <1>2 DEF Running
  <2>5. history' = [history EXCEPT ![wrapper.run] = entry]
    BY <2>3
  <2>6. entry \in Runs /\ entry.role = history[wrapper.run].role
        /\ entry.boot = history[wrapper.run].boot /\ entry.played = tree
        /\ entry.ok = history[wrapper.run].ok
    BY <2>1, <2>4 DEF Runs
  <2> HIDE DEF entry
  <2>7. /\ history' \in Seq(Runs) /\ Len(history') = Len(history)
        /\ history'[wrapper.run] = entry
        /\ \A i \in 1..Len(history) : i # wrapper.run => history'[i] = history[i]
        /\ \A q, x, v : Beside(q, x)
              => x.run # wrapper.run /\ (PlayedAt(x.run, v) => PlayedAt(x.run, v)')
    BY <1>2, <2>5, <2>6, EntryKeeps
  <2>8. /\ wrapper'.step = "play" /\ WrapperTyped' /\ wrapper'.pin = wrapper.pin
        /\ wrapper'.run = wrapper.run /\ wrapper'.role = wrapper.role
        /\ wrapper'.touched = wrapper.touched
    BY <1>1, <2>3 DEF WrapperTyped, Steps
  <2>9. Unlogged'
    BY <2>8 DEF Unlogged
  <2>10. NodeTyped' /\ FilesTyped' /\ ReaderTyped'
    BY <1>1, <1>2, <2>1, <2>3 DEF NodeTyped, FilesTyped, ReaderTyped, PullInv, PullTyped, PullWrapper!QuietReader
  <2>11. Running'
    BY <1>1, <1>2, <2>6, <2>7, <2>8 DEF Running
  <2>12. Logged'
    <3>1. ASSUME NEW q \in Files0
          PROVE  LoggedState(q)'
      <4>1. LoggedState(q)
        BY DEF PullInv, Logged
      <4> QED BY <1>2, <2>7, <2>8, <2>9, <4>1 DEF LoggedState
    <3> QED BY <2>8, <3>1 DEF Logged
  <2>13. ASSUME NEW q, NEW x, Beside(q, x)
         PROVE  Beside(q, x)'
    BY <1>2, <2>7, <2>8, <2>9, <2>13 DEF Beside
  <2>14. Receipted'
    BY <1>2, <2>13 DEF PullInv, Receipted
  <2>15. Witnessed'
    <3>1. Receipted /\ Witnessed
      BY DEF PullInv
    <3> QED BY <1>2, <2>7, <3>1 DEF Receipted, Witnessed, Kinds
  <2>16. Started'
    <3>1. PullWrapper!Pinned => tree.head = wrapper.pin.rev /\ ~tree.modified
      BY <1>4, <2>2 DEF PullWrapper!SourceVerified
    <3> QED BY <2>6, <2>7, <2>8, <3>1 DEF Started, PlayedAt, PullWrapper!Pinned
  <2>17. Exact'
    <3>1. PullWrapper!Pinned /\ ~wrapper.touched =>
            tree = [head |-> wrapper.pin.rev, modified |-> FALSE, untracked |-> FALSE,
                    galaxy |-> wrapper.pin.rev]
      BY <1>1, <1>2, <2>2 DEF PullInv, Exact, PullWrapper!TreeClean, Trees
    <3> QED BY <2>6, <2>7, <2>8, <3>1 DEF Exact, PullWrapper!Pinned
  <2> QED BY <2>7, <2>8, <2>10, <2>11, <2>12, <2>14, <2>15, <2>16, <2>17 DEF PullInv, PullTyped
<1> QED BY <1>3, <1>4

(* The run's state replaces an older one: every receipt is of an earlier   *)
(* run and older.                                                          *)
LEMMA LogStateKeeps ==
  ASSUME PullInv, PullWrapper!LogState
  PROVE  PullInv'
<1> USE DEF PullWrapper!Env
<1> DEFINE s == [ok |-> wrapper.ok, at |-> node.clock, run |-> wrapper.run]
           entry == [history[wrapper.run] EXCEPT !.ok = wrapper.ok]
<1>1. /\ WrapperTyped /\ NodeTyped /\ FilesTyped /\ history \in Seq(Runs) /\ Running
      /\ Receipted /\ Witnessed /\ Started /\ node.clock \in Nat
  BY DEF PullInv, PullTyped, NodeTyped
<1>2. /\ wrapper.step = "log" /\ Unlogged
      /\ UNCHANGED <<node, reader, declared, tip, checkout>>
      /\ files' = [files EXCEPT !["last"].state = s, ![wrapper.role].state = s]
      /\ history' = [history EXCEPT ![wrapper.run] = entry]
      /\ wrapper' = [wrapper EXCEPT !.step = "post"]
  BY DEF PullWrapper!LogState, Unlogged, PullWrapper!GoTo
<1>3. /\ wrapper.run = Len(history) /\ wrapper.run \in 1..Len(history)
      /\ history[wrapper.run] \in Runs
      /\ wrapper.role \in Roles /\ wrapper.role # "last" /\ wrapper.ok \in BOOLEAN
      /\ history[wrapper.run].role = wrapper.role /\ history[wrapper.run].boot = node.boot
  BY <1>1, <1>2, Apart DEF Running, WrapperTyped
<1>4. s \in States /\ s.ok = wrapper.ok /\ s.at = node.clock /\ s.run = wrapper.run
  BY <1>1, <1>3 DEF States
<1> HIDE DEF s
<1>5. entry \in Runs /\ entry.role = history[wrapper.run].role
      /\ entry.boot = history[wrapper.run].boot /\ entry.ok = wrapper.ok
      /\ entry.played = history[wrapper.run].played
  BY <1>3 DEF Runs
<1> HIDE DEF entry
<1>6. /\ history' \in Seq(Runs) /\ Len(history') = Len(history)
      /\ history'[wrapper.run] = entry
      /\ \A i \in 1..Len(history) : i # wrapper.run => history'[i] = history[i]
      /\ \A q, x, v : Beside(q, x)
              => x.run # wrapper.run /\ (PlayedAt(x.run, v) => PlayedAt(x.run, v)')
  BY <1>2, <1>5, EntryKeeps
<1>7. /\ wrapper'.step = "post" /\ WrapperTyped' /\ wrapper'.pin = wrapper.pin
      /\ wrapper'.run = wrapper.run /\ wrapper'.role = wrapper.role /\ wrapper'.ok = wrapper.ok
  BY <1>1, <1>2 DEF WrapperTyped, Steps
<1>8. ~Unlogged'
  BY <1>7 DEF Unlogged
<1>9. /\ FilesTyped'
      /\ \A q \in Files0 : /\ files'[q].receipt = files[q].receipt
                           /\ files'[q].execution = files[q].execution
                           /\ files'[q].state = IF q \in {"last", wrapper.role} THEN s
                                                ELSE files[q].state
  <2>1. "last" \in Files0 /\ wrapper.role \in Files0
    BY <1>3 DEF Files0
  <2>2. FilesTyped'
    BY <1>1, <1>2, <1>4, <2>1 DEF FilesTyped
  <2>3. ASSUME NEW q \in Files0
        PROVE  /\ files'[q].receipt = files[q].receipt
               /\ files'[q].execution = files[q].execution
               /\ files'[q].state = IF q \in {"last", wrapper.role} THEN s ELSE files[q].state
    BY <1>1, <1>2, <1>3, <2>1, <2>3 DEF FilesTyped
  <2> QED BY <2>2, <2>3
<1>10. NodeTyped' /\ ReaderTyped'
  BY <1>1, <1>2 DEF NodeTyped, ReaderTyped, PullInv, PullTyped, PullWrapper!QuietReader
<1>11. Running'
  BY <1>2, <1>3, <1>5, <1>6, <1>7 DEF Running
<1>12. Logged'
  <2>1. ASSUME NEW q \in Files0
        PROVE  LoggedState(q)'
    <3>1. CASE q \in {"last", wrapper.role}
      <4>1. files'[q].state = s
        BY <1>9, <3>1
      <4>2. q \in Roles => q = wrapper.role
        BY <3>1, Apart
      <4> QED BY <1>1, <1>2, <1>3, <1>4, <1>5, <1>6, <1>8, <4>1, <4>2 DEF LoggedState
    <3>2. CASE q \notin {"last", wrapper.role}
      <4>1. LoggedState(q) /\ files'[q].state = files[q].state
        BY <1>9, <3>2 DEF PullInv, Logged
      <4> QED BY <1>2, <1>6, <1>8, <4>1 DEF LoggedState
    <3> QED BY <3>1, <3>2
  <2>2. wrapper.role \in Files0 /\ files'[wrapper.role].state = s
    BY <1>3, <1>9 DEF Files0
  <2> QED BY <1>4, <1>7, <2>1, <2>2 DEF Logged
<1>13. ASSUME NEW q \in Roles, NEW x, Beside(q, x)
       PROVE  Beside(q, x)'
  <2>1. q \in Files0 /\ x \in Receipts /\ x.run # wrapper.run /\ x.at < node.clock
    BY <1>2, <1>6, <1>13 DEF Beside, Files0
  <2>2. x.run \in Nat /\ x.run < wrapper.run
    BY <1>1, <1>2, <1>13, <2>1 DEF Beside, Running, Receipts
  <2>3. /\ x \in Receipts /\ x.run \in 1..Len(history') /\ x.at <= node'.clock
        /\ x.at < node'.clock /\ ~Unlogged'
    BY <1>2, <1>6, <1>8, <1>13, <2>1 DEF Beside
  <2>4. CASE files'[q].state = s
    <3>1. s \in States /\ x.run <= s.run /\ x.at < s.at
      BY <1>1, <1>3, <1>4, <2>1, <2>2
    <3> QED BY <1>2, <2>3, <2>4, <3>1 DEF Beside
  <2>5. CASE files'[q].state = files[q].state
    BY <1>13, <2>3, <2>5 DEF Beside
  <2> QED BY <1>9, <2>1, <2>4, <2>5
<1>14. \A q \in Roles : q \in Files0
  BY DEF Files0
<1>15. reader.kind \in Kinds => reader.role \in Roles
  BY Apart DEF PullInv, PullTyped, ReaderTyped, PullWrapper!QuietReader
<1>16. Receipted'
  BY <1>1, <1>2, <1>9, <1>13, <1>14, <1>15 DEF Receipted
<1>17. Witnessed'
  BY <1>1, <1>2, <1>6, <1>9, <1>14 DEF Receipted, Witnessed, Kinds
<1>18. Started' /\ Exact'
  BY <1>1, <1>2, <1>5, <1>6, <1>7 DEF Started, Exact, PlayedAt, PullWrapper!Pinned
<1> QED BY <1>6, <1>7, <1>9, <1>10, <1>11, <1>12, <1>16, <1>17, <1>18 DEF PullInv, PullTyped

(* What a run writes after its state is of the run that wrote the state.   *)
LEMMA ReceiptBeside ==
  ASSUME PullInv, wrapper.step \in {"post", "execution"}
  PROVE  /\ Beside(wrapper.role, PullWrapper!Receipt)
         /\ PullWrapper!Receipt.run = wrapper.run /\ PullWrapper!Receipt.pin = wrapper.pin
<1> DEFINE x == PullWrapper!Receipt
<1>1. /\ WrapperTyped /\ NodeTyped /\ FilesTyped /\ Running /\ Logged
      /\ node.clock \in Nat /\ node.boot \in Nat
  BY DEF PullInv, PullTyped, NodeTyped
<1>2. x \in Receipts /\ x.run = wrapper.run /\ x.at = node.clock /\ x.pin = wrapper.pin
  BY <1>1 DEF PullWrapper!Receipt, Receipts, NodeTyped, WrapperTyped, Trees
<1> HIDE DEF x
<1>3. ~Unlogged
  BY DEF Unlogged
<1>4. /\ wrapper.run \in 1..Len(history)
      /\ files[wrapper.role].state \in States /\ files[wrapper.role].state.run = wrapper.run
  BY <1>1 DEF Running, Logged
<1>5. Beside(wrapper.role, x)
  BY <1>1, <1>2, <1>3, <1>4 DEF Beside
<1> QED BY <1>2, <1>5 DEF x

(* A receipt put beside the state of its role, in a file or as a reader's, *)
(* and a run that ends, by its last line or by a kill.                     *)
LEMMA BesideKeeps ==
  ASSUME PullInv, UNCHANGED <<node, history, checkout>>,
         /\ \A q \in Files0 : files'[q].state = files[q].state,
         \/ wrapper' = PullWrapper!Idle
         \/ wrapper' = wrapper
         \/ wrapper.step = "post" /\ wrapper' = [wrapper EXCEPT !.step = "execution"]
  PROVE  /\ WrapperTyped' /\ Running' /\ Logged' /\ Started' /\ Exact'
         /\ \A q \in Files0 : \A x : Beside(q, x) => Beside(q, x)'
         /\ \A n, v : PlayedAt(n, v) => PlayedAt(n, v)'
<1>1. WrapperTyped /\ Running /\ Logged /\ Started /\ Exact /\ \A q \in Roles : q \in Files0
  BY DEF PullInv, PullTyped, Files0
<1>2. PullWrapper!Idle.step = "idle"
  BY DEF PullWrapper!Idle
<1>3. /\ WrapperTyped' /\ (Unlogged' => Unlogged)
      /\ wrapper'.step # "idle" =>
            /\ wrapper.step # "idle" /\ wrapper'.run = wrapper.run /\ wrapper'.role = wrapper.role
            /\ wrapper'.pin = wrapper.pin /\ wrapper'.touched = wrapper.touched
            /\ wrapper'.ok = wrapper.ok
            /\ wrapper'.step = wrapper.step \/ (wrapper.step = "post" /\ wrapper'.step = "execution")
  <2>1. CASE wrapper' = PullWrapper!Idle
    BY <1>2, <2>1, IdleTyped DEF WrapperTyped, Unlogged
  <2>2. CASE wrapper' = wrapper
    BY <1>1, <2>2 DEF WrapperTyped, Unlogged
  <2>3. CASE wrapper.step = "post" /\ wrapper' = [wrapper EXCEPT !.step = "execution"]
    BY <1>1, <2>3 DEF WrapperTyped, Unlogged, Steps
  <2> QED BY <2>1, <2>2, <2>3
<1>4. wrapper'.step \in {"post", "execution"} => wrapper.step \in {"post", "execution"}
  BY <1>3
<1>5. Running'
  BY <1>1, <1>3 DEF Running
<1>6. Logged'
  <2>1. ASSUME NEW q \in Files0
        PROVE  LoggedState(q)'
    <3>1. Unlogged' => Unlogged /\ wrapper'.run = wrapper.run
      BY <1>3 DEF Unlogged
    <3> QED BY <1>1, <3>1 DEF Logged, LoggedState
  <2>2. wrapper'.step \in {"post", "execution"} => wrapper.role \in Files0 /\ wrapper'.role = wrapper.role /\ wrapper'.run = wrapper.run
    BY <1>1, <1>3, <1>4 DEF Running
  <2> QED BY <1>1, <1>4, <2>1, <2>2 DEF Logged
<1>7. ASSUME NEW q \in Files0, NEW x, Beside(q, x)
      PROVE  Beside(q, x)'
  <2>1. Unlogged' => Unlogged /\ wrapper'.run = wrapper.run
    BY <1>3 DEF Unlogged
  <2> QED BY <1>3, <1>7, <2>1 DEF Beside
<1>8. \A n, v : PlayedAt(n, v) => PlayedAt(n, v)'
  BY DEF PlayedAt
<1>9. Started'
  BY <1>1, <1>3, <1>8 DEF Started, PullWrapper!Pinned
<1>10. Exact'
  <2>1. CASE wrapper' = wrapper
    BY <1>1, <2>1 DEF Exact, PullWrapper!Pinned, PullWrapper!TreeClean
  <2>2. CASE wrapper' # wrapper
    <3>1. wrapper'.step \notin {"galaxy", "verify", "play"}
      BY <1>1, <1>2, <2>2 DEF WrapperTyped
    <3> QED BY <3>1 DEF Exact
  <2> QED BY <2>1, <2>2
<1> QED BY <1>3, <1>5, <1>6, <1>7, <1>8, <1>9, <1>10

(* record_post_pull_identity and record_pinned_execution_identity.         *)
LEMMA ReceiptsKeep ==
  ASSUME PullInv, PullWrapper!RecordPostPull \/ PullWrapper!RecordExecution
  PROVE  PullInv'
<1> USE DEF PullWrapper!Env
<1>1. /\ NodeTyped /\ WrapperTyped /\ FilesTyped /\ ReaderTyped /\ Running /\ Receipted /\ Witnessed
      /\ Started /\ history \in Seq(Runs)
  BY DEF PullInv, PullTyped
<1>2. /\ wrapper.step \in {"post", "execution"}
      /\ UNCHANGED <<node, history, reader, declared, tip, checkout>>
  BY DEF PullWrapper!RecordPostPull, PullWrapper!RecordExecution
<1>3. wrapper.role \in Roles /\ \A q \in Roles : q \in Files0
  BY <1>1, <1>2 DEF Running, Files0
<1>4. reader.kind \in Kinds => reader.role \in Roles
  BY <1>1, Apart DEF ReaderTyped, PullWrapper!QuietReader
<1>5. NodeTyped' /\ ReaderTyped' /\ (history \in Seq(Runs))'
  BY <1>1, <1>2 DEF NodeTyped, ReaderTyped, PullWrapper!QuietReader
<1> DEFINE x == PullWrapper!Receipt
<1>6. Beside(wrapper.role, x) /\ x.run = wrapper.run /\ x.pin = wrapper.pin /\ x \in Receipts
  BY <1>2, ReceiptBeside DEF Beside
<1>7. ASSUME NEW w \in {None, x}, PullWrapper!RecordPostPull,
             files' = [files EXCEPT ![wrapper.role].receipt = w]
      PROVE  PullInv'
  <2> HIDE DEF x
  <2>1. /\ FilesTyped'
        /\ \A q \in Files0 : /\ files'[q].state = files[q].state
                             /\ files'[q].execution = files[q].execution
                             /\ q # wrapper.role => files'[q].receipt = files[q].receipt
        /\ files'[wrapper.role].receipt = w
    BY <1>1, <1>3, <1>6, <1>7 DEF FilesTyped
  <2>2. wrapper.step = "post" /\ wrapper' = [wrapper EXCEPT !.step = "execution"]
    BY <1>7 DEF PullWrapper!RecordPostPull, PullWrapper!GoTo
  <2>3. /\ WrapperTyped' /\ Running' /\ Logged' /\ Started' /\ Exact'
        /\ \A q \in Files0 : \A y : Beside(q, y) => Beside(q, y)'
        /\ \A n, v : PlayedAt(n, v) => PlayedAt(n, v)'
    BY <1>2, <2>1, <2>2, BesideKeeps
  <2>4. Receipted'
    <3>1. ASSUME NEW q \in Roles
          PROVE  /\ (files[q].receipt # None => Beside(q, files[q].receipt))'
                 /\ (files[q].execution # None => Beside(q, files[q].execution))'
      BY <1>1, <1>3, <1>6, <1>7, <2>1, <2>3 DEF Receipted
    <3> QED BY <1>1, <1>2, <1>3, <1>4, <2>3, <3>1 DEF Receipted
  <2>5. Witnessed'
    BY <1>1, <1>2, <1>3, <2>1, <2>3 DEF Witnessed
  <2> QED BY <1>5, <2>1, <2>3, <2>4, <2>5 DEF PullInv, PullTyped
<1>8. ASSUME NEW w \in {None, x}, PullWrapper!RecordExecution, w # None => PullWrapper!StillPinned,
             files' = [files EXCEPT ![wrapper.role].execution = w]
      PROVE  PullInv'
  <2> HIDE DEF x
  <2>1. /\ FilesTyped'
        /\ \A q \in Files0 : /\ files'[q].state = files[q].state
                             /\ files'[q].receipt = files[q].receipt
                             /\ q # wrapper.role => files'[q].execution = files[q].execution
        /\ files'[wrapper.role].execution = w
    BY <1>1, <1>3, <1>6, <1>8 DEF FilesTyped
  <2>2. wrapper.step = "execution" /\ wrapper' = PullWrapper!Idle
    BY <1>8 DEF PullWrapper!RecordExecution
  <2>3. /\ WrapperTyped' /\ Running' /\ Logged' /\ Started' /\ Exact'
        /\ \A q \in Files0 : \A y : Beside(q, y) => Beside(q, y)'
        /\ \A n, v : PlayedAt(n, v) => PlayedAt(n, v)'
    BY <1>2, <2>1, <2>2, BesideKeeps
  <2>4. Receipted'
    <3>1. ASSUME NEW q \in Roles
          PROVE  /\ (files[q].receipt # None => Beside(q, files[q].receipt))'
                 /\ (files[q].execution # None => Beside(q, files[q].execution))'
      BY <1>1, <1>3, <1>6, <1>8, <2>1, <2>3 DEF Receipted
    <3> QED BY <1>1, <1>2, <1>3, <1>4, <2>3, <3>1 DEF Receipted
  <2>5. w # None => PlayedAt(w.run, w.pin.rev)
    BY <1>1, <1>6, <1>8, <2>2 DEF Started, PullWrapper!StillPinned
  <2>6. Witnessed'
    <3>1. ASSUME NEW q \in Roles, files'[q].execution # None
          PROVE  PlayedAt(files[q].execution.run, files[q].execution.pin.rev)'
      <4>1. CASE q = wrapper.role
        BY <2>1, <2>3, <2>5, <3>1, <4>1
      <4>2. CASE q # wrapper.role
        BY <1>1, <1>3, <2>1, <2>3, <3>1, <4>2 DEF Witnessed
      <4> QED BY <4>1, <4>2
    <3> QED BY <1>1, <1>2, <2>3, <3>1 DEF Witnessed
  <2> QED BY <1>5, <2>1, <2>3, <2>4, <2>6 DEF PullInv, PullTyped
<1>9. CASE PullWrapper!RecordPostPull
  BY <1>7, <1>9 DEF PullWrapper!RecordPostPull
<1>10. CASE PullWrapper!RecordExecution
  BY <1>8, <1>10 DEF PullWrapper!RecordExecution
<1> QED BY <1>9, <1>10

(* A killed run leaves everything as it was.                               *)
LEMMA KillKeeps ==
  ASSUME PullInv, PullWrapper!Kill
  PROVE  PullInv'
<1>1. /\ NodeTyped /\ FilesTyped /\ ReaderTyped /\ Receipted /\ Witnessed /\ history \in Seq(Runs)
  BY DEF PullInv, PullTyped
<1>2. UNCHANGED <<node, history, reader, declared, tip, checkout, files>> /\ wrapper' = PullWrapper!Idle
  BY DEF PullWrapper!Kill
<1>3. /\ WrapperTyped' /\ Running' /\ Logged' /\ Started' /\ Exact'
      /\ \A q \in Files0 : \A y : Beside(q, y) => Beside(q, y)'
      /\ \A n, v : PlayedAt(n, v) => PlayedAt(n, v)'
  BY <1>2, BesideKeeps
<1>4. NodeTyped' /\ FilesTyped' /\ ReaderTyped' /\ (history \in Seq(Runs))'
  BY <1>1, <1>2 DEF NodeTyped, FilesTyped, ReaderTyped, PullWrapper!QuietReader
<1>5. /\ \A q \in Roles : q \in Files0
      /\ reader.kind \in Kinds => reader.role \in Roles
  BY <1>1, Apart DEF ReaderTyped, PullWrapper!QuietReader, Files0
<1>6. Receipted'
  BY <1>1, <1>2, <1>3, <1>5 DEF Receipted
<1>7. Witnessed'
  BY <1>1, <1>2, <1>3 DEF Witnessed
<1> QED BY <1>3, <1>4, <1>6, <1>7 DEF PullInv, PullTyped

-----------------------------------------------------------------------------
(* The invariant: the readers and the world around.                        *)

(* A reader holds what it found on the disk.                               *)
LEMMA ReadersKeep ==
  ASSUME PullInv, PullWrapper!Readers
  PROVE  PullInv'
<1> USE DEF PullWrapper!Others
<1>1. /\ NodeTyped /\ WrapperTyped /\ FilesTyped /\ Receipted /\ Witnessed /\ history \in Seq(Runs)
      /\ node.clock \in Nat /\ \A q \in Roles : q \in Files0
  BY DEF PullInv, PullTyped, NodeTyped, Files0
<1>2. UNCHANGED <<node, history, wrapper, declared, tip, checkout, files>>
  BY DEF PullWrapper!Readers, PullWrapper!ReadReceipt, PullWrapper!ReadState
<1>3. /\ WrapperTyped' /\ Running' /\ Logged' /\ Started' /\ Exact'
      /\ \A q \in Files0 : \A y : Beside(q, y) => Beside(q, y)'
      /\ \A n, v : PlayedAt(n, v) => PlayedAt(n, v)'
  BY <1>2, BesideKeeps
<1>4. NodeTyped' /\ FilesTyped' /\ (history \in Seq(Runs))'
  BY <1>1, <1>2 DEF NodeTyped, FilesTyped
<1>5. CASE PullWrapper!ReadState
  <2>1. reader' = PullWrapper!QuietReader /\ reader'.kind \notin Kinds
    BY <1>5, Apart DEF PullWrapper!ReadState, PullWrapper!QuietReader
  <2>2. Receipted'
    BY <1>1, <1>2, <1>3, <2>1 DEF Receipted
  <2>3. Witnessed'
    BY <1>1, <1>2, <1>3, <2>1 DEF Witnessed, Kinds
  <2> QED BY <1>3, <1>4, <2>1, <2>2, <2>3 DEF PullInv, PullTyped, ReaderTyped
<1>6. ASSUME NEW k \in Kinds, NEW r \in Roles, PullWrapper!ReadReceipt(k, r)
      PROVE  PullInv'
  <2> DEFINE x == IF k = "pinned" THEN files[r].execution ELSE files[r].receipt
  <2>1. x # None /\ reader' = [kind |-> k, role |-> r, now |-> node.clock, receipt |-> x]
    BY <1>6 DEF PullWrapper!ReadReceipt
  <2>2. /\ x \in {None} \cup Receipts /\ Beside(r, x)
        /\ k = "pinned" => PlayedAt(x.run, x.pin.rev)
    BY <1>1, <2>1 DEF FilesTyped, Receipted, Witnessed
  <2> HIDE DEF x
  <2>3. /\ ReaderTyped' /\ reader'.role = r /\ reader'.receipt = x /\ reader'.kind = k
    BY <1>1, <2>1, <2>2 DEF ReaderTyped
  <2>4. Receipted'
    BY <1>1, <1>2, <1>3, <2>2, <2>3 DEF Receipted
  <2>5. Witnessed'
    BY <1>1, <1>2, <1>3, <2>2, <2>3 DEF Witnessed
  <2> QED BY <1>3, <1>4, <2>3, <2>4, <2>5 DEF PullInv, PullTyped
<1> QED BY <1>5, <1>6 DEF PullWrapper!Readers, Kinds

(* Somebody edits the checkout, the declaration, the branch or the token.  *)
LEMMA EditsKeep ==
  ASSUME PullInv, PullWrapper!EditCheckout \/ PullWrapper!EditInputs
  PROVE  PullInv'
<1>1. NodeTyped /\ WrapperTyped /\ checkout \in Trees /\ Started /\ Exact
  BY DEF PullInv, PullTyped, NodeTyped
<1>2. UNCHANGED <<node, files, history, reader>>
  BY DEF PullWrapper!EditCheckout, PullWrapper!EditInputs
<1>3. CASE PullWrapper!EditCheckout
  <2>1. wrapper' = [wrapper EXCEPT !.touched = wrapper.step # "idle"] /\ UNCHANGED <<declared, tip>>
    BY <1>3 DEF PullWrapper!EditCheckout, PullWrapper!Touch
  <2>2. /\ WrapperTyped' /\ wrapper'.step = wrapper.step /\ wrapper'.run = wrapper.run
        /\ wrapper'.role = wrapper.role /\ wrapper'.pin = wrapper.pin
        /\ wrapper'.ok = wrapper.ok
        /\ ~wrapper'.touched => wrapper'.step = "idle"
    BY <1>1, <2>1 DEF WrapperTyped
  <2>3. checkout' \in Trees
    <3>1. ASSUME NEW f \in {"modified", "untracked"}, checkout' = [checkout EXCEPT ![f] = ~@]
          PROVE  checkout' \in Trees
      <4>1. CASE f = "modified"
        BY <1>1, <3>1, <4>1 DEF Trees
      <4>2. CASE f = "untracked"
        BY <1>1, <3>1, <4>2 DEF Trees
      <4> QED BY <4>1, <4>2
    <3>2. ASSUME NEW r \in Revisions, checkout' = [checkout EXCEPT !.head = r]
          PROVE  checkout' \in Trees
      BY <1>1, <3>2 DEF Trees
    <3>3. [checkout EXCEPT !.galaxy = None] \in Trees
      BY <1>1 DEF Trees
    <3> QED BY <1>3, <3>1, <3>2, <3>3 DEF PullWrapper!EditCheckout
  <2>4. NodeTyped'
    BY <1>1, <1>2, <2>1, <2>3 DEF NodeTyped
  <2>5. Aside
    BY <1>2, <2>2 DEF Aside
  <2>6. Started'
    BY <1>1, <1>2, <2>2 DEF Started, PlayedAt, PullWrapper!Pinned
  <2>7. Exact'
    BY <2>2 DEF Exact
  <2> QED BY <2>2, <2>4, <2>5, <2>6, <2>7, AsideEnough
<1>4. CASE PullWrapper!EditInputs
  <2>1. UNCHANGED <<checkout, wrapper>> /\ declared' \in PullWrapper!Declarations /\ tip' \in Revisions
    BY <1>1, <1>4 DEF PullWrapper!EditInputs, NodeTyped
  <2>2. NodeTyped' /\ WrapperTyped'
    BY <1>1, <1>2, <2>1 DEF NodeTyped, WrapperTyped
  <2>3. Aside
    BY <1>2, <2>1 DEF Aside
  <2>4. Started' /\ Exact'
    BY <1>1, <1>2, <2>1 DEF Started, Exact, PlayedAt, PullWrapper!Pinned, PullWrapper!TreeClean
  <2> QED BY <2>2, <2>3, <2>4, AsideEnough
<1> QED BY <1>3, <1>4

(* A boot empties /run.                                                    *)
LEMMA RebootKeeps ==
  ASSUME PullInv, PullWrapper!Reboot
  PROVE  PullInv'
<1>1. /\ NodeTyped /\ WrapperTyped /\ checkout \in Trees /\ history \in Seq(Runs)
      /\ node.clock \in Nat
  BY DEF PullInv, PullTyped, NodeTyped
<1>2. /\ UNCHANGED <<tip, wrapper, history>> /\ wrapper.step = "idle"
      /\ reader' = PullWrapper!QuietReader
      /\ files' = [r \in Files0 |-> PullWrapper!NoFiles]
      /\ declared' \in PullWrapper!Declarations
      /\ checkout' \in {checkout, PullWrapper!NoCheckout}
  BY DEF PullWrapper!Reboot, Files0
<1>3. checkout' \in Trees
  <2>1. PullWrapper!NoCheckout \in Trees
    BY DEF PullWrapper!NoCheckout, Trees
  <2> QED BY <1>1, <1>2, <2>1
<1>4. PICK m \in {"legacy", "pinned"} :
        node' = [node EXCEPT !.boot = @ + 1, !.since = node.clock, !.mode = m]
  BY DEF PullWrapper!Reboot
<1>5. NodeTyped'
  <2>1. node' \in [boot : Nat, since : Nat, clock : Nat, mode : {"legacy", "pinned"},
                    stage : {"stg", "prod"}]
    <3> DEFINE NodeRecords == [boot : Nat, since : Nat, clock : Nat,
                               mode : {"legacy", "pinned"}, stage : {"stg", "prod"}]
    <3>1. node \in NodeRecords /\ node.boot \in Nat
      BY <1>1 DEF NodeTyped
    <3>2. ASSUME NEW t \in Nat, NEW b \in Nat
          PROVE  [node EXCEPT !.boot = b, !.since = t, !.mode = m] \in NodeRecords
      BY <3>1, <1>4
    <3>3. node.boot + 1 \in Nat
      BY <3>1
    <3> HIDE DEF NodeRecords
    <3>4. node' \in NodeRecords
      BY <1>1, <1>4, <3>2, <3>3
    <3> QED BY <3>4 DEF NodeRecords
  <2>2. tip' \in Revisions
    BY <1>1, <1>2 DEF NodeTyped
  <2> QED BY <1>2, <1>3, <2>1, <2>2 DEF NodeTyped
<1>6. \A r \in Files0 : files'[r].state = None /\ files'[r].receipt = None /\ files'[r].execution = None
  BY <1>2 DEF PullWrapper!NoFiles
<1>7. wrapper'.step = "idle" /\ reader'.kind = None
  BY <1>2 DEF PullWrapper!QuietReader
<1>8. FilesTyped'
  BY <1>2 DEF FilesTyped, PullWrapper!NoFiles
<1>9. PullTyped'
  BY <1>1, <1>2, <1>5, <1>8 DEF PullTyped, WrapperTyped, ReaderTyped
<1>10. Running' /\ Logged'
  BY <1>6, <1>7 DEF Running, Logged, LoggedState
<1>11. \A r \in Roles : r \in Files0
  BY DEF Files0
<1>12. Receipted' /\ Witnessed'
  BY <1>6, <1>7, <1>11, Apart DEF Receipted, Witnessed, Kinds
<1>13. Started' /\ Exact'
  BY <1>7 DEF Started, Exact
<1> QED BY <1>9, <1>10, <1>12, <1>13 DEF PullInv

(* Time passes.                                                            *)
LEMMA TickKeeps ==
  ASSUME PullInv, PullWrapper!Tick
  PROVE  PullInv'
<1>1. /\ NodeTyped /\ WrapperTyped /\ FilesTyped /\ ReaderTyped /\ Running /\ Logged /\ Receipted
      /\ Witnessed /\ Started /\ Exact /\ history \in Seq(Runs) /\ node.clock \in Nat
  BY DEF PullInv, PullTyped, NodeTyped
<1>2. /\ UNCHANGED <<declared, tip, checkout, wrapper, files, history, reader>>
      /\ node' = [node EXCEPT !.clock = @ + 1]
  BY DEF PullWrapper!Tick
<1>3. NodeTyped' /\ node'.clock = node.clock + 1 /\ node'.boot = node.boot
  BY <1>1, <1>2 DEF NodeTyped
<1>4. /\ WrapperTyped' /\ FilesTyped' /\ ReaderTyped' /\ (history \in Seq(Runs))'
  BY <1>1, <1>2 DEF WrapperTyped, FilesTyped, ReaderTyped, PullWrapper!QuietReader
<1>5. Unlogged' <=> Unlogged
  BY <1>2 DEF Unlogged
<1>6. Running'
  BY <1>1, <1>2, <1>3 DEF Running
<1>7. Logged'
  <2>1. ASSUME NEW q \in Files0
        PROVE  LoggedState(q)'
    <3>1. files[q].state # None => files[q].state.at \in Nat
      BY <1>1 DEF FilesTyped, States
    <3> QED BY <1>1, <1>2, <1>3, <1>5, <3>1 DEF Logged, LoggedState
  <2> QED BY <1>1, <1>2, <2>1 DEF Logged
<1>8. ASSUME NEW q, NEW x, Beside(q, x)
      PROVE  Beside(q, x)'
  <2>1. x.at \in Nat
    BY <1>8 DEF Beside, Receipts
  <2> QED BY <1>1, <1>2, <1>3, <1>5, <1>8, <2>1 DEF Beside
<1>9. Receipted'
  BY <1>1, <1>2, <1>8 DEF Receipted
<1>10. Witnessed' /\ Started' /\ Exact'
  BY <1>1, <1>2 DEF Witnessed, Started, Exact, PlayedAt, PullWrapper!Pinned, PullWrapper!TreeClean
<1> QED BY <1>3, <1>4, <1>6, <1>7, <1>9, <1>10 DEF PullInv, PullTyped

-----------------------------------------------------------------------------
(* The theorems.                                                           *)

(* Every step of the wrapper, its readers and the world keeps it.          *)
LEMMA PullNext ==
  ASSUME PullInv, [PullWrapper!Next]_pullVars
  PROVE  PullInv'
<1>1. CASE UNCHANGED pullVars
  <2>1. Aside
    BY <1>1 DEF pullVars, Aside
  <2>2. NodeTyped' /\ WrapperTyped' /\ Started' /\ Exact'
    BY <1>1 DEF pullVars, PullInv, PullTyped, NodeTyped, WrapperTyped, Started, Exact, PlayedAt,
                PullWrapper!Pinned, PullWrapper!TreeClean
  <2> QED BY <2>1, <2>2, AsideEnough
<1>2. CASE PullWrapper!Next
  <2>1. CASE \E r \in Roles : PullWrapper!Start(r)
    BY <2>1, StartKeeps
  <2>2. CASE PullWrapper!Wrapper
    BY <2>2, EarlyStepsKeep, GalaxyKeeps, PlayKeeps, PlayEndsKeeps, LogStateKeeps, ReceiptsKeep
       DEF PullWrapper!Wrapper
  <2>3. CASE PullWrapper!Readers
    BY <2>3, ReadersKeep
  <2>4. CASE PullWrapper!World
    BY <2>4, EditsKeep, RebootKeeps, KillKeeps DEF PullWrapper!World
  <2>5. CASE PullWrapper!Tick
    BY <2>5, TickKeeps
  <2> QED BY <1>2, <2>1, <2>2, <2>3, <2>4, <2>5 DEF PullWrapper!Next
<1> QED BY <1>1, <1>2

(* The invariant says what the readers may conclude.                       *)
LEMMA PullReports ==
  ASSUME PullInv
  PROVE  ReportsTrue
<1>1. /\ FilesTyped /\ ReaderTyped /\ Logged /\ Receipted /\ Witnessed
      /\ \A q \in Roles : q \in Files0 /\ "last" \in Files0
  BY DEF PullInv, PullTyped, Files0
<1> DEFINE s == files[reader.role].state
           x == reader.receipt
<1>2. ASSUME PullWrapper!Observed
      PROVE  /\ s.run = x.run
             /\ history[x.run].ok /\ history[x.run].boot = node.boot
             /\ history[x.run].role = reader.role
             /\ reader.kind = "pinned" => PlayedAt(x.run, x.pin.rev)
  <2>1. /\ reader.kind \in Kinds /\ s # None /\ s.ok /\ s.at <= x.at
    BY <1>2 DEF PullWrapper!Observed, PullWrapper!PinnedRole, PullWrapper!PostPullRole,
                PullWrapper!TimesAgree, Kinds
  <2>2. reader.role \in Roles
    BY <1>1, <2>1, Apart DEF ReaderTyped, PullWrapper!QuietReader
  <2>3. Beside(reader.role, x) /\ LoggedState(reader.role)
    BY <1>1, <2>1, <2>2 DEF Receipted, Logged
  <2>4. x.run = s.run
    BY <2>1, <2>3 DEF Beside, Receipts, States
  <2>5. /\ history[s.run].boot = node.boot /\ history[s.run].ok = s.ok
        /\ history[s.run].role = reader.role
    BY <2>1, <2>2, <2>3 DEF LoggedState
  <2> QED BY <1>1, <2>1, <2>4, <2>5 DEF Witnessed
<1>3. ASSUME PullWrapper!Lineage.status = "partial", PullWrapper!Lineage.pull = "completed"
      PROVE  /\ history[files["last"].state.run].ok
             /\ history[files["last"].state.run].boot = node.boot
  <2>1. files["last"].state # None /\ files["last"].state.ok
    BY <1>3 DEF PullWrapper!Lineage, PullWrapper!LineageState
  <2>2. LoggedState("last")
    BY <1>1 DEF Logged, Files0
  <2> QED BY <2>1, <2>2 DEF LoggedState
<1>4. PullWrapper!DeclarationObserved =>
        /\ PullWrapper!Resolve \in {None, declared.pin}
        /\ node.mode = "pinned" /\ PullWrapper!Staging => PullWrapper!Resolve = declared.pin
  BY DEF PullWrapper!DeclarationObserved, PullWrapper!Resolve, PullWrapper!Decodes
<1> HIDE DEF s, x
<1> QED BY <1>2, <1>3, <1>4 DEF ReportsTrue, PullWrapper!ReportsTrue, PlayedAt, s, x

(* The invariant holds in every run of the composition.                    *)
LEMMA PullInvariant == ObserversSpec => []PullInv
<1>1. ObserversInit => PullInv
  BY PullInit DEF ObserversInit
<1>2. PullInv /\ [ObserversNext]_allVars => PullInv'
  BY PullNext DEF ObserversNext, allVars, pullVars
<1> QED BY <1>1, <1>2, PTL DEF ObserversSpec

(* What the post-pull, pinned-execution and lineage probes report of the   *)
(* files they met, of whichever runs, is so, and a declaration shown by    *)
(* its probe is contradicted by no run: see ReportsTrue.                   *)
THEOREM EvidenceIsTrue == ObserversSpec => []ReportsTrue
BY PullInvariant, PullReports, PTL

(* Whatever earlier runs, kills, markers and boots left behind, a pinned   *)
(* run that nobody disturbs plays exactly the pinned commit.               *)
THEOREM PinnedRunIsExact == ObserversSpec => []UndisturbedIsExact
<1>1. PullInv => UndisturbedIsExact
  BY DEF PullInv, Exact, UndisturbedIsExact, PullWrapper!UndisturbedIsExact
<1> QED BY <1>1, PullInvariant, PTL
================================================================================
