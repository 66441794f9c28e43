----------------------------- MODULE SqliteBackup -----------------------------
(***************************************************************************)
(* scripts/k3s_sqlite_backup.py: one encrypted archive of the k3s database *)
(* and the server token, published by a rename on an external mount.       *)
(* Mounts under the destination path are lost, restored and stacked; the   *)
(* server writes its database and may rotate its token between any two     *)
(* steps.                                                                  *)
(***************************************************************************)
EXTENDS Integers, Sequences, SequencesExt

CONSTANTS MaxWrites, MaxRotations, MaxFlips, MaxBackups   \* bounds

VARIABLES
    mounts,     \* mountinfo records at or above the destination, in order
    db, token,  \* version of state.db, value of server/token
    flips,      \* mount changes so far
    coexisted,  \* history: pairs of database and token in force together
    stored,     \* files at the destination: set of [fs, id, kind, ...]
    backup      \* the running invocation

vars == <<mounts, db, token, flips, coexisted, stored, backup>>

Idle(id) == [pc |-> "idle", id |-> id, token |-> 0, db |-> 0,
             fs |-> "expected", since |-> 0]
File(kind, b, fs) == [kind |-> kind, id |-> b.id, fs |-> fs, db |-> b.db, token |-> b.token,
                      changes |-> IF kind = "finished" THEN flips - b.since ELSE 0]

Init ==
    /\ mounts = <<[depth |-> 0, fs |-> "root"], [depth |-> 1, fs |-> "expected"]>>
    /\ db = 0 /\ token = 0 /\ flips = 0
    /\ coexisted = {<<0, 0>>} /\ stored = {} /\ backup = Idle(0)

-----------------------------------------------------------------------------
(* The server and the mount                                                *)

Server ==
    /\ \/ db < MaxWrites /\ db' = db + 1 /\ UNCHANGED token
       \/ token < MaxRotations /\ token' = token + 1 /\ UNCHANGED db
    /\ coexisted' = coexisted \cup {<<db', token'>>}
    /\ UNCHANGED <<mounts, flips, stored, backup>>

\* effective_mount: the deepest mount point, the last record when stacked.
Effective ==
    CHOOSE i \in DOMAIN mounts : \A j \in DOMAIN mounts :
        mounts[j].depth < mounts[i].depth \/ (mounts[j].depth = mounts[i].depth /\ j <= i)
mounted == mounts[Effective].fs

\* The mount is lost, or one more is stacked on it.
Mount ==
    /\ flips < MaxFlips /\ flips' = flips + 1
    /\ \/ mounted # "root" /\ mounts' = RemoveAt(mounts, Effective)
       \/ \E fs \in {"expected", "other"} : mounts' = Append(mounts, [depth |-> 1, fs |-> fs])
    /\ UNCHANGED <<db, token, coexisted, stored, backup>>

-----------------------------------------------------------------------------
(* backup()                                                                *)

At(pc) == backup.pc = pc /\ UNCHANGED <<mounts, db, token, flips, coexisted>>
Goto(pc) == backup' = [backup EXCEPT !.pc = pc]

\* validate_mounts: both paths lie on the mounts the caller named.
MountsValid == mounted = "expected"

\* The checks that come before anything is touched, and the first token.
Begin ==
    /\ At("idle") /\ backup.id < MaxBackups /\ MountsValid
    /\ backup' = [Idle(backup.id + 1) EXCEPT !.pc = "snapshot", !.token = token, !.since = flips]
    /\ UNCHANGED stored

\* The online backup ends with the database as it is then.
SnapshotSqlite ==
    /\ At("snapshot") /\ backup' = [backup EXCEPT !.pc = "token", !.db = db]
    /\ UNCHANGED stored

\* Mutant of TokenUnchanged: the token is not read again.
TokenAnyway == At("token") /\ Goto("mounts") /\ UNCHANGED stored
TokenUnchanged ==
    /\ At("token") /\ token = backup.token /\ Goto("mounts")
    /\ UNCHANGED stored

CheckMounts(from, to) == At(from) /\ MountsValid /\ Goto(to) /\ UNCHANGED stored

\* mkstemp at the destination path, wherever that is now.
CreatePartial ==
    /\ At("create")
    /\ backup' = [backup EXCEPT !.pc = "encrypt", !.fs = mounted]
    /\ stored' = stored \cup {File("partial", backup, mounted)}

Encrypt == At("encrypt") /\ Goto("recheck") /\ UNCHANGED stored

\* The rename finds the partial file only where it was created.
Publish ==
    /\ At("publish") /\ mounted = backup.fs
    /\ stored' = (stored \ {File("partial", backup, mounted)}) \cup {File("finished", backup, mounted)}
    /\ backup' = Idle(backup.id)

\* Any step may fail; the partial file is unlinked where the path points now.
Fails ==
    /\ backup.pc # "idle"
    /\ stored' = stored \ {File("partial", backup, mounted)}
    /\ backup' = Idle(backup.id)
    /\ UNCHANGED <<mounts, db, token, flips, coexisted>>

\* The process is killed: nothing is unlinked.
Killed ==
    /\ backup.pc # "idle" /\ backup' = Idle(backup.id)
    /\ UNCHANGED <<mounts, db, token, flips, coexisted, stored>>

Next == Server \/ Mount \/ Begin \/ SnapshotSqlite \/ TokenUnchanged
        \/ CheckMounts("mounts", "create") \/ CreatePartial \/ Encrypt
        \/ CheckMounts("recheck", "publish") \/ Publish \/ Fails \/ Killed

Spec == Init /\ [][Next]_vars

-----------------------------------------------------------------------------
(* An archive that has its final name lies on the expected mount: a mount  *)
(* that is lost, or lost and restored, between the checks, the creation of *)
(* the partial file and the rename never puts one elsewhere; only a       *)
(* third change within one backup could (validate_mounts, called thrice).  *)
PublishedOnMount ==
    \A f \in stored : f.kind = "finished" /\ f.changes < 3 => f.fs = "expected"

(* An archive can be restored: its database and its token were in force    *)
(* together, although they are read at different times.                    *)
ArchiveConsistent == \A f \in stored : f.kind = "finished" => <<f.db, f.token>> \in coexisted

(* Every finished archive is where the operator looks for it and can be    *)
(* restored from there (backup).                                           *)
ArchiveUsable == PublishedOnMount /\ ArchiveConsistent
=============================================================================
