---------------------------- MODULE HostTailscale ----------------------------
(***************************************************************************)
(* The host's Tailscale daemon on a Pi whose root is lost at every boot:   *)
(* host-tailscale.py, the unit that starts the daemon behind its prepare   *)
(* step, and the playbook that enrolls one host.                           *)
(*                                                                         *)
(* The machine identity is the daemon's state file below the path that the *)
(* persistent disk is mounted on.  What the path leads to is "root" while  *)
(* nothing is mounted there, the disk of the configuration, or another     *)
(* one; the daemon opens it when it starts.                                *)
(***************************************************************************)
EXTENDS Naturals, FiniteSets

CONSTANTS
    MaxBoots,   \* bound: boots of the host
    MaxMounts,  \* bound: mounts and unmounts at the path
    MaxPlays    \* bound: enrollment plays

VARIABLES
    at,         \* what the path leads to
    dirs,       \* the places that hold the private state directory
    identity,   \* place -> the machine identity in its state file, or 0
    unit,       \* the unit: "stopped", "checked", "made" or "running"
    opened,     \* the place whose state the running daemon has opened
    backend,    \* BackendState as the daemon tells it
    play,       \* the enrollment play: "idle", "keyed", "guarded" or "asked"
    keys,       \* the credential files in /run, by the play that wrote them
    known,      \* the identities that the control plane has registered
    boots, mounts, plays

vars == <<at, dirs, identity, unit, opened, backend, play, keys, known, boots, mounts, plays>>

Places == {"root", "device", "other"}

Stopped == unit' = "stopped" /\ backend' = "none" /\ opened' = "root"

----------------------------------------------------------------------------
(* host-tailscale.py                                                       *)

\* Plausible mistake: any mount at the path will do.
CheckMountAny == at # "root"

\* check_mount: one mount at the path, of the configured device.
CheckMount == at = "device"

Guard == CheckMount

\* private_dirs: the directories are made in what the path leads to.
PrivateDirs == dirs' = dirs \union {at}

\* backend_state, which the daemon answers: NeedsLogin stands for NoState too,
\* and a daemon that is stopped or in any other state is refused.
BackendState == backend

\* The prepare command before ExecStart, in the order of its steps: a mount
\* that changes between them is met by the guard at the end.
Prepare ==
    /\ unit = "stopped" /\ at # "root"
    /\ Guard
    /\ unit' = "checked"
    /\ UNCHANGED <<at, dirs, identity, opened, backend, play, keys, known, boots, mounts, plays>>

Make ==
    /\ unit = "checked"
    /\ PrivateDirs
    /\ unit' = "made"
    /\ UNCHANGED <<at, identity, opened, backend, play, keys, known, boots, mounts, plays>>

\* The second guard, then ExecStart: the daemon reads the state it finds.
Start ==
    /\ unit = "made"
    /\ IF Guard
       THEN /\ unit' = "running" /\ opened' = at
            /\ backend' = IF identity[at] # 0 THEN "Running" ELSE "NeedsLogin"
       ELSE Stopped
    /\ UNCHANGED <<at, dirs, identity, play, keys, known, boots, mounts, plays>>

----------------------------------------------------------------------------
(* host-tailscale-enroll.yml                                               *)

\* status: only a logged-out host goes on, and its credential is written.
ReadState ==
    /\ play = "idle" /\ plays < MaxPlays
    /\ plays' = plays + 1
    /\ IF Guard /\ BackendState = "NeedsLogin"
       THEN play' = "keyed" /\ keys' = keys \union {plays'}
       ELSE UNCHANGED <<play, keys>>
    /\ UNCHANGED <<at, dirs, identity, unit, opened, backend, known, boots, mounts>>

\* The always section: the credential goes, whatever became of the command.
EndPlay == play' = "idle" /\ keys' = keys \ {plays}

\* enroll: the guard and the state are looked at again before the key is used.
Enroll ==
    /\ play = "keyed"
    /\ IF Guard /\ BackendState = "NeedsLogin" /\ plays \in keys
       THEN play' = "guarded" /\ UNCHANGED keys
       ELSE EndPlay
    /\ UNCHANGED <<at, dirs, identity, unit, opened, backend, known, boots, mounts, plays>>

\* tailscale up reaches the daemon, which goes on even when the command is
\* given up by its timeout.
Up ==
    /\ play = "guarded"
    /\ \/ play' = "asked" /\ UNCHANGED keys
       \/ EndPlay
    /\ backend' = IF BackendState = "NeedsLogin" THEN "Starting" ELSE backend
    /\ UNCHANGED <<at, dirs, identity, unit, opened, known, boots, mounts, plays>>

\* The daemon registers and writes its state; the identity is new when the
\* state it opened held none.
Register ==
    /\ backend = "Starting"
    /\ LET new == IF identity[opened] # 0 THEN identity[opened] ELSE Cardinality(known) + 1
       IN known' = known \union {new} /\ identity' = [identity EXCEPT ![opened] = new]
    /\ backend' = "Running"
    /\ UNCHANGED <<at, dirs, unit, opened, play, keys, boots, mounts, plays>>

\* The command ends and the state is read once more: success or a refusal.
UpEnds ==
    /\ play = "asked"
    /\ EndPlay
    /\ UNCHANGED <<at, dirs, identity, unit, opened, backend, known, boots, mounts, plays>>

----------------------------------------------------------------------------
(* The host.                                                               *)

\* A mount or an unmount at the path, one mount at a time.  The daemon is bound to the mount unit
\* and stops before the path leads elsewhere.
Mount(place) ==
    /\ mounts < MaxMounts /\ at # place
    /\ at = "root" \/ place = "root"
    /\ mounts' = mounts + 1 /\ at' = place
    /\ IF unit = "running" THEN Stopped ELSE UNCHANGED <<unit, opened, backend>>
    /\ UNCHANGED <<dirs, identity, play, keys, known, boots, plays>>

\* Restart=on-failure: the daemon dies and the unit is started anew.
DaemonDies ==
    /\ unit = "running" /\ Stopped
    /\ UNCHANGED <<at, dirs, identity, play, keys, known, boots, mounts, plays>>

\* The root and /run are lost, and the connection of the play with them.
Reboot ==
    /\ boots < MaxBoots
    /\ boots' = boots + 1 /\ at' = "root"
    /\ dirs' = dirs \ {"root"} /\ identity' = [identity EXCEPT !["root"] = 0]
    /\ Stopped /\ play' = "idle" /\ keys' = {}
    /\ UNCHANGED <<known, mounts, plays>>

\* The management machine goes away in the middle of the play, which leaves the
\* credential in /run until the next boot.
PlayLost ==
    /\ play # "idle"
    /\ play' = "idle"
    /\ UNCHANGED <<at, dirs, identity, unit, opened, backend, keys, known, boots, mounts, plays>>

Init ==
    /\ at = "root" /\ dirs = {} /\ identity = [p \in Places |-> 0]
    /\ unit = "stopped" /\ opened = "root" /\ backend = "none"
    /\ play = "idle" /\ keys = {} /\ known = {}
    /\ boots = 0 /\ mounts = 0 /\ plays = 0

Next ==
    \/ Prepare
    \/ Make
    \/ Start
    \/ ReadState
    \/ Enroll
    \/ Up
    \/ Register
    \/ UpEnds
    \/ \E place \in Places : Mount(place)
    \/ DaemonDies
    \/ Reboot
    \/ PlayLost

Spec == Init /\ [][Next]_vars

----------------------------------------------------------------------------

\* A host has one machine identity for good, and it is the one on its disk:
\* however often it boots, the disk is mounted late, lost or exchanged for
\* another, commands time out while the daemon still registers and plays are
\* repeated, the control plane
\* never registers the same host a second time.
OneIdentity == known \subseteq {identity["device"]} /\ Cardinality(known) <= 1

=============================================================================
