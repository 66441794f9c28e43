--------------------------- MODULE ProducerReceipt ---------------------------
(* pxe_producer_receipt.py, its contract and pxe_artifact_fingerprint.py: one
   producer measures the paired artifact trees of a bundle, file by file and
   twice over, while others may still write to them, and publishes a receipt
   under a name that a second producer may be publishing too.  Readers report
   the receipt that they find there, at any time.

   A file is its bytes and a stamp that every write moves (inode, size, mtime
   and ctime in _identity).  A visit reads a file and compares the stamp before
   and after, so that it is one step here.                                     *)
EXTENDS Naturals, SequencesExt

CONSTANTS GenerationOrder, \* GENERATIONS: <<"rpi4", "rpi5">>
          NameOrder,       \* names of a tree in listing order; the first is its directory
          Contents,        \* contents of a file, of a declaration, of a manifest
          Unfit,           \* those that are no manifest or declaration of this build
          MaxChanges       \* bound: writes by others

VARIABLES
  disk,      \* the trees: <<generation, tree>> -> name -> [data, stamp]
  manifest,  \* releases/<date>.json: its bytes
  changes,   \* how many writes others made
  at,        \* the producer's position in Plan; 0: not running
  seen,      \* what it has read so far
  snap,      \* ghost: each tree at the end of its first walk
  stored,    \* releases/producer/<date>.json
  reported   \* ghost: the receipts that readers have reported

vars == <<disk, manifest, changes, at, seen, snap, stored, reported>>

Generations == ToSet(GenerationOrder)
Trees == Generations \X {"rootfs", "tftp"}
Nothing == <<>>

-----------------------------------------------------------------------------
(* What produce reads, in its order.  A step names what it reads and the key
   under which it keeps it; a second reading of the same thing is "again".     *)

Step(what, tree, name, again) ==
  [what |-> what, tree |-> tree, name |-> name, again |-> again]

(* _walk: the directory, then its entries, then the directory once more. *)
Walk(tree, again) ==
  [i \in 1..Len(NameOrder) |-> Step("visit", tree, NameOrder[i], again)]
    \o <<Step("visit", tree, NameOrder[1], TRUE)>>

(* fingerprint_tree walks twice; the ghost step stands between the walks. *)
Fingerprint(tree) ==
  Walk(tree, FALSE) \o <<Step("snap", tree, "none", FALSE)>> \o Walk(tree, TRUE)

Declaration(g, again) == <<Step("declaration", <<g, "rootfs">>, NameOrder[2], again)>>
RequiredFiles(g, again) == <<Step("required", <<g, "tftp">>, NameOrder[2], again)>>
Manifest(again) == <<Step("manifest", <<>>, "none", again)>>

Measure(g) == Declaration(g, FALSE) \o RequiredFiles(g, FALSE)
                \o Fingerprint(<<g, "rootfs">>) \o Fingerprint(<<g, "tftp">>)
                \o RequiredFiles(g, TRUE)

Plan == Manifest(FALSE)
          \o FlattenSeq([i \in 1..Len(GenerationOrder) |-> Measure(GenerationOrder[i])])
          \o FlattenSeq([i \in 1..Len(GenerationOrder) |-> Declaration(GenerationOrder[i], TRUE)])
          \o Manifest(TRUE)
          \o <<Step("existing", <<>>, "none", FALSE), Step("link", <<>>, "none", FALSE)>>

-----------------------------------------------------------------------------

Init ==
  /\ disk \in [Trees -> [ToSet(NameOrder) -> [data: {CHOOSE c \in Contents: c \notin Unfit},
                                              stamp: {0}]]]
  /\ manifest \in Contents
  /\ changes = 0 /\ at = 0 /\ seen = {} /\ snap = {} /\ stored = Nothing
  /\ reported = {}

(* What a reading of a step finds.  A walk sees bytes and identity; the
   declaration, the required files and the manifest are compared by bytes.     *)
Reading(s) ==
  CASE s.what = "visit" -> <<disk[s.tree][s.name].data, disk[s.tree][s.name].stamp>>
    [] s.what \in {"declaration", "required"} -> <<disk[s.tree][s.name].data>>
    [] OTHER -> <<manifest>>

Key(s) == <<s.what, s.tree, s.name>>
Known(s) == {r \in seen : r.key = Key(s)}

(* Mutant: the second walk is taken but not compared. *)
SameAgainUnchecked(s) ==
  s.what # "visit" => \A r \in Known(s): r.value = Reading(s)

(* A second reading has to find what the first one found. *)
SameAgain(s) == \A r \in Known(s): r.value = Reading(s)

(* _manifest and _declaration refuse what is not for this bundle, build and
   revision; the two declarations have to be the same.                         *)
Acceptable(s) ==
  /\ s.what \in {"declaration", "manifest"} => Reading(s)[1] \notin Unfit
  /\ s.what = "declaration" =>
       \A r \in seen : r.key[1] = "declaration" => r.value = Reading(s)

Begin ==
  /\ at = 0
  /\ at' = 1 /\ seen' = {} /\ snap' = {}
  /\ UNCHANGED <<disk, manifest, changes, stored, reported>>

(* An error anywhere: "producer_receipt_failed" and nothing is written. *)
GiveUp == at' = 0 /\ seen' = {} /\ snap' = {}

Read ==
  LET s == Plan[at] IN
  /\ at # 0 /\ s.what \in {"visit", "declaration", "required", "manifest"}
  /\ IF (s.again => SameAgain(s)) /\ Acceptable(s)
     THEN /\ at' = at + 1
          /\ seen' = seen \cup {[key |-> Key(s), value |-> Reading(s)]}
          /\ UNCHANGED snap
     ELSE GiveUp
  /\ UNCHANGED <<disk, manifest, changes, stored, reported>>

Measured == {s \in ToSet(Plan) : s.what \in {"visit", "declaration", "required", "manifest"}}

(* validate_receipt: every part is there and the declarations agree. *)
Valid(r) ==
  /\ {m.key : m \in r.measured} = {Key(s) : s \in Measured}
  /\ \A m, n \in r.measured :
       m.key[1] = "declaration" /\ n.key[1] = "declaration" => m.value = n.value

(* Between the two walks of a tree. *)
Between ==
  /\ at # 0 /\ Plan[at].what = "snap"
  /\ at' = at + 1
  /\ snap' = snap \cup {[tree |-> Plan[at].tree, files |-> disk[Plan[at].tree]]}
  /\ UNCHANGED <<disk, manifest, changes, seen, stored, reported>>

(* The receipt of a measurement; its capture window is left out. *)
Receipt == [measured |-> seen, snap |-> snap]

(* The receipt is validated like one that is read.  An existing one is kept if
   it says the same, else it is a conflict; without one the producer goes on.  *)
CheckExisting ==
  /\ at # 0 /\ Plan[at].what = "existing"
  /\ IF stored = Nothing /\ Valid(Receipt) THEN at' = at + 1 /\ UNCHANGED <<seen, snap>> ELSE GiveUp
  /\ UNCHANGED <<disk, manifest, changes, stored, reported>>

(* _publish: a hard link, which fails if the name was taken in the meantime. *)
Publish == stored' = IF stored = Nothing THEN <<Receipt>> ELSE stored

Link ==
  /\ at # 0 /\ Plan[at].what = "link"
  /\ Publish
  /\ GiveUp
  /\ UNCHANGED <<disk, manifest, changes, reported>>

(* The producer is killed. *)
Crash == at # 0 /\ GiveUp /\ UNCHANGED <<disk, manifest, changes, stored, reported>>

(* read_receipt, by a reader whose clock may also refuse it. *)
ReadReceipt ==
  /\ stored # Nothing /\ Valid(stored[1])
  /\ reported' = reported \cup {stored[1]}
  /\ UNCHANGED <<disk, manifest, changes, at, seen, snap, stored>>

(* A second producer publishes what it measured of the trees as they are. *)
RivalPublishes ==
  LET r == [measured |-> {[key |-> Key(s), value |-> Reading(s)] : s \in Measured},
            snap |-> {[tree |-> t, files |-> disk[t]] : t \in Trees}]
  IN /\ stored = Nothing
     /\ Valid(r)
     /\ \A s \in Measured :
          s.what \in {"declaration", "manifest"} => Reading(s)[1] \notin Unfit
     /\ stored' = <<r>>
     /\ UNCHANGED <<disk, manifest, changes, at, seen, snap, reported>>

Write ==
  /\ changes < MaxChanges
  /\ changes' = changes + 1
  /\ \/ \E t \in Trees, n \in ToSet(NameOrder), c \in Contents:
          /\ disk' = [disk EXCEPT ![t][n] = [data |-> c, stamp |-> changes + 1]]
          /\ UNCHANGED manifest
     \/ manifest' \in Contents \ {manifest} /\ UNCHANGED disk
  /\ UNCHANGED <<at, seen, snap, stored, reported>>

Next == \/ Begin \/ Read \/ Between \/ CheckExisting \/ Link \/ Crash
        \/ ReadReceipt \/ RivalPublishes \/ Write

Spec == Init /\ [][Next]_vars

-----------------------------------------------------------------------------

(* A receipt describes trees that existed: for each tree there was a moment (the
   end of its first walk) at which every file was as the receipt says, although
   no walk is atomic and others may write between any two visits.  That holds
   of the stored receipt and of every receipt that was ever reported, and what
   was reported once is never replaced by the receipt of another producer.      *)
SnapshotIn(r) ==
  \A s \in r.snap: \A n \in ToSet(NameOrder):
    [key |-> <<"visit", s.tree, n>>, value |-> <<s.files[n].data, s.files[n].stamp>>]
      \in r.measured
ReceiptIsASnapshot ==
  /\ \A r \in reported \cup ToSet(stored): SnapshotIn(r)
  /\ \A r \in reported: stored = <<r>>
==============================================================================
