----------------------------- MODULE BuildCleanup -----------------------------
(***************************************************************************)
(* rpi5_common_kernel_build/files/cleanup_old_builds.py: a preview lists   *)
(* the obsolete work directories to remove and prints a digest; apply      *)
(* plans again, compares the digest it was given and removes the list one  *)
(* directory at a time.  Builds create, use and replace directories in     *)
(* between.  A label is its place in the order of dates; every directory   *)
(* takes one unit of space.                                                *)
(***************************************************************************)
EXTENDS Integers, FiniteSets, FiniteSetsExt

CONSTANTS Labels, Capacity, MinFree, MaxInode   \* Labels \subseteq Nat; MaxInode: bound

VARIABLES
    dirs,      \* label -> inode of the existing work directories
    busy,      \* labels some process has open
    previewed, \* the plan an operator has seen, or Nothing
    sweep,     \* the running apply
    lastInode, \* history: the inode given last
    removed    \* history: what was removed, as [label, inode, begun, plan]

vars == <<dirs, busy, previewed, sweep, lastInode, removed>>

Nothing == [protected |-> {}, delete |-> {}]
Resting == [todo |-> {}, begun |-> 0, approved |-> Nothing]
Protections == {p \in SUBSET Labels : Cardinality(p) = 3}   \* validate_labels

Init ==
    /\ dirs = [l \in Labels |-> l] /\ lastInode = Cardinality(Labels)
    /\ busy = {} /\ previewed = Nothing /\ sweep = Resting /\ removed = {}

-----------------------------------------------------------------------------
(* Builds                                                                  *)

Without(l) == [k \in DOMAIN dirs \ {l} |-> dirs[k]]

Build ==
    /\ \/ /\ lastInode < MaxInode /\ lastInode' = lastInode + 1   \* a new or renewed directory
          /\ \E l \in Labels : /\ dirs' = [k \in DOMAIN dirs \cup {l} |->
                                              IF k = l THEN lastInode' ELSE dirs[k]]
                               /\ busy' = busy \cup {l}
       \/ \E l \in busy : busy' = busy \ {l} /\ UNCHANGED <<dirs, lastInode>>
       \/ \E l \in DOMAIN dirs \ busy : busy' = busy \cup {l} /\ UNCHANGED <<dirs, lastInode>>
    /\ UNCHANGED <<previewed, sweep, removed>>

-----------------------------------------------------------------------------
(* build_plan                                                              *)

Free == Capacity - Cardinality(DOMAIN dirs)
Eligible(protected) == {l \in DOMAIN dirs : l \notin protected /\ l < Min(protected)}
Needed == IF Free >= MinFree THEN 0 ELSE MinFree - Free
\* The oldest, until enough would be free.
Selected(protected) ==
    {l \in Eligible(protected) : Cardinality({k \in Eligible(protected) : k < l}) < Needed}
PlanExists(protected) ==
    /\ Eligible(protected) \cap busy = {}
    /\ Free + Cardinality(Eligible(protected)) >= MinFree
\* What the digest is taken of: the arguments, the labels and their inodes.
Plan(protected) ==
    [protected |-> protected,
     delete |-> {[label |-> l, inode |-> dirs[l]] : l \in Selected(protected)}]

Preview ==
    /\ \E protected \in Protections :
           PlanExists(protected) /\ previewed' = Plan(protected)
    /\ UNCHANGED <<dirs, busy, sweep, lastInode, removed>>

\* Mutant of PlanApproved: any digest will do.
PlanAnyDigest(protected) == PlanExists(protected)
PlanApproved(protected) == PlanExists(protected) /\ Plan(protected) = previewed

Apply ==
    /\ sweep.todo = {}
    /\ \E protected \in Protections :
           /\ PlanApproved(protected)
           /\ sweep' = [todo |-> Selected(protected), begun |-> lastInode, approved |-> previewed]
    /\ UNCHANGED <<dirs, busy, previewed, lastInode, removed>>

\* The next directory, the oldest left, is looked at once more and removed.
RemoveNext ==
    /\ sweep.todo # {}
    /\ LET l == Min(sweep.todo) IN
       \/ /\ l \in DOMAIN dirs \ busy
          /\ removed' = removed \cup {[label |-> l, inode |-> dirs[l], begun |-> sweep.begun,
                                       plan |-> sweep.approved]}
          /\ dirs' = Without(l)
          /\ sweep' = IF sweep.todo = {l} THEN Resting ELSE [sweep EXCEPT !.todo = @ \ {l}]
       \/ l \notin DOMAIN dirs \ busy /\ sweep' = Resting /\ UNCHANGED <<removed, dirs>>
    /\ UNCHANGED <<busy, previewed, lastInode>>

\* An error while a tree is removed ends the run.
Interrupted ==
    /\ sweep.todo # {} /\ sweep' = Resting
    /\ UNCHANGED <<dirs, busy, previewed, lastInode, removed>>

Next == Build \/ Preview \/ Apply \/ RemoveNext \/ Interrupted
Spec == Init /\ [][Next]_vars

-----------------------------------------------------------------------------
(* What is removed is what was approved: each directory removed was listed *)
(* in the preview the operator has seen, under a label older than every    *)
(* protected one, and is that very directory (its inode) unless a build    *)
(* replaced it while the removal was running.                              *)
RemovedAsPreviewed ==
    \A r \in removed :
        /\ \E d \in r.plan.delete :
               d.label = r.label /\ (d.inode = r.inode \/ r.inode > r.begun)
        /\ \A p \in r.plan.protected : r.label < p
=============================================================================
