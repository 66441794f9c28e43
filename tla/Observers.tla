------------------------------ MODULE Observers ------------------------------
(* The two components with a lock, deadlines and readers beside them: the    *)
(* banIP feed proof with the security monitor on the router, and the         *)
(* ansible-pull wrapper with the evidence readers on a node.  They share no  *)
(* state; the first state picks one, the other stays as it started.          *)
EXTENDS BanipProof

CONSTANTS
    Roles, AgentRole, Revisions, Builds, TokenWait, ReceiptSkew,
    MaxRuns, MaxBoots, MaxEdits, MaxPullClock               \* PullWrapper

\* last.env is no role's file, and the two kinds of evidence have names.
ASSUME WrapperAssumption ==
    /\ "last" \notin Roles
    /\ None \notin {"post-pull", "pinned"}
    /\ TokenWait \in Nat
    /\ Revisions # {}

VARIABLES component, node, declared, tip, token, checkout, marker, wrapper,
          files, history, reader, edits

PullWrapper == INSTANCE PullWrapper WITH Skew <- ReceiptSkew, MaxClock <- MaxPullClock

pullVars == <<node, declared, tip, token, checkout, marker, wrapper, files, history,
              reader, edits>>
allVars == <<component, vars, pullVars>>

(* Where the wrapper is not looked at, one of its initial states will do.    *)
ObserversInit ==
    /\ component \in {"BanipProof", "PullWrapper"}
    /\ Init
    /\ PullWrapper!Init
    /\ component = "BanipProof" =>
           /\ node.mode = "legacy" /\ node.stage = "stg" /\ ~token
           /\ declared = CHOOSE d \in PullWrapper!Declarations : TRUE

ObserversNext ==
    \/ component = "BanipProof" /\ Next /\ UNCHANGED <<component, pullVars>>
    \/ component = "PullWrapper" /\ PullWrapper!Next /\ UNCHANGED <<component, vars>>

ObserversSpec ==
    /\ ObserversInit /\ [][ObserversNext]_allVars
    /\ Fairness /\ PullWrapper!Fairness

(* The evidence readers of the wrapper say what is so (post-pull, pinned     *)
(* execution, lineage and source-declaration status).                        *)
ReportsTrue == PullWrapper!ReportsTrue

(* A pinned run that nobody disturbs plays exactly the pinned commit.        *)
UndisturbedIsExact == PullWrapper!UndisturbedIsExact

(* A wrapper run ends and gives its lock back, token or no token.            *)
LockReleased == PullWrapper!LockReleased
==============================================================================
