------------------------------ MODULE Operations ------------------------------
(* The components that share no state with one another, side by side.  The  *)
(* first state picks a component; the behaviour is then that component's,   *)
(* and the variables of the others hold None.                               *)
EXTENDS Naturals, FiniteSets, Sequences

CONSTANTS
    None, NoState, NoReceipt,                                         \* no value, no state file, no receipt
    MaxWrites, MaxRotations, MaxFlips, MaxBackups,                    \* SqliteBackup
    Bays, Disks, MaxCount, MaxSwaps,                                  \* NasSmart
    Labels, Capacity, MinFree, MaxInode,                              \* BuildCleanup
    AddressBits, MaxRecords, Tables, KernelSets,                      \* CanonicalNets
    GenerationOrder, NameOrder, Contents, Unfit, MaxChanges,          \* ProducerReceipt
    Dates, BundlePaths,                                               \* ReleaseIdentity
    Commits, Checks, MaxMoves,                                        \* SourceValidator
    Inventories, Router,                                              \* ClientCatalog
    Bundles, Roots, Checked, PageSize, Slack, MaxClock, MaxStages,
    MaxRevisions,                                                     \* K3sApply
    TargetQueries, ControlGroup, AgentGroup, HostTexts,               \* K3sTargets
    Sites, StackQueries, Edited, MaxEdits,                            \* MonitoringStack
    MaxMounts, MaxPlays,                                              \* HostTailscale
    MaxBoots                                                          \* K3sApply, HostTailscale

\* How many checks a source validator runs; dates, and the dates that label the
\* finitely many build directories, are numbers, as far as they are compared; the
\* Terraform roots are named directories, in the order of the script.
ASSUME ChecksAssumption == Checks \in Nat
ASSUME DatesAssumption == Dates \subseteq Nat
ASSUME LabelsAssumption == Labels \subseteq Nat /\ IsFiniteSet(Labels)
ASSUME RootsAssumption == Roots \in Seq(STRING) /\ Roots # <<>>

\* A generation is measured once; a tree has a directory and at least a file;
\* some content is a manifest and a declaration of the build.
ASSUME ListingAssumption ==
    /\ GenerationOrder \in Seq(STRING) /\ GenerationOrder # <<>>
    /\ \A i, j \in 1..Len(GenerationOrder) : GenerationOrder[i] = GenerationOrder[j] => i = j
    /\ NameOrder \in Seq(STRING) /\ Len(NameOrder) >= 2
    /\ Contents \ Unfit # {}

\* An inventory's group lists hosts and groups by their names.
ASSUME TargetAssumption ==
    /\ {ControlGroup, AgentGroup} \subseteq STRING
    /\ \A q \in TargetQueries : \A g \in DOMAIN q.groups :
           q.groups[g] \in [hosts : Seq(STRING), children : Seq(STRING)]

VARIABLES
    component,
    mounts, db, token, flips, coexisted, stored, backup,              \* SqliteBackup
    inBay, raw, grown, swaps, smartFile, memory, poll,                \* NasSmart
    dirs, busy, previewed, sweep, lastInode, removed,                 \* BuildCleanup
    rows, elements,                                                   \* CanonicalNets
    disk, manifest, changes, at, seen, snap, published, reported,     \* ProducerReceipt
    stageDate, kernelDate, override, bundles, kernels, probe, verdict,
    everBuilt,                                                        \* ReleaseIdentity
    healthy, repo, gate, outcome, moves,                              \* SourceValidator
    inventory, host, catalog,                                         \* ClientCatalog
    links, stages, machineUp, receipt, apply, secrets, applied,
    reading,                                                          \* K3sApply
    query, walk, found, answer,                                       \* K3sTargets
    edition, objects, protected, pods,                                \* MonitoringStack
    path, stateDirs, identity, unit, opened, backend, play, keys,
    known, boots, pathMounts, plays                                   \* HostTailscale

sqliteVars == <<mounts, db, token, flips, coexisted, stored, backup>>
smartVars == <<inBay, raw, grown, swaps, smartFile, memory, poll>>
cleanupVars == <<dirs, busy, previewed, sweep, lastInode, removed>>
netVars == <<rows, elements>>
receiptVars == <<disk, manifest, changes, at, seen, snap, published, reported>>
identityVars == <<stageDate, kernelDate, override, bundles, kernels, probe, verdict, everBuilt>>
validatorVars == <<healthy, repo, gate, outcome, moves>>
catalogVars == <<inventory, host, catalog>>
applyVars == <<links, stages, machineUp, receipt, apply, secrets, applied, reading>>
targetVars == <<query, walk, found, answer>>
stackVars == <<edition, objects, protected, pods>>
tailscaleVars == <<path, stateDirs, identity, unit, opened, backend, play, keys, known, boots,
                   pathMounts, plays>>

-----------------------------------------------------------------------------
(* The components and their instances.                                      *)

SqliteBackup == INSTANCE SqliteBackup
NasSmart == INSTANCE NasSmart
BuildCleanup == INSTANCE BuildCleanup
CanonicalNets == INSTANCE CanonicalNets
ProducerReceipt == INSTANCE ProducerReceipt WITH stored <- published
ReleaseIdentity == INSTANCE ReleaseIdentity
SourceValidator == INSTANCE SourceValidator
ClientCatalog == INSTANCE ClientCatalog
K3sApply == INSTANCE K3sApply
K3sTargets == INSTANCE K3sTargets WITH Queries <- TargetQueries
MonitoringStack == INSTANCE MonitoringStack WITH Queries <- StackQueries
HostTailscale == INSTANCE HostTailscale WITH
    at <- path, dirs <- stateDirs, mounts <- pathMounts

\* Addresses have some number of bits; a row and an element name addresses and
\* prefix lengths.
ASSUME NetsAssumption ==
    /\ AddressBits \in Nat
    /\ \A table \in Tables : table \subseteq
           [start : CanonicalNets!Addresses, end : Nat, len : 0..AddressBits]
    /\ \A set \in KernelSets : \A e \in set :
           \/ e \in [kind : {"prefix"}, a : CanonicalNets!Addresses, b : 0..AddressBits]
           \/ e \in [kind : {"range"}, a : CanonicalNets!Addresses, b : CanonicalNets!Addresses]

\* An inventory lists its hosts and its legacy items; a path is a list of keys.
Listed(s) == s \in Seq({s[n] : n \in DOMAIN s})
ASSUME InventoriesAssumption ==
    \A i \in Inventories :
        /\ Listed(i.hosts) /\ \A k \in {"hosts", "boots", "overlays"} : Listed(i.legacy[k])
        /\ \A p \in DOMAIN i.group_vars : Listed(p)
        /\ \A n \in DOMAIN i.hosts : \A p \in DOMAIN i.hosts[n].group_vars : Listed(p)

\* A site of the renderers lists its targets, which are addresses, not Pods.
AllSites == (Sites \cup {q.site : q \in StackQueries}) \ {None}
SiteHosts(s) == MonitoringStack!Range(s.api \o s.tcp \o s.metrics \o MonitoringStack!Optional(s.openwrt))
ASSUME SitesAssumption ==
    /\ None \notin Sites
    /\ \A s \in AllSites :
        /\ Listed(s.api) /\ Listed(s.tcp) /\ Listed(s.metrics)
        /\ \A t \in SiteHosts(s) : t.host \notin MonitoringStack!PodNames
        /\ s.prod # None => MonitoringStack!ProdAddress(s) \notin MonitoringStack!PodNames

\* The sites describe one network: the egress_cidrs of each hold what any of
\* them has probed.
OneNetwork ==
    \A s, t \in AllSites : MonitoringStack!SiteAccepted(s) /\ MonitoringStack!SiteAccepted(t) =>
        /\ MonitoringStack!Covered(s)
        /\ \A x \in MonitoringStack!Range(t.api \o t.tcp) : x.host \in MonitoringStack!Hosts(s)

\* The composer's query takes a choice of its two hosts.
ASSUME QueriesAssumption == \A q \in StackQueries : q.hosts \subseteq {"desktop", "typevt"}

\* One pair of a provider's table and a kernel set; nothing moves.
NetsInit == rows \in Tables /\ elements \in KernelSets

-----------------------------------------------------------------------------
Is(name) == component = name

Init ==
    /\ component \in {"SqliteBackup", "NasSmart", "BuildCleanup", "CanonicalNets", "ProducerReceipt",
                      "ReleaseIdentity", "SourceValidator", "ClientCatalog", "K3sApply",
                      "K3sTargets", "MonitoringStack", "HostTailscale"}
    /\ IF Is("SqliteBackup") THEN SqliteBackup!Init
       ELSE /\ mounts = None /\ db = None /\ token = None /\ flips = None
            /\ coexisted = None /\ stored = None /\ backup = None
    /\ IF Is("NasSmart") THEN NasSmart!Init
       ELSE /\ inBay = None /\ raw = None /\ grown = None /\ swaps = None
            /\ smartFile = None /\ memory = None /\ poll = None
    /\ IF Is("BuildCleanup") THEN BuildCleanup!Init
       ELSE /\ dirs = None /\ busy = None /\ previewed = None
            /\ sweep = None /\ lastInode = None /\ removed = None
    /\ IF Is("CanonicalNets") THEN NetsInit ELSE rows = None /\ elements = None
    /\ IF Is("ProducerReceipt") THEN ProducerReceipt!Init
       ELSE /\ disk = None /\ manifest = None /\ changes = None /\ at = None
            /\ seen = None /\ snap = None /\ published = None /\ reported = None
    /\ IF Is("ReleaseIdentity") THEN ReleaseIdentity!Init
       ELSE /\ stageDate = None /\ kernelDate = None /\ override = None /\ bundles = None
            /\ kernels = None /\ probe = None /\ verdict = None /\ everBuilt = None
    /\ IF Is("SourceValidator") THEN SourceValidator!Init
       ELSE healthy = None /\ repo = None /\ gate = None /\ outcome = None /\ moves = None
    /\ IF Is("ClientCatalog") THEN ClientCatalog!Init
       ELSE inventory = None /\ host = None /\ catalog = None
    /\ IF Is("K3sApply") THEN K3sApply!Init
       ELSE /\ links = None /\ stages = None /\ machineUp = None /\ receipt = None
            /\ apply = None /\ secrets = None /\ applied = None /\ reading = None
    /\ IF Is("K3sTargets") THEN K3sTargets!Init
       ELSE query = None /\ walk = None /\ found = None /\ answer = None
    /\ IF Is("MonitoringStack") THEN MonitoringStack!Init
       ELSE edition = None /\ objects = None /\ protected = None /\ pods = None
    /\ IF Is("HostTailscale") THEN HostTailscale!Init
       ELSE /\ path = None /\ stateDirs = None /\ identity = None /\ unit = None
            /\ opened = None /\ backend = None /\ play = None /\ keys = None
            /\ known = None /\ boots = None /\ pathMounts = None /\ plays = None

Others ==
    /\ UNCHANGED component
    /\ IF Is("SqliteBackup") THEN TRUE ELSE UNCHANGED sqliteVars
    /\ IF Is("NasSmart") THEN TRUE ELSE UNCHANGED smartVars
    /\ IF Is("BuildCleanup") THEN TRUE ELSE UNCHANGED cleanupVars
    /\ UNCHANGED netVars
    /\ IF Is("ProducerReceipt") THEN TRUE ELSE UNCHANGED receiptVars
    /\ IF Is("ReleaseIdentity") THEN TRUE ELSE UNCHANGED identityVars
    /\ IF Is("SourceValidator") THEN TRUE ELSE UNCHANGED validatorVars
    /\ IF Is("ClientCatalog") THEN TRUE ELSE UNCHANGED catalogVars
    /\ IF Is("K3sApply") THEN TRUE ELSE UNCHANGED applyVars
    /\ IF Is("K3sTargets") THEN TRUE ELSE UNCHANGED targetVars
    /\ IF Is("MonitoringStack") THEN TRUE ELSE UNCHANGED stackVars
    /\ IF Is("HostTailscale") THEN TRUE ELSE UNCHANGED tailscaleVars

Next ==
    \/ Is("SqliteBackup") /\ SqliteBackup!Next /\ Others
    \/ Is("NasSmart") /\ NasSmart!Next /\ Others
    \/ Is("BuildCleanup") /\ BuildCleanup!Next /\ Others
    \/ Is("ProducerReceipt") /\ ProducerReceipt!Next /\ Others
    \/ Is("ReleaseIdentity") /\ ReleaseIdentity!Next /\ Others
    \/ Is("SourceValidator") /\ SourceValidator!Next /\ Others
    \/ Is("ClientCatalog") /\ ClientCatalog!Next /\ Others
    \/ Is("K3sApply") /\ K3sApply!Next /\ Others
    \/ Is("K3sTargets") /\ K3sTargets!Next /\ Others
    \/ Is("MonitoringStack") /\ MonitoringStack!Next /\ Others
    \/ Is("HostTailscale") /\ HostTailscale!Next /\ Others

vars == <<component, sqliteVars, smartVars, cleanupVars, netVars,
          receiptVars, identityVars, validatorVars,
          catalogVars, applyVars, targetVars, stackVars,
          tailscaleVars>>

Spec == Init /\ [][Next]_vars

-----------------------------------------------------------------------------
(* The properties, of the chosen component.                                 *)

\* k3s_sqlite_backup.py: a finished archive lies on the expected mount and holds
\* a database and a token that were in force together.
ArchiveUsable == Is("SqliteBackup") => SqliteBackup!ArchiveUsable

\* nas_smart.py: the sums in the state file are what each disk's counter grew.
IncrementsTrue == Is("NasSmart") => NasSmart!IncrementsTrue

\* cleanup_old_builds.py: what is removed is what the operator saw and approved.
RemovedAsPreviewed == Is("BuildCleanup") => BuildCleanup!RemovedAsPreviewed

\* banip_feed_proof.py: two digests agree exactly when the same addresses are covered.
DigestsDecide == Is("CanonicalNets") => CanonicalNets!DigestsDecideFor(rows, elements)

\* pxe_producer_receipt.py: a receipt describes each tree as it was at one moment.
ReceiptIsASnapshot == Is("ProducerReceipt") => ProducerReceipt!ReceiptIsASnapshot

\* rpi5_common_kernel_identity_status.py: no bundle date passes that was built before.
IdentityNeverReused == [][Is("ReleaseIdentity") => ReleaseIdentity!FreshPass]_vars

\* pxe_standard_source_validate.py: a pass vouches for the commit that it names.
PassVouchesForRevision == Is("SourceValidator") => SourceValidator!PassVouchesForRevision

\* openwrt_pxe_client_catalog.py: no disk of a persistent node is given up, and no
\* declared value but to a conflict that is named or to the host's own settings.
CatalogKeeps == Is("ClientCatalog") => ClientCatalog!CatalogKeeps

\* The receipt and Helm probes: what they report of the cluster was applied, in this boot.
ObservationsTrue == Is("K3sApply") => K3sApply!ObservationsTrue

\* pi_k3s_inventory_targets.py: every node of the inventory is asked once.
EveryNodeOnce == Is("K3sTargets") => K3sTargets!EveryNodeOnce

\* The renderers: every configured connection passes the policies of both its ends.
FlowsOpen == Is("MonitoringStack") => MonitoringStack!FlowsOpen

\* The renderers: a running Pod has read the text that its ConfigMaps hold.
PodsCurrent == Is("MonitoringStack") => MonitoringStack!PodsCurrent

\* The renderers: no dashboard or rule asks for a series that its scrape job drops.
SeriesKept == Is("MonitoringStack") => MonitoringStack!SeriesKept

\* host-tailscale.py: a host has one machine identity, the one on its disk.
OneIdentity == Is("HostTailscale") => HostTailscale!OneIdentity
=============================================================================
