SPECIFICATION Spec
CONSTANTS
    None = None
    NoState = NoState
    NoReceipt = NoReceipt
    MaxWrites = 2
    MaxRotations = 2
    MaxFlips = 3
    MaxBackups = 1
    Bays = {bay}
    Disks = {d1, d2}
    MaxCount = 2
    MaxSwaps = 2
    Labels = {1, 2, 3, 4, 5}
    Capacity = 6
    MinFree = 3
    MaxInode = 6
    AddressBits = 2
    MaxRecords = 3
    Tables <- MCTables
    KernelSets <- MCKernelSets
    GenerationOrder <- MCGenerationOrder
    NameOrder <- MCNameOrder
    Contents = {"c1", "c2"}
    Unfit = {"c2"}
    MaxChanges = 2
    Dates = {0, 1, 2, 3}
    BundlePaths = {"manifest", "tree"}
    Commits = {1, 2}
    Checks = 2
    MaxMoves = 2
    Inventories <- MCInventories
    Router = "router"
    Bundles = {"b1", "b2"}
    Roots <- MCRoots
    Checked = {"crds"}
    PageSize = 3
    Slack = 1
    MaxClock = 2
    MaxStages = 2
    MaxRevisions = 2
    TargetQueries <- MCTargetQueries
    ControlGroup = "control"
    AgentGroup = "agents"
    HostTexts = {"a", "h1", "h2", "root"}
    Sites <- MCSites
    StackQueries <- MCStackQueries
    Edited = {"nfs", "files"}
    MaxEdits = 1
    MaxMounts = 3
    MaxPlays = 2
    MaxBoots = 2
INVARIANTS
    ArchiveUsable
    IncrementsTrue
    RemovedAsPreviewed
    DigestsDecide
    ReceiptIsASnapshot
    PassVouchesForRevision
    CatalogKeeps
    ObservationsTrue
    EveryNodeOnce
    FlowsOpen
    PodsCurrent
    SeriesKept
    OneIdentity
PROPERTY IdentityNeverReused
CHECK_DEADLOCK FALSE
