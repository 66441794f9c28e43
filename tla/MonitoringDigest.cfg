SPECIFICATION Spec
CONSTANTS
    Sites <- MCSites
    Queries <- MCQueries
    Edited = {"nfs", "files"}
    MaxEdits = 1
    None = None
INVARIANT RulesInDigest
CHECK_DEADLOCK FALSE
