SPECIFICATION ObserversSpec
CONSTANTS
    FeedOrder <- MCFeedOrder
    Contents = {c1, c2}
    None = None
    MaxAge = 0
    MaxVerify = 0
    Skew = 0
    Slack = 0
    MaxClock = 1
    MaxEvents = 3
    Roles = {agent}
    AgentRole = agent
    Revisions = {r1, r2}
    Builds = {b1}
    TokenWait = 1
    ReceiptSkew = 1
    MaxRuns = 2
    MaxBoots = 2
    MaxEdits = 1
    MaxPullClock = 3
INVARIANTS
    ReportsTrue
    UndisturbedIsExact
PROPERTIES
    VerifiedIsFresh
    EvidenceKept
    CommandEnds
    LockReleased
CHECK_DEADLOCK FALSE
