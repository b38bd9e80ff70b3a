SPECIFICATION FairSpec
CONSTANTS
    Specs <- MCSpecs
    Disappear = TRUE
    MaxPools = 2
    MaxEdits = 2
    MaxFailures = 1
INVARIANTS
    TypeOK
PROPERTIES
    PoolsAsConfigured
    ExternalPoolsKept
    NodesUpgraded
    UnchangedPoolsKept
    EventuallyApplied
CHECK_DEADLOCK FALSE
