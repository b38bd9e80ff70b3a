SPECIFICATION Spec
CONSTANTS
    Specs <- MCTwoSpecs
    Disappear = TRUE
    MaxPools = 2
    MaxEdits = 2
    MaxFailures = 0
PROPERTIES
    PoolsResolvedByState
CHECK_DEADLOCK FALSE
