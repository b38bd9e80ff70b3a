SPECIFICATION Spec
CONSTANTS
    Specs <- MCTwoSpecs
    Disappear = FALSE
    MaxPools = 2
    MaxEdits = 2
    MaxFailures = 0
PROPERTIES
    ExternalPoolsIgnored
CHECK_DEADLOCK FALSE
