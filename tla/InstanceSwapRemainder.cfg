SPECIFICATION Spec
CONSTANTS
    Capacity = 5
    SwapSizes = {1, 2}
    MaxFailures = 1
INVARIANTS
    BootTakesRemainder
CHECK_DEADLOCK FALSE
