SPECIFICATION Spec
CONSTANTS
    Capacity = 5
    SwapSizes = {0, 1, 2, 3, 4, 5}
    MaxFailures = 3
INVARIANTS
    TypeOK
    ResizesFit
PROPERTIES
    SpaceKept
CHECK_DEADLOCK FALSE
