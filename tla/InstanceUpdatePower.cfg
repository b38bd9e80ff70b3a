SPECIFICATION Spec
CONSTANTS
    Types = {"nanode", "standard", "dedicated", "large"}
    Capacity <- MCCapacity
    StartTypes = {"standard"}
    Attributes = {}
    MaxDiff = 0
    MaxFailures = 0
    MaxInterference = 0
PROPERTIES
    PowerUnmanaged
CHECK_DEADLOCK FALSE
