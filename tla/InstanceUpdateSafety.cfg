SPECIFICATION Spec
CONSTANTS
    Types = {"nanode", "standard", "large"}
    Capacity <- MCCapacity
    StartTypes = {"standard"}
    Attributes = {"private_ip", "region", "config", "interface"}
    MaxDiff = 4
    MaxFailures = 1
    MaxInterference = 1
INVARIANTS
    TypeOK
    CallsAccepted
PROPERTIES
    SuccessIsTruthful
    BootedAsConfigured
    RebootsNotLost
CHECK_DEADLOCK FALSE
