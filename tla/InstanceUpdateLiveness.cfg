SPECIFICATION FairSpec
CONSTANTS
    Types = {"nanode", "standard", "dedicated", "large"}
    Capacity <- MCCapacity
    StartTypes = {"standard"}
    Attributes = {"placement_group", "label", "backups_enabled", "private_ip",
                  "region", "config", "interface", "shared_ipv4"}
    MaxDiff = 1
    MaxFailures = 1
    MaxInterference = 0
PROPERTIES
    EventuallyApplied
CHECK_DEADLOCK FALSE
