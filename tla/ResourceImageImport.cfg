SPECIFICATION Spec
CONSTANTS
    Kinds <- OnlyImages
    Divergent = {}
    Leaky = {}
    Stuck = {}
    Unread = {}
    Refused = {}
    Imports = TRUE
    Edits = 0
    Disturbances = 0
PROPERTIES ImportIsFaithful
CHECK_DEADLOCK FALSE
