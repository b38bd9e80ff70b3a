SPECIFICATION FairSpec
CONSTANTS
    Kinds <- LiveKinds
    Divergent <- KnownDivergences
    Leaky <- KnownLeaks
    Stuck <- KnownStuck
    Unread <- KnownUnread
    Refused <- KnownRefusals
    Imports = FALSE
    Edits = 1
    Disturbances = 1
PROPERTY Converges
CHECK_DEADLOCK FALSE
