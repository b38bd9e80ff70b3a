SPECIFICATION Spec
CONSTANTS
    Kinds <- AllKinds
    Divergent <- KnownDivergences
    Leaky <- KnownLeaks
    Stuck <- KnownStuck
    Unread <- KnownUnread
    Refused <- KnownRefusals
    Imports = TRUE
    Edits = 1
    Disturbances = 1
INVARIANTS TypeOK QuietRunsSucceed
PROPERTIES KeepsCustody SuccessIsTruthful ApplyIsIdempotent ReplacedForAReason UnmanagedUntouched ImportIsFaithful
CHECK_DEADLOCK FALSE
