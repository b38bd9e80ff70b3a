SPECIFICATION FairSpec
CONSTANTS
    Linodes     = {1, 2}
    Sizes       = {1, 2, 3}
    Labels      = {l1, l2}
    SourceSize  = 2
    MaxVolumes  = 4
    MaxFailures = 1
    MaxEdits    = 2
    Null        = Null
    Nil         = Nil
INVARIANTS
    TypeOK
    ClonedVolumesTracked
    CallsOnDetachedVolume
PROPERTIES
    SuccessIsTruthful
    EventuallyApplied
