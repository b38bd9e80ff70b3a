SPECIFICATION Spec
CONSTANTS
    Linodes     = {1, 2}
    Sizes       = {1, 2}
    Labels      = {l1}
    SourceSize  = 1
    MaxVolumes  = 4
    MaxFailures = 1
    MaxEdits    = 1
    Null        = Null
    Nil         = Nil
INVARIANTS
    VolumesTracked
