SPECIFICATION Spec
CONSTANTS
    h1 = h1
    h2 = h2
    d1 = d1
    d2 = d2
    c1 = c1
    c2 = c2
    c3 = c3
    Handlers <- TwoHandlers
    Disks <- TwoDisks
    Configs <- ThreeConfigs
    Assignments <- TwoTasks
    MaxFailures = 1
PROPERTY ShutsDownOnlyItsOwn
CHECK_DEADLOCK FALSE
