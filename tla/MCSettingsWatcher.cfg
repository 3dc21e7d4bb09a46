SPECIFICATION FairSpec
CONSTANTS
    s1 = s1
    s2 = s2
    b1 = b1
    b2 = b2
    t0 = t0
    t1 = t1
    Instance <- OneShell
    Zoom = zoom
    Binding <- TwoBindings
    OtherKey = {calendar}
    Value = {t0, t1}
    Default = t0
    Bad = Bad
    None = None
    Request <- Requests
    BatchLimit = 2
    MaxRemote = 1
    MaxSaves = 1
    MaxLaunches = 2
    MaxFailures = 1
INVARIANTS TypeOK NothingMissed
PROPERTIES EventuallyShown
CHECK_DEADLOCK FALSE
