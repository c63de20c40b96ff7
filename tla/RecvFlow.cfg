SPECIFICATION FairSpec
CONSTANTS
    s1 = s1
    s2 = s2
    Streams = {s1}
    MayBeHead = {s1}
    Unruly = {s1}
    SpecWindow = 2
    StreamFlow = 3
    ConnFlow = 2
    MinRefresh = 2
    MaxWindow = 100
    FpHasSettings = TRUE
    FpHasInitialWindow = TRUE
    FpInitialWindow = 2
    FpWindowUpdate = 1
    BodyLengths = {0, 3}
    FrameData = {0, 1, 2}
    FramePads = {0, 1}
INVARIANTS
    TypeOK
    NoFalseFlowControlError
    WindowsAgree
    StreamNotStarved
    ConnWindowConserved
    ConnNotStarved
CHECK_DEADLOCK FALSE
PROPERTY BodyCompletes
