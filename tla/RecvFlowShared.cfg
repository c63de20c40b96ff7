SPECIFICATION Spec
CONSTANTS
    s1 = s1
    s2 = s2
    Streams = {s1, s2}
    MayBeHead = {}
    Unruly = {s1}
    SpecWindow = 2
    StreamFlow = 2
    ConnFlow = 1
    MinRefresh = 2
    MaxWindow = 100
    FpHasSettings = FALSE
    FpHasInitialWindow = FALSE
    FpInitialWindow = 0
    FpWindowUpdate = 0
    BodyLengths = {1}
    FrameData = {1}
    FramePads = {0}
INVARIANTS
    NoStrandedBytes
CHECK_DEADLOCK FALSE
