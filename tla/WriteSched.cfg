SPECIFICATION Spec
SYMMETRY StreamSymmetry
CONSTANTS
    s1 = s1
    s2 = s2
    s3 = s3
    Streams = {s1, s2}
    Conn = Conn
    NoFrame = NoFrame
    Nothing = Nothing
    Kinds = {"roundRobin", "random", "rfc9218"}
    Classes <- MCClasses
    maxFrameSize = 2
    Windows = {2}
    ConnWindows = {2}
    Payloads <- MCPayloads
    MaxPush = 3
INVARIANTS
    TypeOK
    RingsSound
    NoStarvation
PROPERTY ImplementsQueues
CHECK_DEADLOCK FALSE
