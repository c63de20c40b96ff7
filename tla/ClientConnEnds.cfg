SPECIFICATION FairSpec
CONSTANTS
    r1 = r1
    r2 = r2
    Requests = {r1, r2}
    CloseRequests = {r2}
    Cancellable = {r1}
    Modes <- AnyMode
    InitialLimit = 1
    DefaultLimit = 1
    Limits = {1}
    MaxSettings = 1
    MaxStreamID = 100
    MaxPings = 1
    Responses = {"nobody"}
    Events = {"drop", "close"}
    Nil = Nil
INVARIANTS
    UnresponsiveBounded
PROPERTIES
    RequestsEnd
CHECK_DEADLOCK FALSE
