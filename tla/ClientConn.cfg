SPECIFICATION Spec
SYMMETRY RequestSymmetry
CONSTANTS
    r1 = r1
    r2 = r2
    Requests = {r1, r2}
    CloseRequests = {}
    Cancellable = {r1, r2}
    Modes <- Shared
    InitialLimit = 2
    DefaultLimit = 1
    Limits = {1}
    MaxSettings = 1
    MaxStreamID = 100
    MaxPings = 1
    Responses = {"body"}
    Events = {"error", "malformed", "encodeError"}
    Nil = Nil
INVARIANTS
    TypeOK
    HeadersInOrder
    NoStrandedReset
    NoLeakedReservation
CHECK_DEADLOCK FALSE
