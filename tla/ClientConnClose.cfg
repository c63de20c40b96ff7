SPECIFICATION Spec
SYMMETRY RequestSymmetry
CONSTANTS
    r1 = r1
    r2 = r2
    Requests = {r1, r2}
    CloseRequests = {}
    Cancellable = {}
    Modes <- DefaultModes
    InitialLimit = 2
    DefaultLimit = 2
    Limits = {}
    MaxSettings = 1
    MaxStreamID = 100
    MaxPings = 1
    Responses = {"body"}
    Events = {"closeBody", "refused", "protocol", "graceful", "idle", "shutdown", "ping", "windowUpdate"}
    Nil = Nil
INVARIANTS
    RetrySafe
    GracefulCutsNothing
CHECK_DEADLOCK FALSE
