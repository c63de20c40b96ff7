SPECIFICATION Spec
CONSTANTS
    Ids = {1, 2, 3}
    None = None
    Scenarios <- MCScenarios
    AdvMax = 1
    ClientMax = 1
    MaxQueued = 1
    ConnRecv = 4
    StreamRecv = 3
    ConnSend = 2
    StreamSend = 1
    MinRefresh = 2
    MaxWindow = 5
    MaxChunks = 1
INVARIANTS StreamsCounted NoForgottenHandler WireOrder ConnWindowNotLost GoAwayHonest WritersAnswered
CHECK_DEADLOCK FALSE
PROPERTY ErrorGoAwayEnds
