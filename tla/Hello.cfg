SPECIFICATION Spec
CONSTANTS
    None = None
    Base = 16
    Nibble = 8
    Ten = 4
    RandomLen = 2
    MaxRecord = 200
    RecordType = 6
    OtherRecords = {4, 5, 7}
    MaxHandshakeType = 15
    Alnum = {1, 2, 8}
    KeyshareGroups = {23, 24, 29}
    OwnBody = {5, 18, 23, 35}
    Profiles <- MCProfiles
    Hellos <- MCHellos
    Options <- MCOptions
    Edits <- MCEdits
INVARIANTS ParsedIsSent 
CHECK_DEADLOCK FALSE
