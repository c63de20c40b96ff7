SPECIFICATION Spec
CONSTANTS
    None = None
    RequestPseudo = {":method"}
    ResponsePseudo = {":status"}
    Regular = {"a"}
    BadNames = {"A"}
    Values = {0, 1, 2, 6}
    BadValues = {1}
    StaticTable <- MCStatic
    Overhead = 1
    InitialSize = 5
    TableSizes = {0, 3, 9}
    MaxList = 4
    MaxFrag = 2
    MaxRead = 260
    High = 1024
    Requests <- MCRequests
    HeaderParams <- MCHeaderParams
    Raw <- MCRaw
    MaxBlocks = 2
    MaxFields = 2
    Fields <- MCFields
    MaxEvents = 2
INVARIANTS TablesAgree SearchSound ReadAsWritten NoFalseError
CHECK_DEADLOCK FALSE
