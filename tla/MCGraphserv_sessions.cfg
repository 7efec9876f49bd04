SPECIFICATION TwoTcpSpec
CONSTANTS
    NoClient = 0
    SessionIDs = {1, 2}
    MaxCores = 2
    MaxLines <- ThriceOnce
    PipeCapacity = 1
    Lines <- SessionLines
    Requests <- NoRequests
    CoreCommandInfos <- TableInfos
    UseLibevent = FALSE
    ConnectionTypes = {}
    CoresMayFail = FALSE
INVARIANTS
    Inv
    RepliesInOrder
    OneInFlight
    LinesInv
    LinesAccountedFor
CHECK_DEADLOCK FALSE
