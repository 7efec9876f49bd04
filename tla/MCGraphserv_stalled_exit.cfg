SPECIFICATION TwoTcpSpec
CONSTANTS
    NoClient = 0
    SessionIDs = {1, 2}
    MaxCores = 2
    MaxLines <- Twice
    PipeCapacity = 1
    Lines <- ListLines
    Requests <- NoRequests
    CoreCommandInfos <- TableInfos
    UseLibevent = FALSE
    ConnectionTypes = {}
    CoresMayFail = TRUE
INVARIANTS
    QueuedWhileWaiting
CHECK_DEADLOCK FALSE
