SPECIFICATION TwoTcpSpec
CONSTANTS
    NoClient = 0
    SessionIDs = {1, 2}
    MaxCores = 2
    MaxLines <- ThriceOnce
    PipeCapacity = 1
    Lines <- StalledLines
    Requests <- NoRequests
    CoreCommandInfos <- TableInfos
    UseLibevent = FALSE
    ConnectionTypes = {}
    CoresMayFail = FALSE
INVARIANTS
    QueuedWhileWaiting
CHECK_DEADLOCK FALSE
