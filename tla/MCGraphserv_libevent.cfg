SPECIFICATION TwoTcpSpec
CONSTANTS
    NoClient = 0
    SessionIDs = {1, 2}
    MaxCores = 2
    MaxLines <- TwiceOnce
    PipeCapacity = 1
    Lines <- HelpLines
    Requests <- NoRequests
    CoreCommandInfos <- TableInfos
    UseLibevent = TRUE
    ConnectionTypes = {}
    CoresMayFail = FALSE
INVARIANTS
    OrderInv
    PlainInv
CHECK_DEADLOCK FALSE
