SPECIFICATION FairOneTcpSpec
CONSTANTS
    NoClient = 0
    SessionIDs = {1, 2}
    MaxCores = 2
    MaxLines <- OnceTwice
    PipeCapacity = 1
    Lines <- ListLines
    Requests <- GetRequests
    CoreCommandInfos <- TableInfos
    UseLibevent = FALSE
    ConnectionTypes = {"HTTP"}
    CoresMayFail = FALSE
PROPERTIES
    HTTPResponseComplete
    HTTPClosed
    AllAnswered
CHECK_DEADLOCK FALSE
