SPECIFICATION TwoAdminsSpec
CONSTANTS
    NoClient = 0
    SessionIDs = {1, 2}
    MaxCores = 4
    MaxLines <- Once
    PipeCapacity = 1
    Lines <- AdminLines
    Requests <- NoRequests
    CoreCommandInfos <- TableInfos
    UseLibevent = FALSE
    ConnectionTypes = {}
    CoresMayFail = TRUE
INVARIANTS
    RepliesRouted
    CoresInStep
    RunningNamesUnique
PROPERTIES
    LinesGoWithCores
CHECK_DEADLOCK FALSE
