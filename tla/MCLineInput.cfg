SPECIFICATION FairSpec
CONSTANTS
    Programs <- AllPrograms
    CoreNames <- KnownCores
    Capacity = 4
    BufSize = 3
INVARIANTS
    LinesAsWritten
    UnderstoodAsMeant
PROPERTIES
    AllLinesRead
    StderrDrained
CHECK_DEADLOCK FALSE
