SPECIFICATION FairSpec
CONSTANTS
    MaxBytes = 8
    MaxString = 3
    SocketSpace = 2
INVARIANTS
    WireInOrder
    NothingDropped
PROPERTIES
    AllWritten
CHECK_DEADLOCK FALSE
