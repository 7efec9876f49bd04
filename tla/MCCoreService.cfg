SPECIFICATION FairSpec
CONSTANTS
    NoClient = NoClient
    c1 = c1
    c2 = c2
    Clients = {c1, c2}
    MaxCommands = 2
    PipeCapacity = 2
    UseLibevent = FALSE
    MayCrash = TRUE
INVARIANTS
    ReplyRouting
    ReplyFraming
    Inv
    ServedInOrder
    NoCommandLost
PROPERTIES
    ServiceSpec
    EveryCommandServed
    TerminatedRemoved
CHECK_DEADLOCK FALSE
