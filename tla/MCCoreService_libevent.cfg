SPECIFICATION FairSpec
CONSTANTS
    NoClient = NoClient
    c1 = c1
    c2 = c2
    Clients = {c1, c2}
    MaxCommands = 1
    PipeCapacity = 2
    UseLibevent = TRUE
    MayCrash = FALSE
PROPERTIES
    EveryCommandServed
CHECK_DEADLOCK FALSE
