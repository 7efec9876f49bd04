SPECIFICATION FairSpec
CONSTANTS
    MaxFiles = 11
    MaxClients = 2
    MaxCores = 2
INVARIANTS
    DescriptorsOwned
    CoresSurviveSigint
    NoCircularWait
    Inv
PROPERTIES
    ExitNoticed
    PortReleased
    ServerQuits
    ConnectionsAccepted
CHECK_DEADLOCK FALSE
