CONSTANTS
    k1 = k1  k2 = k2
    Conns = {k1}
    Protocols = {"tcp", "udp"}
    MaxChunks = 3
    Ops = {"break", "disconnect", "stop"}
SPECIFICATION FairSpec
INVARIANTS
    TypeOK
    RegistryMatchesTasks
    NothingLost
PROPERTIES
    ImplementsCircuits
    GoneIsCleared
    ForwarderEnds
CHECK_DEADLOCK FALSE
