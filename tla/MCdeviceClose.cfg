CONSTANTS
    k1 = k1  k2 = k2
    Conns = {k1}
    Protocols = {"tcp"}
    MaxChunks = 1
    Ops = {}
SPECIFICATION FairSpec
PROPERTIES
    DeviceCloseEndsClient
CHECK_DEADLOCK FALSE
