SPECIFICATION FairSpec
CONSTANTS
    d1 = d1
    d2 = d2
    D1 = D1
    Threads = {t1, t2}
    Devices = {d1, d2}
    Addresses = {d1, d2, D1}
    DeviceAt <- Resolve
    Named = {d1}
    NoAddress = none
    Timeout = 1
    MaxEvents = 1
INVARIANTS
    IInv
PROPERTIES
    ProbesAreNotLost
    CancelledMeansIt
    CallsReturn
    DiscoveryEnds
CHECK_DEADLOCK FALSE
