SPECIFICATION FairSpec
CONSTANTS
    NoCall = NoCall
    Threads = {t1, t2}
    Calls = {s1, s2, a1}
    SyncCalls = {s1, s2}
INVARIANTS
    IInv
    BlockedCallerHasOwner
    OwnedMeansUnsettled
PROPERTIES
    ImplementsNodeCalls
    EveryCallRuns
    SyncCallerReturns
