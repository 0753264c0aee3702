SPECIFICATION FairServiceSpec
CONSTANTS
    Streams = {c1, i1, i2}
    Images = {i1, i2}
    MaxChunks = 2
    PoolSize = 2
    PipeSize = 1
INVARIANTS
    ServiceInv
    CompleteUnlessOvertaken
PROPERTIES
    TerminalForGood
    FinishedUnlessOvertaken
    AllForwarded
CHECK_DEADLOCK FALSE
