SPECIFICATION FairImagesSpec
CONSTANTS
    Promises = {p1, p2, p3}
    Methods = {Image}
    Pictures = {i1}
    NoPromise = none
    MaxOps = 4
    MaxOthers = 1
INVARIANTS
    ImagesInv
    SettledByOwnCall
    UsedAsWritten
PROPERTIES
    FinishedCallSettles
CHECK_DEADLOCK FALSE
