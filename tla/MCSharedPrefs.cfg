SPECIFICATION FairSpec
CONSTANTS
    Keys = {k1, k2}
    Values = {v1, v2}
    Absent = Absent
    MaxSets = 3
INVARIANTS
    IInv
PROPERTIES
    ReadYourWrites
    WritesAreHandedOver
