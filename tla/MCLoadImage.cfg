SPECIFICATION LSpec
CONSTANTS
    u1 = u1
    u2 = u2
    u3 = u3
    d1 = d1
    d2 = d2
    d3 = d3
    null = null
    CacheKeys = {u1, u2, u3}
    CacheValues = {d1, d2, d3, null}
    None = None
    MaxBucketSize = 1
    Times = {1, 2, 3}
    MaxStored = 2
    Views = {w1}
    Tasks = {t1, t2}
    Undecodable = null
    Drawable <- ImageAt
    Expiry = 2
    NoImage = NoImage
    Broken = Broken
SYMMETRY TaskSymmetry
INVARIANTS
    LoadInv
    HitIsGood
    ShowsWanted
