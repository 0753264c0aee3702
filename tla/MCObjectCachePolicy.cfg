SPECIFICATION CacheSpec
CONSTANTS
    CacheKeys = {k1, k2, k3}
    CacheValues = {v1, v2}
    None = None
    MaxBucketSize = 1
    Times = {1, 2, 3}
    MaxStored = 4
PROPERTIES PurgesFirstExpiring
