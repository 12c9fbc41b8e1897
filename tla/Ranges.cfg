SPECIFICATION FairSpec
CONSTANTS
    k1 = k1  k2 = k2  k3 = k3
    Keys = {k1, k2, k3}
    Visible = {v1, v2}
    Halo = {h1}
    Zstd = {k1}
    Size <- RangeSize
    MemoryBytes = 2
    DiskSlots = 1
    NetSlots = 1
    MaxRetries = 1
INVARIANT ResourcesConserved
PROPERTY VisibleAnswered
CHECK_DEADLOCK FALSE
