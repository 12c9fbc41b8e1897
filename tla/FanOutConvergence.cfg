SPECIFICATION FairSpec
CONSTANTS
    c1 = c1
    c2 = c2
    v1 = v1
    v2 = v2
    NoController = NoController
    NoResult = NoResult
    Controllers = {c1, c2}
    Rasters <- SmallRasters
    TilesPerShard = 2
    MaximumShards = 2
    Parallelism = 2
    GlobalActive = 2
    MaximumDispatchAttempts = 3
    Results = {v1, v2}
    Varying = {v2}
    Faults = {"crash", "takeover", "overrun", "request_error", "lost_create", "pod_killed", "pod_error", "varying", "ttl", "background"}
    MaxFaults = 1
PROPERTY FanOutSettles
CHECK_DEADLOCK FALSE
