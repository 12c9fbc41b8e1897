SPECIFICATION Spec
CONSTANTS
    c1 = c1
    c2 = c2
    v1 = v1
    v2 = v2
    NoController = NoController
    NoResult = NoResult
    Controllers = {c1, c2}
    Rasters <- SmallRasters
    TilesPerShard = 2
    MaximumShards = 2
    Parallelism = 2
    GlobalActive = 2
    MaximumDispatchAttempts = 3
    Results = {v1, v2}
    Varying = {v2}
    Faults = {"takeover", "overrun", "varying", "background", "request_error"}
    MaxFaults = 2
INVARIANT PodsWithinEnvelope WholeRaster FailureHasCause CleanupCoversBothPhases
PROPERTY ReceiptsKept
CHECK_DEADLOCK FALSE
