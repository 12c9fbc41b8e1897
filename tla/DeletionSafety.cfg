SPECIFICATION DeletionSpec
CONSTANTS
    m1 = m1
    r1 = r1
    c1 = c1
    p1 = p1
    p2 = p2
    w1 = w1
    w2 = w2
    NoController = NoController
    NoRun = NoRun
    NoMission = NoMission
    Missions = {m1}
    Runs = {r1}
    Controllers = {c1}
    Pods = {p1, p2}
    MissionOf <- SameMission
    StageOf <- Reconstruct
    Launched = {r1}
    GlobalActive = 1
    PerMissionActive = 1
    MaximumDispatchAttempts = 2
    InvalidRuns = {}
    AdminRuns = {r1}
    Workers = {w1, w2}
    Expiring = {m1}
    LateCancel = FALSE
    Faults = {"lost_commit", "request_error", "pod_killed", "deadline", "ttl", "foreground", "background"}
    MaxCrashes = 1
SYMMETRY Symmetry
INVARIANT DeletionWaitsForCompute NoStrandedMission OneExecution
