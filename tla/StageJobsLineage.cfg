SPECIFICATION HistorySpec
CONSTANTS
    m1 = m1
    m2 = m2
    r1 = r1
    r2 = r2
    r3 = r3
    r4 = r4
    r5 = r5
    r6 = r6
    q1 = q1
    q2 = q2
    q3 = q3
    q4 = q4
    c1 = c1
    c2 = c2
    p1 = p1
    NoController = NoController
    NoRun = NoRun
    Missions = {m1, m2}
    Runs = {r1, r2, r3, r4, r5, r6, q1, q2, q3, q4}
    Controllers = {c1, c2}
    Pods = {p1}
    MissionOf <- OfTwoMissions
    StageOf <- Attempts
    Launched = {r1, r2, r3, r5, q1, q2, q3, q4}
    GlobalActive = 2
    PerMissionActive = 2
    MaximumDispatchAttempts = 1
    InvalidRuns = {}
    AdminRuns = {}
    Faults = {"pod_killed", "request_error", "foreground", "deadline", "ttl"}
    MaxCrashes = 0
CONSTRAINT Bounds
SYMMETRY Symmetry
INVARIANT ExactLineage ConcurrencyRespected
PROPERTY SuccessfulAttemptKept
