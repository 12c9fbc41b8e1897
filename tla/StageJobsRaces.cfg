SPECIFICATION Spec
CONSTANTS
    m1 = m1
    r1 = r1
    c1 = c1
    c2 = c2
    p1 = p1
    NoController = NoController
    NoRun = NoRun
    Missions = {m1}
    Runs = {r1}
    Controllers = {c1, c2}
    Pods = {p1}
    MissionOf <- SameMission
    StageOf <- Reconstruct
    Launched = {r1}
    GlobalActive = 1
    PerMissionActive = 1
    MaximumDispatchAttempts = 2
    InvalidRuns = {}
    AdminRuns = {r1}
    Faults = {"lost_create", "lost_commit", "request_error", "pod_killed", "foreground", "background"}
    MaxCrashes = 1
SYMMETRY Symmetry
INVARIANT CleanupEvidenceSound
PROPERTY TerminalNeverRevives
