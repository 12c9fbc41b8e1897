SPECIFICATION FairSpec
CONSTANTS
    Pods = {p1, p2}
    Log <- MCLog
    Services = {"A", "B"}
    ServiceOf <- MCServiceOf
    StatusOf <- MCStatusOf
    Stages <- MCStages
    StageOf <- MCStageOf
    Ending = {"b1"}
    Poison = {"bad"}
    NoEvent = NoEvent
    MaxAttempts = 2
    MaxFailures = 1
INVARIANTS AppliedOnce NothingSkipped StatusInOrder
PROPERTIES StatusSettles
CHECK_DEADLOCK FALSE
