SPECIFICATION OutboxFairSpec
CONSTANTS
    Replicas = {p1, p2}
    Loops = {t1, t2}
    NoReplica = NoReplica
    MaxFailures = 1
    Events = {e1, e2}
    BatchSize = 2
    MaxAttempts = 2
INVARIANTS UnstoppedLoopsLead
PROPERTIES DeliversAtLeastOnce DeliverySettles LeadershipRecovers
CHECK_DEADLOCK FALSE
