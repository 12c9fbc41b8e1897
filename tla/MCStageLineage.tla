---------------------------- MODULE MCStageLineage ----------------------------
\* Instances of StageJobs for TLC that start in the middle of a history: one
\* mission has several attempts of a stage, another has artifacts of its own.
EXTENDS StageJobs, StageScheduler

CONSTANTS m1, m2,
          r1, r2, r3, r4, r5, r6,    \* runs of m1; r4 and r6 are retries
          q1, q2, q3, q4,            \* runs of m2
          c1, c2, p1

Symmetry == Permutations(Controllers)

OfTwoMissions == [r \in Runs |-> IF r \in {q1, q2, q3, q4} THEN m2 ELSE m1]
Attempts ==
    [r \in Runs |->
        CASE r \in {r1, q1}     -> "reconstruction"
          [] r \in {r2, q2}     -> "gaussian_training"
          [] r \in {r3, r4, q3} -> "gaussian_filtering"
          [] r \in {r5, q4}     -> "rasterization"
          [] r = r6             -> "gaussian_viewer"]

\* What was published so far, and the runs that are not over; all others are,
\* and their Jobs are gone.
Release ==
    [past |-> <<r1, r2, q1, q2, q3, q4>>,
     queued |-> {r3, r4}, blocked |-> {r5}, absent |-> {r6}]
Retry ==
    [past |-> <<r1, r2, r3, r5, q1, q2, q3, q4>>,
     queued |-> {r4}, blocked |-> {}, absent |-> {r6}]
Reservation ==
    [past |-> <<q1, q2, q3, r1, r2, r3>>,
     queued |-> {r5, r6, q4}, blocked |-> {}, absent |-> {}]

\* artifacts only grows, and none of these begins like another.
Continues(history) == IsPrefix(history.past, artifacts)

Row(history, r) ==
    LET upstream == NewestArtifacts(history.past, MissionOf[r], STAGE_DEPENDENCIES[StageOf[r]])
        over(status) == [NewRun(status, upstream) EXCEPT
                            !.dispatched = TRUE, !.jobName = TRUE, !.attempts = 1,
                            !.cleaned = TRUE]
    IN CASE r \in history.queued     -> NewRun("queued", upstream)
         [] r \in history.blocked    -> NewRun("blocked", {})
         [] r \in history.absent     -> NewRun("absent", {})
         [] r \in Range(history.past) -> over("succeeded")
         [] OTHER                    -> over("failed")

HistoryInit ==
    /\ \E history \in {Release, Retry, Reservation} :
        /\ artifacts = history.past
        /\ run = [r \in Runs |-> Row(history, r)]
    /\ mission = [m \in Missions |-> [status |-> "pending", step |-> "none"]]
    /\ schedulerLock = NoController
    /\ ctl = [c \in Controllers |-> Idle]
    /\ kjob = [r \in Runs |-> NoJob]
    /\ pod = [p \in Pods |-> NoPod]
    /\ adminRequest = [r \in Runs |-> FALSE]
    /\ crashes = 0

HistorySpec == HistoryInit /\ [][Next]_vars

\* Bounds, see the README: two workers that reserve beside each other while
\* nobody reconciles, or one that does both; the other mission stays live.
Bounds ==
    /\ ~Halted(m2)
    /\ IF Continues(Retry)
       THEN Cardinality({c \in Controllers : ctl[c].phase # "idle"}) <= 1
       ELSE \A c \in Controllers : ~Reconciling(c)
    /\ Continues(Release) => ~Exists(r6)

(* What the scheduler selects of any ready runs, in any order of age, beside *)
(* any active ones, is one of the selections of StageJobs.                   *)
AsReady(r) ==
    [id |-> r, mission |-> MissionOf[r], owner |-> "owner", stage |-> StageOf[r],
     class |-> "gpu", units |-> 1]
Envelopes ==
    [global |-> GlobalActive, per_owner |-> GlobalActive, per_mission |-> PerMissionActive,
     resource |-> <<>>, owner |-> <<>>]

Live == {r4, r5, r6, q4}

ASSUME SchedulerSelects ==
    \A active \in SUBSET Live : \A ready \in SUBSET (Live \ active) :
        \A queue \in SetToSeqs(ready) :
            LET selected == SelectStageCandidates([i \in DOMAIN queue |-> AsReady(queue[i])],
                                                  {AsReady(r) : r \in active}, Envelopes)
            IN {selected[i].id : i \in DOMAIN selected} \in Selections(active, ready)
=============================================================================
