--------------------------- MODULE MissionDeletion ---------------------------
(***************************************************************************)
(* The removal of a mission, by request or by retention policy, composed   *)
(* with the stage runs, control workers and Pods of StageJobs. The         *)
(* retention worker claims a mission whose compute is quiescent, deletes   *)
(* its object prefix outside any transaction, then deletes its rows and    *)
(* writes the usage ledger in one last transaction. Ages and retry delays  *)
(* are abstracted: an eligible mission may be claimed at any later time.   *)
(***************************************************************************)
EXTENDS StageJobs

CONSTANTS
    Workers,        \* processes whose retention loops may overlap
    Expiring,       \* missions of an organization with a retention policy
    LateCancel,     \* users cancel missions whose deletion has started
    NoMission

ASSUME DeletionAssumption ==
    /\ Expiring \subseteq Missions
    /\ LateCancel \in BOOLEAN
    /\ NoMission \notin Missions

VARIABLES
    worker,     \* what each retention loop holds in memory
    objects,    \* the S3 prefix of each mission
    ledger      \* the usage event that closes each mission

deletion == <<worker, objects, ledger>>
allVars  == <<vars, deletion>>

NoCandidate == [phase |-> "idle", mission |-> NoMission, manual |-> FALSE]

WorkerState == [phase   : {"idle", "deleting", "deleted", "failing"},
                mission : Missions \cup {NoMission},
                manual  : BOOLEAN]          \* RetentionCandidate.reason

DeletionInit ==
    /\ Init
    /\ worker = [w \in Workers |-> NoCandidate]
    /\ objects = [m \in Missions |-> "stored"]
    /\ ledger = [m \in Missions |-> "open"]

-----------------------------------------------------------------------------
Manual(m) == mission[m].step \in ManualSteps

\* What the loop takes up again whether or not there is a policy.
Retryable(m) == \/ mission[m].status # "absent" /\ Manual(m)
                \/ mission[m].status \in {"deleting", "deletion_failed"}

Claimable(m) == \/ Retryable(m)
                \/ mission[m].status = "cancelled" /\ m \in Expiring

QuiescentByStatus(m) == \A r \in RunsOf(m) : run[r].status \notin ActiveStatuses

\* _compute_is_quiescent: no active run, and cleanup evidence of every run
\* that still names the Job executor.
Quiescent(m) ==
    \A r \in RunsOf(m) :
        /\ run[r].status \notin ActiveStatuses
        /\ Exists(r) /\ run[r].dispatched /\ run[r].jobName => run[r].cleaned

\* A manual request is not marked as deleting while its compute drains.
DrainMission(w, m) ==
    /\ worker[w].phase = "idle"
    /\ Claimable(m) /\ ~Quiescent(m) /\ ~Manual(m)
    /\ mission' = [mission EXCEPT ![m] = [status |-> "deleting",
                                          step |-> "RETENTION_DRAINING"]]
    /\ UNCHANGED <<run, artifacts, schedulerLock, ctl, cluster, adminRequest,
                   crashes, deletion>>

ClaimMission(w, m) ==
    /\ worker[w].phase = "idle"
    /\ Claimable(m) /\ Quiescent(m)
    /\ mission' = [mission EXCEPT ![m] =
                     [status |-> "deleting",
                      step |-> IF Manual(m) THEN "DELETION_DRAINED"
                                            ELSE "RETENTION_DELETING"]]
    /\ worker' = [worker EXCEPT ![w] = [phase |-> "deleting", mission |-> m,
                                        manual |-> Manual(m)]]
    /\ UNCHANGED <<run, artifacts, schedulerLock, ctl, cluster, adminRequest,
                   crashes, objects, ledger>>

\* delete_prefix removes batch after batch; it returns once a listing is empty.
DeleteObjects(w) ==
    /\ worker[w].phase = "deleting"
    /\ \/ /\ objects[worker[w].mission] = "stored"
          /\ objects' = [objects EXCEPT ![worker[w].mission] = "partial"]
          /\ UNCHANGED worker
       \/ /\ objects' = [objects EXCEPT ![worker[w].mission] = "deleted"]
          /\ worker' = [worker EXCEPT ![w].phase = "deleted"]
    /\ UNCHANGED <<vars, ledger>>

\* delete_prefix gives up, or the closing transaction rolls back.
DeletionRaises(w) ==
    /\ worker[w].phase \in {"deleting", "deleted"}
    /\ worker' = [worker EXCEPT ![w].phase = "failing"]
    /\ UNCHANGED <<vars, objects, ledger>>

\* What _fail_retention writes.
FailedForRetention(w) == [status |-> "deletion_failed", step |-> "RETENTION_FAILED"]
FailedQuietly(w) == [status |-> "cancelled", step |-> "RETENTION_FAILED"]
Failed(w) == [status |-> "deletion_failed",
              step |-> IF worker[w].manual THEN "MANUAL_DELETION_FAILED"
                                           ELSE "RETENTION_FAILED"]

\* _fail_retention and _complete_retention act only on a mission that is still
\* being deleted, whoever claimed it last.
FailRetention(w) ==
    LET m == worker[w].mission IN
    /\ worker[w].phase = "failing"
    /\ mission' = IF mission[m].status # "deleting" THEN mission
                  ELSE [mission EXCEPT ![m] = Failed(w)]
    /\ worker' = [worker EXCEPT ![w] = NoCandidate]
    /\ UNCHANGED <<run, artifacts, schedulerLock, ctl, cluster, adminRequest,
                   crashes, objects, ledger>>

CompleteRetention(w) ==
    LET m == worker[w].mission IN
    /\ worker[w].phase = "deleted"
    /\ IF mission[m].status # "deleting" THEN UNCHANGED <<mission, run, ledger>>
       ELSE /\ mission' = [mission EXCEPT ![m] = [status |-> "absent", step |-> "none"]]
            /\ run' = [r \in Runs |-> IF MissionOf[r] = m THEN NewRun("absent", {})
                                                          ELSE run[r]]
            /\ ledger' = [ledger EXCEPT ![m] =
                            IF worker[w].manual THEN "storage_released"
                                                ELSE "retention_deleted"]
    /\ worker' = [worker EXCEPT ![w] = NoCandidate]
    /\ UNCHANGED <<artifacts, schedulerLock, ctl, cluster, adminRequest, crashes, objects>>

WorkerCrash(w) ==
    /\ crashes < MaxCrashes
    /\ worker[w].phase # "idle"
    /\ crashes' = crashes + 1
    /\ worker' = [worker EXCEPT ![w] = NoCandidate]
    /\ UNCHANGED <<database, schedulerLock, ctl, cluster, adminRequest, objects, ledger>>

-----------------------------------------------------------------------------
WorkerStep(w) ==
    \/ \E m \in Missions : DrainMission(w, m) \/ ClaimMission(w, m)
    \/ DeleteObjects(w) \/ DeletionRaises(w)
    \/ FailRetention(w) \/ CompleteRetention(w)
    \/ WorkerCrash(w)

\* Without LateCancel no user cancels a mission once its deletion has started.
CancelAllowed ==
    LateCancel \/ \A m \in Missions :
        DeletionStarted(m) => mission'[m].step # "CANCELLATION_REQUESTED"

DeletionNext ==
    \/ Next /\ CancelAllowed /\ UNCHANGED deletion
    \/ \E w \in Workers : WorkerStep(w)

DeletionSpec == DeletionInit /\ [][DeletionNext]_allVars

\* The loop polls for ever and an object store that fails is retried until it
\* answers.
WorkerFairness ==
    \A w \in Workers :
        /\ \A m \in Missions : SF_allVars(ClaimMission(w, m))
        /\ SF_allVars(DeleteObjects(w) /\ worker'[w].phase = "deleted")
        /\ SF_allVars(CompleteRetention(w))
        /\ WF_allVars(FailRetention(w))

DeletionFairSpec ==
    /\ DeletionSpec /\ WorkerFairness
    /\ ControllerFairness /\ PodFairness /\ ClusterFairness

-----------------------------------------------------------------------------
DeletionTypeOK ==
    /\ TypeOK
    /\ worker \in [Workers -> WorkerState]
    /\ objects \in [Missions -> {"stored", "partial", "deleted"}]
    /\ ledger \in [Missions -> {"open", "storage_released", "retention_deleted"}]

\* Objects are removed only after compute has stopped: from the claim on, no
\* Pod of the mission holds a context to write with, and none ever will.
DeletionWaitsForCompute ==
    \A p \in Pods : Writing(p) =>
        LET m == MissionOf[pod[p].run] IN
        /\ objects[m] = "stored"
        /\ \A w \in Workers : worker[w].mission # m

\* A mission whose objects are touched is in a state the retention loop comes
\* back to even without a policy, so that neither a crash, nor a failure, nor a
\* second worker's failure can strand half of it.
NoStrandedMission ==
    \A m \in Missions : objects[m] # "stored" =>
        Retryable(m) \/ mission[m].status = "absent"

\* However often it fails on the way, a requested deletion is closed in the
\* ledger as storage_released, never as the retention of a mission that has no
\* policy. (A worker that dies after its claim does lose the reason.)
LedgerNamesTheReason ==
    \A m \in Missions :
        ledger[m] = "retention_deleted" => m \in Expiring \/ crashes > 0

\* A requested deletion is carried out.
RequestedDeletionCompletes ==
    \A m \in Missions :
        mission[m].step = "DELETION_REQUESTED" ~> mission[m].status = "absent"

\* A terminal mission of an organization with a retention policy is removed.
\* Not so: the cancellation leaves the stage runs as they are, and one that was
\* queued and never dispatched keeps the mission draining for ever.
RetentionCompletes ==
    \A m \in Expiring : mission[m].status = "cancelled" ~> mission[m].status = "absent"
=============================================================================
