------------------------------ MODULE StageJobs ------------------------------
(***************************************************************************)
(* Bounded Stage Jobs: the durable stage runs of a mission, the control    *)
(* workers that reserve, dispatch and reconcile them, the Kubernetes Jobs  *)
(* and Pods that execute them, and the API calls that race with all three. *)
(*                                                                         *)
(* One action is one database transaction or one Kubernetes request. Every *)
(* transaction locks the rows it decides on, so it is atomic; the program  *)
(* keeps no transaction open during a request, so everything else may run  *)
(* between the two. The cluster (Job controller, kubelet, TTL controller)  *)
(* is external and modelled from what the client and its comments expect.  *)
(***************************************************************************)
EXTENDS Integers, Sequences, FiniteSets, StageContracts

CONSTANTS
    Missions,
    Runs,               \* stage runs, of every attempt
    Controllers,        \* control-worker processes whose loops may overlap
    Pods,
    MissionOf,          \* [Runs -> Missions]
    StageOf,            \* [Runs -> STAGE_ORDER]
    Launched,           \* the runs created together with their mission
    GlobalActive, PerMissionActive,   \* SchedulingLimits
    MaximumDispatchAttempts,
    InvalidRuns,        \* runs whose fan-out plan or Job manifest is refused
    AdminRuns,          \* runs an administrator republishes by the recovery route
    Faults,             \* what the environment may do, see FaultKinds
    MaxCrashes,         \* bound on control-worker crashes
    NoController, NoRun

ActiveStatuses   == {"queued", "running"}
TerminalStatuses == {"succeeded", "failed", "cancelled"}
RunStatuses      == {"absent", "blocked"} \cup ActiveStatuses \cup TerminalStatuses

\* The mission statuses that stop compute; "absent" is a deleted row.
HaltedStatuses  == {"cancelled", "deleting", "deletion_failed"}
MissionStatuses == {"pending", "absent"} \cup HaltedStatuses
ManualSteps     == {"DELETION_REQUESTED", "MANUAL_DELETION_FAILED"}
MissionSteps    == {"none", "CANCELLATION_REQUESTED", "DELETION_DRAINED",
                    "RETENTION_DRAINING", "RETENTION_DELETING",
                    "RETENTION_FAILED"} \cup ManualSteps

FaultKinds ==
    {"lost_create",     \* a Job is created although its caller sees an error
     "lost_commit",     \* a publication commits although its caller sees an error
     "request_error",   \* a Kubernetes request fails without effect
     "pod_killed",      \* out of memory, node loss
     "deadline",        \* activeDeadlineSeconds
     "ttl",             \* ttlSecondsAfterFinished
     "foreground",      \* somebody deletes a Job, waiting for its Pods
     "background"}      \* somebody deletes a Job, orphaning its Pods

ASSUME ConstantsAssumption ==
    /\ Faults \subseteq FaultKinds
    /\ MissionOf \in [Runs -> Missions]
    /\ StageOf \in [Runs -> STAGE_ORDER]
    /\ Launched \subseteq Runs
    /\ \A r \in Launched : \A stage \in STAGE_DEPENDENCIES[StageOf[r]] :
           \E q \in Launched : MissionOf[q] = MissionOf[r] /\ StageOf[q] = stage
    /\ IsFiniteSet(Runs)
    /\ InvalidRuns \subseteq Runs /\ AdminRuns \subseteq Runs
    /\ GlobalActive \in Nat \ {0} /\ PerMissionActive \in Nat \ {0}
    /\ MaximumDispatchAttempts \in Nat \ {0}
    /\ MaxCrashes \in Nat
    /\ NoController \notin Controllers
    /\ NoRun \notin Runs

VARIABLES
    mission,        \* [status, step] of every mission row
    run,            \* every stage-run row
    artifacts,      \* the run of each artifact, in order of publication
    schedulerLock,  \* holder of the reservation advisory lock
    ctl,            \* control workers: what their loop holds in memory
    kjob,           \* the Job named after each run
    pod,
    adminRequest,   \* recovery publications that passed validation
    crashes

database == <<mission, run, artifacts>>
cluster  == <<kjob, pod>>
vars == <<mission, run, artifacts, schedulerLock, ctl, kjob, pod,
          adminRequest, crashes>>

StageRunRow ==
    [status    : RunStatuses,
     upstream  : SUBSET Nat,          \* upstream_artifact_ids
     dispatched: BOOLEAN,             \* executor = "kubernetes-job"
     jobName   : BOOLEAN,             \* job_name is set (it is a function of the run)
     attempts  : Nat,                 \* dispatch_attempts
     token     : Controllers \cup {NoController},   \* reconcile_token
     leaseLive : BOOLEAN,             \* reconcile_lease_until has not passed
     cleaned   : BOOLEAN]             \* cleanup_confirmed_at

NewRun(status, upstream) ==
    [status |-> status, upstream |-> upstream, dispatched |-> FALSE,
     jobName |-> FALSE, attempts |-> 0, token |-> NoController,
     leaseLive |-> FALSE, cleaned |-> FALSE]

ControllerPhases == {"idle", "observing", "creating", "applying",
                     "reserving", "dispatching", "recording"}
Observations == {"none", "missing", "missing_error", "error", "clean",
                 "unclean", "active", "complete", "failed", "other"}

ControllerState ==
    [phase   : ControllerPhases,
     run     : Runs \cup {NoRun},
     status  : RunStatuses,           \* snapshot of the run ...
     mstatus : MissionStatuses,       \* ... and of its mission
     attempts: Nat,
     cleanup : BOOLEAN,
     seen    : Observations,
     batch   : SUBSET Runs]           \* active set, then the Jobs to dispatch

Idle == [phase |-> "idle", run |-> NoRun, status |-> "absent",
         mstatus |-> "absent", attempts |-> 0, cleanup |-> FALSE,
         seen |-> "none", batch |-> {}]

JobStates == {"absent", "pending", "active", "complete", "failed"}
NoJob  == [state |-> "absent", deleting |-> FALSE]
NewJob == [state |-> "pending", deleting |-> FALSE]

PodPhases == {"none", "starting", "executing", "publishing", "published",
              "stopping", "failing", "done"}
NoPod == [run |-> NoRun, phase |-> "none", owned |-> FALSE]

Halted(m)   == mission[m].status \in HaltedStatuses
RunHalted(r) == Halted(MissionOf[r])
Exists(r)   == run[r].status # "absent"
RunsOf(m)   == {r \in Runs : MissionOf[r] = m}
PodsOf(r)   == {p \in Pods : pod[p].run = r}

\* A launched stage waits for the stages it depends on, launched with it.
WaitsForSelectedStage(r) == STAGE_DEPENDENCIES[StageOf[r]] # {}

InitialRun(r) ==
    NewRun(IF r \notin Launched THEN "absent"
           ELSE IF WaitsForSelectedStage(r) THEN "blocked" ELSE "queued", {})

Init ==
    /\ mission = [m \in Missions |-> [status |-> "pending", step |-> "none"]]
    /\ run = [r \in Runs |-> InitialRun(r)]
    /\ artifacts = <<>>
    /\ schedulerLock = NoController
    /\ ctl = [c \in Controllers |-> Idle]
    /\ kjob = [r \in Runs |-> NoJob]
    /\ pod = [p \in Pods |-> NoPod]
    /\ adminRequest = [r \in Runs |-> FALSE]
    /\ crashes = 0

-----------------------------------------------------------------------------
(* Artifacts and the release of dependants. *)

ArtifactsOf(arts, m, stage) ==
    {i \in DOMAIN arts : MissionOf[arts[i]] = m /\ StageOf[arts[i]] = stage}

\* The newest artifact of each of some stages of a mission.
NewestArtifacts(arts, m, stages) ==
    {i \in DOMAIN arts :
        /\ MissionOf[arts[i]] = m /\ StageOf[arts[i]] \in stages
        /\ \A j \in ArtifactsOf(arts, m, StageOf[arts[i]]) : j <= i}

ReadyForRelease(rows, arts, r) ==
    /\ rows[r].status = "blocked"
    /\ \A stage \in STAGE_DEPENDENCIES[StageOf[r]] :
           ArtifactsOf(arts, MissionOf[r], stage) # {}

\* release_ready_stage_runs: bind every ready dependant to the newest
\* artifact of each stage it depends on.
ReleaseReady(rows, arts, m) ==
    [r \in Runs |->
        IF MissionOf[r] = m /\ ReadyForRelease(rows, arts, r)
        THEN [rows[r] EXCEPT
                !.status = "queued",
                !.upstream = NewestArtifacts(arts, m, STAGE_DEPENDENCIES[StageOf[r]])]
        ELSE rows[r]]

\* The tail both publication routes share: the artifact row, the succeeded
\* run and the released dependants, in one transaction.
PublishArtifact(r) ==
    /\ artifacts' = Append(artifacts, r)
    /\ run' = ReleaseReady([run EXCEPT ![r].status = "succeeded"],
                           Append(artifacts, r), MissionOf[r])

-----------------------------------------------------------------------------
(* HTTP API. *)

CancelMission(m) ==
    /\ mission[m].status # "absent"
    /\ mission' = [mission EXCEPT ![m] = [status |-> "cancelled",
                                          step |-> "CANCELLATION_REQUESTED"]]
    /\ UNCHANGED <<run, artifacts, schedulerLock, ctl, cluster, adminRequest, crashes>>

DeletionStarted(m) ==
    \/ mission[m].step = "DELETION_REQUESTED"
    \/ mission[m].status \in {"deleting", "deletion_failed"}

\* The bulk update of the active runs.
CancelRunningRuns(m) ==
    [r \in Runs |-> IF MissionOf[r] = m /\ run[r].status = "running"
                    THEN [run[r] EXCEPT !.status = "cancelled"] ELSE run[r]]

CancelActiveRuns(m) ==
    [r \in Runs |-> IF MissionOf[r] = m /\ run[r].status \in ActiveStatuses
                    THEN [run[r] EXCEPT !.status = "cancelled"] ELSE run[r]]

DeleteMission(m) ==
    /\ mission[m].status # "absent"
    /\ ~DeletionStarted(m)
    /\ mission' = [mission EXCEPT ![m] = [status |-> "cancelled",
                                          step |-> "DELETION_REQUESTED"]]
    /\ run' = CancelActiveRuns(m)
    /\ UNCHANGED <<artifacts, schedulerLock, ctl, cluster, adminRequest, crashes>>

UpstreamOfAnyMission(r) ==
    LET deps == STAGE_DEPENDENCIES[StageOf[r]] IN
    {ids \in SUBSET DOMAIN artifacts :
        /\ \A i \in ids : StageOf[artifacts[i]] \in deps
        /\ \A stage \in deps : Cardinality({i \in ids : StageOf[artifacts[i]] = stage}) = 1}

\* A retry names one artifact of the same mission for every dependency.
UpstreamChoices(r) ==
    LET deps == STAGE_DEPENDENCIES[StageOf[r]] IN
    {ids \in SUBSET DOMAIN artifacts :
        /\ \A i \in ids : /\ MissionOf[artifacts[i]] = MissionOf[r]
                          /\ StageOf[artifacts[i]] \in deps
        /\ \A stage \in deps : Cardinality({i \in ids : StageOf[artifacts[i]] = stage}) = 1}

CreateStageRun(r) ==
    /\ r \notin Launched /\ ~Exists(r)
    /\ mission[MissionOf[r]].status = "pending"
    /\ mission[MissionOf[r]].step \notin ManualSteps
    /\ \E upstream \in UpstreamChoices(r) :
           run' = [run EXCEPT ![r] = NewRun("queued", upstream)]
    /\ UNCHANGED <<mission, artifacts, schedulerLock, ctl, cluster, adminRequest, crashes>>

\* publish_stage_artifact takes no row lock: it reads the run's status in one
\* statement and writes the artifact and the status in later ones. The mission
\* status is not read at all.
AdminValidate(r) ==
    /\ r \in AdminRuns /\ ~adminRequest[r]
    /\ run[r].status = "running"
    /\ adminRequest' = [adminRequest EXCEPT ![r] = TRUE]
    /\ UNCHANGED <<database, schedulerLock, ctl, cluster, crashes>>

\* A trigger refuses a new parent edge once the mission is being deleted.
ParentEdgeRefused(r) ==
    /\ run[r].upstream # {}
    /\ mission[MissionOf[r]].status \in {"deleting", "deletion_failed"}

AdminPublish(r) ==
    /\ adminRequest[r]
    /\ adminRequest' = [adminRequest EXCEPT ![r] = FALSE]
    /\ IF Exists(r) /\ ~ParentEdgeRefused(r)
       THEN PublishArtifact(r) ELSE UNCHANGED <<run, artifacts>>
    /\ UNCHANGED <<mission, schedulerLock, ctl, cluster, crashes>>

-----------------------------------------------------------------------------
(* Control worker: reserve under the advisory lock, then dispatch. *)

Reserved(r) == run[r].dispatched /\ run[r].status \in ActiveStatuses

Candidates == {r \in Runs : /\ run[r].status = "queued"
                            /\ ~run[r].dispatched
                            /\ run[r].attempts < MaximumDispatchAttempts
                            /\ ~RunHalted(r)}

\* What a selection may add to the active runs, one resource unit each: the
\* global and the mission envelope, and no two dependent stages of one mission.
Admissible(active, selection) ==
    LET both == active \cup selection IN
    /\ selection # {} => Cardinality(both) <= GlobalActive
    /\ \A r \in selection :
        /\ Cardinality(both \cap RunsOf(MissionOf[r])) <= PerMissionActive
        /\ \A q \in (both \cap RunsOf(MissionOf[r])) \ {r} :
               StagesAreIndependent(StageOf[r], StageOf[q])

\* The selection goes round the owners until a whole round adds nothing.
Selections(active, candidates) ==
    {s \in SUBSET candidates :
        /\ Admissible(active, s)
        /\ \A r \in candidates \ s : ~Admissible(active, s \cup {r})}

\* pg_try_advisory_xact_lock succeeds.
LockIgnored == TRUE
LockFree    == schedulerLock = NoController

ReservedRuns == {r \in Runs : Reserved(r)}

ReserveBegin(c) ==
    /\ ctl[c].phase = "idle"
    /\ LockFree
    /\ schedulerLock' = c
    /\ ctl' = [ctl EXCEPT ![c] = [Idle EXCEPT !.phase = "reserving",
                                              !.batch = ReservedRuns]]
    /\ UNCHANGED <<database, cluster, adminRequest, crashes>>

\* A detection run whose fan-out plan is refused fails before the selection, any
\* other run whose Job cannot be built fails once it is selected.
ReserveCommit(c) ==
    /\ ctl[c].phase = "reserving"
    /\ LET unplanned == {r \in Candidates \cap InvalidRuns : StageOf[r] = "detection"} IN
       \E selection \in Selections(ctl[c].batch, Candidates \ unplanned) :
        LET batch == selection \ InvalidRuns IN
        /\ run' = [r \in Runs |->
                     IF r \in unplanned \cup (selection \cap InvalidRuns)
                     THEN [run[r] EXCEPT !.status = "failed"]
                     ELSE IF r \in batch
                     THEN [run[r] EXCEPT !.dispatched = TRUE, !.jobName = TRUE,
                                         !.attempts = @ + 1]
                     ELSE run[r]]
        /\ ctl' = [ctl EXCEPT ![c] =
                     IF batch = {} THEN Idle
                     ELSE [Idle EXCEPT !.phase = "dispatching", !.batch = batch]]
    /\ schedulerLock' = NoController
    /\ UNCHANGED <<mission, artifacts, cluster, adminRequest, crashes>>

NextInBatch(c, r) ==
    LET rest == ctl[c].batch \ {r} IN
    IF rest = {} THEN Idle
    ELSE [Idle EXCEPT !.phase = "dispatching", !.batch = rest]

\* POST of a Job: a 409 that matches the reserved manifest counts as created.
JobCreated(r) ==
    kjob' = IF kjob[r].state = "absent" THEN [kjob EXCEPT ![r] = NewJob] ELSE kjob

DispatchJob(c, r) ==
    /\ ctl[c].phase = "dispatching" /\ r \in ctl[c].batch
    /\ JobCreated(r)
    /\ ctl' = [ctl EXCEPT ![c] = NextInBatch(c, r)]
    /\ UNCHANGED <<database, schedulerLock, pod, adminRequest, crashes>>

\* The request, or the GET and the comparison after a 409, raises; the Job may
\* exist all the same.
DispatchJobFails(c, r) ==
    /\ ctl[c].phase = "dispatching" /\ r \in ctl[c].batch
    /\ \/ "request_error" \in Faults /\ UNCHANGED kjob
       \/ "lost_create" \in Faults /\ JobCreated(r)
    /\ ctl' = [ctl EXCEPT ![c].phase = "recording", ![c].run = r]
    /\ UNCHANGED <<database, schedulerLock, pod, adminRequest, crashes>>

ExhaustedLate(r) == run[r].attempts > MaximumDispatchAttempts
Exhausted(r)     == run[r].attempts >= MaximumDispatchAttempts

\* _record_dispatch_error looks at nothing but the number of attempts.
RecordDispatchError(c) ==
    LET r == ctl[c].run IN
    /\ ctl[c].phase = "recording"
    /\ run' = IF ~Exists(r) THEN run
              ELSE IF Exhausted(r)
              THEN [run EXCEPT ![r].status = "failed"]
              ELSE [run EXCEPT ![r].dispatched = FALSE]
    /\ ctl' = [ctl EXCEPT ![c] = IF Exists(r) THEN NextInBatch(c, r) ELSE Idle]
    /\ UNCHANGED <<mission, artifacts, schedulerLock, cluster, adminRequest, crashes>>

-----------------------------------------------------------------------------
(* Control worker: reconcile. A short transaction leases the row and takes a
   snapshot, requests run outside it, and a second transaction applies the
   observation if neither the token nor the snapshot is out of date. *)

NeedsCleanupUnlessRunning(r) == run[r].status # "running" \/ RunHalted(r)
NeedsCleanup(r) == run[r].status \notin ActiveStatuses \/ RunHalted(r)

\* The rows the claim selects.
DueWhileActive(r) == /\ run[r].status \in ActiveStatuses
                     /\ run[r].dispatched /\ run[r].jobName /\ ~run[r].cleaned
                     /\ ~run[r].leaseLive
Due(r) == /\ Exists(r)
          /\ run[r].dispatched /\ run[r].jobName /\ ~run[r].cleaned
          /\ ~run[r].leaseLive

ReconcileClaim(c, r) ==
    /\ ctl[c].phase = "idle"
    /\ Due(r)
    /\ run' = [run EXCEPT ![r].token = c, ![r].leaseLive = TRUE]
    /\ ctl' = [ctl EXCEPT ![c] =
                 [Idle EXCEPT !.phase = "observing", !.run = r,
                              !.status = run[r].status,
                              !.mstatus = mission[MissionOf[r]].status,
                              !.attempts = run[r].attempts,
                              !.cleanup = NeedsCleanup(r)]]
    /\ UNCHANGED <<mission, artifacts, schedulerLock, cluster, adminRequest, crashes>>

Seen(c, observation) ==
    ctl' = [ctl EXCEPT ![c].phase = "applying", ![c].seen = observation]

ObserveUnchanged == UNCHANGED <<database, schedulerLock, pod, adminRequest, crashes>>

\* _observe_cleanup: absence of the Job and of all its Pods is the only
\* evidence. A Job that is still there is deleted, in the foreground and by
\* its UID, and has to be found absent by a later pass.
ObserveCleanup(c) ==
    LET r == ctl[c].run IN
    /\ ctl[c].phase = "observing" /\ ctl[c].cleanup
    /\ IF kjob[r].state = "absent"
       THEN /\ Seen(c, IF PodsOf(r) = {} THEN "clean" ELSE "unclean")
            /\ UNCHANGED kjob
       ELSE /\ Seen(c, "unclean")
            /\ kjob' = [kjob EXCEPT ![r].deleting = TRUE]
    /\ ObserveUnchanged

JobObservation(r) ==
    CASE kjob[r].state = "failed"   -> "failed"
      [] kjob[r].state = "complete" -> "complete"
      [] kjob[r].state = "active"   -> "active"
      [] OTHER                      -> "other"

\* A Job that vanished is recreated only when none of its Pods is left and
\* attempts remain.
RecreatableDespitePods(c) == ctl[c].attempts < MaximumDispatchAttempts
Recreatable(c) == /\ PodsOf(ctl[c].run) = {}
                  /\ ctl[c].attempts < MaximumDispatchAttempts

ObserveJob(c) ==
    LET r == ctl[c].run IN
    /\ ctl[c].phase = "observing" /\ ~ctl[c].cleanup
    /\ IF kjob[r].state # "absent" THEN Seen(c, JobObservation(r))
       ELSE IF Recreatable(c)
       THEN ctl' = [ctl EXCEPT ![c].phase = "creating"]
       ELSE Seen(c, "missing_error")
    /\ UNCHANGED kjob
    /\ ObserveUnchanged

ObserveFails(c) ==
    /\ "request_error" \in Faults
    /\ ctl[c].phase = "observing"
    /\ Seen(c, "error")
    /\ UNCHANGED kjob
    /\ ObserveUnchanged

RecreateJob(c) ==
    /\ ctl[c].phase = "creating"
    /\ JobCreated(ctl[c].run)
    /\ Seen(c, "missing")
    /\ ObserveUnchanged

RecreateJobFails(c) ==
    /\ ctl[c].phase = "creating"
    /\ \/ "request_error" \in Faults /\ UNCHANGED kjob
       \/ "lost_create" \in Faults /\ JobCreated(ctl[c].run)
    /\ Seen(c, "missing_error")
    /\ ObserveUnchanged

SnapshotIgnored(c) == TRUE
SnapshotHolds(c) ==
    LET r == ctl[c].run IN
    /\ run[r].status = ctl[c].status
    /\ mission[MissionOf[r]].status = ctl[c].mstatus

\* What an observation does to a row whose snapshot still holds.
AppliedTo(row, c) ==
    LET lost    == row.attempts + 1
        limit   == MaximumDispatchAttempts
        stopped == \/ row.status \in ActiveStatuses
                   \/ ctl[c].mstatus = "cancelled"
    IN CASE ctl[c].seen \in {"missing", "missing_error"} ->
              [row EXCEPT !.attempts = lost,
                          !.status = IF \/ lost > limit
                                        \/ ctl[c].seen = "missing_error" /\ lost >= limit
                                     THEN "failed" ELSE @]
         [] ctl[c].seen \in {"clean", "unclean"} ->
              [row EXCEPT !.cleaned = @ \/ ctl[c].seen = "clean",
                          !.status = IF stopped THEN "cancelled" ELSE @]
         [] ctl[c].seen \in {"failed", "complete"} -> [row EXCEPT !.status = "failed"]
         [] ctl[c].seen = "active" -> [row EXCEPT !.status = "running"]
         [] OTHER -> row

ReconcileApply(c) ==
    LET r == ctl[c].run
        released == [run[r] EXCEPT !.token = NoController, !.leaseLive = FALSE] IN
    /\ ctl[c].phase = "applying"
    /\ run' = IF ~Exists(r) \/ run[r].token # c THEN run
              ELSE IF SnapshotHolds(c) THEN [run EXCEPT ![r] = AppliedTo(released, c)]
              ELSE [run EXCEPT ![r] = released]
    /\ ctl' = [ctl EXCEPT ![c] = Idle]
    /\ UNCHANGED <<mission, artifacts, schedulerLock, cluster, adminRequest, crashes>>

\* RECONCILIATION_LEASE_SECONDS have passed.
LeaseExpires(r) ==
    /\ run[r].leaseLive
    /\ run' = [run EXCEPT ![r].leaseLive = FALSE]
    /\ UNCHANGED <<mission, artifacts, schedulerLock, ctl, cluster, adminRequest, crashes>>

\* The process dies: its memory is gone, its transaction rolls back and its
\* advisory lock is released; the leases it wrote stay.
ControllerCrash(c) ==
    /\ crashes < MaxCrashes
    /\ ctl[c].phase # "idle"
    /\ crashes' = crashes + 1
    /\ ctl' = [ctl EXCEPT ![c] = Idle]
    /\ schedulerLock' = IF schedulerLock = c THEN NoController ELSE schedulerLock
    /\ UNCHANGED <<database, cluster, adminRequest>>

-----------------------------------------------------------------------------
(* Stage executor, in a Pod of the Job. *)

MoveTo(p, phase) == pod' = [pod EXCEPT ![p].phase = phase]

\* The main process ends; a Job that still owns the Pod records the outcome
\* (backoffLimit 0, restartPolicy Never).
PodEnds(p, outcome) ==
    LET r == pod[p].run IN
    /\ MoveTo(p, "done")
    /\ kjob' = IF pod[p].owned /\ kjob[r].state = "active"
               THEN [kjob EXCEPT ![r].state = outcome] ELSE kjob

PodUnchanged == UNCHANGED <<mission, schedulerLock, ctl, adminRequest, crashes>>

LoadableAtAnyStatus(r) == Exists(r) /\ run[r].dispatched /\ ~RunHalted(r)
Loadable(r) == /\ Exists(r)
               /\ run[r].dispatched
               /\ run[r].status \in ActiveStatuses
               /\ ~RunHalted(r)

\* load_stage_execution_context: claim the run, or leave without touching it.
LoadContext(p) ==
    LET r == pod[p].run IN
    /\ pod[p].phase = "starting"
    /\ IF Loadable(r)
       THEN /\ run' = [run EXCEPT ![r].status = "running"]
            /\ MoveTo(p, "executing")
            /\ UNCHANGED kjob
       ELSE PodEnds(p, "failed") /\ UNCHANGED run
    /\ UNCHANGED artifacts
    /\ PodUnchanged

StopRequested(r) == RunHalted(r) \/ run[r].status = "cancelled"

\* The heartbeat thread cancels the run, whatever its status was. Its join is
\* bounded, so a last heartbeat may land during and after the publication.
Heartbeat(p) ==
    LET r == pod[p].run IN
    /\ pod[p].phase \in {"executing", "publishing", "published"}
    /\ Exists(r) /\ StopRequested(r)
    /\ run' = [run EXCEPT ![r].status = "cancelled"]
    /\ UNCHANGED <<artifacts, cluster>>
    /\ PodUnchanged

\* The handler returns and raise_if_cancelled takes one more heartbeat.
HandlerReturns(p) ==
    LET r == pod[p].run IN
    /\ pod[p].phase = "executing"
    /\ IF ~Exists(r) THEN MoveTo(p, "failing") /\ UNCHANGED run
       ELSE IF StopRequested(r)
       THEN MoveTo(p, "stopping") /\ run' = [run EXCEPT ![r].status = "cancelled"]
       ELSE MoveTo(p, "publishing") /\ UNCHANGED run
    /\ UNCHANGED <<artifacts, kjob>>
    /\ PodUnchanged

HandlerRaises(p) ==
    /\ pod[p].phase = "executing"
    /\ MoveTo(p, "failing")
    /\ UNCHANGED <<run, artifacts, kjob>>
    /\ PodUnchanged

\* _publish_result: the mission row, then the run row, are locked.
PublishResult(p) ==
    LET r == pod[p].run IN
    /\ pod[p].phase = "publishing"
    /\ IF Exists(r) /\ ~StopRequested(r) /\ run[r].status = "running"
       THEN /\ PublishArtifact(r)
            /\ \/ MoveTo(p, "published")
               \/ "lost_commit" \in Faults /\ MoveTo(p, "failing")
       ELSE /\ MoveTo(p, IF Exists(r) /\ StopRequested(r) THEN "stopping" ELSE "failing")
            /\ UNCHANGED <<run, artifacts>>
    /\ UNCHANGED kjob
    /\ PodUnchanged

\* The transaction rolls back: storage quota, conflicting artifact identity,
\* database error.
PublishFails(p) ==
    /\ pod[p].phase = "publishing"
    /\ MoveTo(p, "failing")
    /\ UNCHANGED <<run, artifacts, kjob>>
    /\ PodUnchanged

\* _mark_terminal: "failed" becomes "cancelled" when a stop was requested;
\* no other status of the run is looked at.
RecordTerminal(p) ==
    LET r == pod[p].run IN
    /\ pod[p].phase \in {"stopping", "failing"}
    /\ run' = IF ~Exists(r) THEN run
              ELSE [run EXCEPT ![r].status =
                      IF pod[p].phase = "stopping" \/ StopRequested(r)
                      THEN "cancelled" ELSE "failed"]
    /\ PodEnds(p, "failed")
    /\ UNCHANGED artifacts
    /\ PodUnchanged

PodSucceeds(p) ==
    /\ pod[p].phase = "published"
    /\ PodEnds(p, "complete")
    /\ UNCHANGED <<run, artifacts>>
    /\ PodUnchanged

-----------------------------------------------------------------------------
(* Cluster: external. *)

ClusterUnchanged == UNCHANGED <<database, schedulerLock, ctl, adminRequest, crashes>>

StartPod(r, p) ==
    /\ kjob[r] = NewJob
    /\ pod[p] = NoPod
    /\ kjob' = [kjob EXCEPT ![r].state = "active"]
    /\ pod' = [pod EXCEPT ![p] = [run |-> r, phase |-> "starting", owned |-> TRUE]]
    /\ ClusterUnchanged

\* Killed with its Job: deleted, past its deadline or removed; or by the node.
Doomed(p) == /\ pod[p].phase \notin {"none", "done"}
             /\ \/ ~pod[p].owned
                \/ kjob[pod[p].run].deleting
                \/ kjob[pod[p].run].state = "failed"

PodKilled(p) ==
    /\ pod[p].phase \notin {"none", "done"}
    /\ "pod_killed" \in Faults \/ Doomed(p)
    /\ PodEnds(p, "failed")
    /\ ClusterUnchanged

PodRemoved(p) ==
    /\ pod[p].phase = "done"
    /\ pod[p].owned => kjob[pod[p].run].deleting
    /\ pod' = [pod EXCEPT ![p] = NoPod]
    /\ UNCHANGED kjob
    /\ ClusterUnchanged

\* Foreground deletion ends when no owned Pod is left.
JobGone(r) ==
    /\ kjob[r].deleting
    /\ \A p \in PodsOf(r) : ~pod[p].owned
    /\ kjob' = [kjob EXCEPT ![r] = NoJob]
    /\ UNCHANGED pod
    /\ ClusterUnchanged

\* activeDeadlineSeconds: the Job fails while its Pod is still terminating.
JobDeadline(r) ==
    /\ "deadline" \in Faults
    /\ kjob[r].state \in {"pending", "active"}
    /\ kjob' = [kjob EXCEPT ![r].state = "failed"]
    /\ UNCHANGED pod
    /\ ClusterUnchanged

\* ttlSecondsAfterFinished.
JobExpires(r) ==
    /\ "ttl" \in Faults
    /\ kjob[r].state \in {"complete", "failed"} /\ ~kjob[r].deleting
    /\ kjob' = [kjob EXCEPT ![r].deleting = TRUE]
    /\ UNCHANGED pod
    /\ ClusterUnchanged

\* Somebody else deletes the Job; in the background its Pods are orphaned
\* until the garbage collector finds them.
JobRemoved(r) ==
    /\ kjob[r].state # "absent"
    /\ \/ /\ "foreground" \in Faults /\ ~kjob[r].deleting
          /\ kjob' = [kjob EXCEPT ![r].deleting = TRUE]
          /\ UNCHANGED pod
       \/ /\ "background" \in Faults
          /\ kjob' = [kjob EXCEPT ![r] = NoJob]
          /\ pod' = [p \in Pods |-> IF pod[p].run = r
                                    THEN [pod[p] EXCEPT !.owned = FALSE] ELSE pod[p]]
    /\ ClusterUnchanged

-----------------------------------------------------------------------------
ApiStep ==
    \/ \E m \in Missions : CancelMission(m) \/ DeleteMission(m)
    \/ \E r \in Runs : CreateStageRun(r) \/ AdminValidate(r) \/ AdminPublish(r)

ControllerStep(c) ==
    \/ ReserveBegin(c) \/ ReserveCommit(c)
    \/ \E r \in Runs : \/ DispatchJob(c, r) \/ DispatchJobFails(c, r)
                       \/ ReconcileClaim(c, r)
    \/ RecordDispatchError(c)
    \/ ObserveCleanup(c) \/ ObserveJob(c) \/ ObserveFails(c)
    \/ RecreateJob(c) \/ RecreateJobFails(c)
    \/ ReconcileApply(c)
    \/ ControllerCrash(c)

PodStep(p) ==
    \/ LoadContext(p) \/ Heartbeat(p)
    \/ HandlerReturns(p) \/ HandlerRaises(p)
    \/ PublishResult(p) \/ PublishFails(p)
    \/ RecordTerminal(p) \/ PodSucceeds(p)

ClusterStep ==
    \/ \E r \in Runs : \/ \E p \in Pods : StartPod(r, p)
                       \/ JobGone(r) \/ JobDeadline(r) \/ JobExpires(r)
                       \/ JobRemoved(r)
    \/ \E p \in Pods : PodKilled(p) \/ PodRemoved(p)

Next ==
    \/ ApiStep
    \/ \E c \in Controllers : ControllerStep(c)
    \/ \E r \in Runs : LeaseExpires(r)
    \/ \E p \in Pods : PodStep(p)
    \/ ClusterStep

Spec == Init /\ [][Next]_vars

\* The loop polls for ever, so a worker that is idle again and again reserves
\* and visits every row that is due; a request that fails again and again
\* succeeds at last; leases run out.
ControllerFairness ==
    /\ \A c \in Controllers :
        /\ SF_vars(ReserveBegin(c)) /\ WF_vars(ReserveCommit(c))
        /\ WF_vars(RecordDispatchError(c))
        /\ WF_vars(RecreateJob(c) \/ RecreateJobFails(c))
        /\ WF_vars(ReconcileApply(c))
        /\ \A r \in Runs :
            /\ WF_vars(DispatchJob(c, r) \/ DispatchJobFails(c, r))
            /\ SF_vars(ReconcileClaim(c, r))
            /\ SF_vars(ctl[c].run = r /\ (ObserveCleanup(c) \/ ObserveJob(c)))
    /\ \A r \in Runs : WF_vars(LeaseExpires(r))

\* A handler is bounded work under a Job deadline; an executor never waits for
\* anything but the database.
PodFairness ==
    \A p \in Pods :
        /\ WF_vars(LoadContext(p))
        /\ WF_vars(HandlerReturns(p) \/ HandlerRaises(p))
        /\ WF_vars(PublishResult(p) \/ PublishFails(p))
        /\ WF_vars(RecordTerminal(p)) /\ WF_vars(PodSucceeds(p))

\* The cluster starts the Pod of a Job when it has room and finishes a deletion
\* it accepted. Nothing obliges it to delete a Job by itself.
ClusterFairness ==
    /\ \A r \in Runs : /\ SF_vars(\E p \in Pods : StartPod(r, p))
                       /\ WF_vars(JobGone(r))
    /\ \A p \in Pods : /\ WF_vars(Doomed(p) /\ PodKilled(p))
                       /\ WF_vars(PodRemoved(p))

FairSpec == Spec /\ ControllerFairness /\ PodFairness /\ ClusterFairness

-----------------------------------------------------------------------------
TypeOK ==
    /\ mission \in [Missions -> [status : MissionStatuses, step : MissionSteps]]
    /\ run \in [Runs -> StageRunRow]
    /\ artifacts \in Seq(Runs)
    /\ schedulerLock \in Controllers \cup {NoController}
    /\ ctl \in [Controllers -> ControllerState]
    /\ kjob \in [Runs -> [state : JobStates, deleting : BOOLEAN]]
    /\ pod \in [Pods -> [run : Runs \cup {NoRun}, phase : PodPhases, owned : BOOLEAN]]
    /\ adminRequest \in [Runs -> BOOLEAN]
    /\ crashes \in 0..MaxCrashes

\* A Pod that holds a loaded context may write to the mission's object prefix.
Writing(p) == pod[p].phase \in {"executing", "publishing"}

\* No Pod can load the run's context any more.
Retired(r) == \/ run[r].status \in TerminalStatuses
              \/ mission[MissionOf[r]].status # "pending"

\* Cleanup evidence is sound: once cleanup_confirmed_at is recorded, no Pod of
\* the run holds a context and none can obtain one, however many controllers,
\* late requests and orphaned Pods there are. Retention deletes the mission's
\* objects on this evidence alone.
CleanupEvidenceSound ==
    \A r \in Runs : run[r].cleaned =>
        /\ Retired(r)
        /\ \A p \in PodsOf(r) : ~Writing(p)

Reconciling(c) == ctl[c].phase \in {"observing", "creating", "applying"}

\* What a control worker remembers of a row stays true while it is away on a
\* request: a cleanup snapshot is of a retired run, any other snapshot was of an
\* active run, and absence once seen is final.
MemorySound(c) ==
    /\ Reconciling(c) => ctl[c].run \in Runs
    /\ Reconciling(c) /\ ctl[c].cleanup => Retired(ctl[c].run)
    /\ Reconciling(c) /\ ~ctl[c].cleanup => ctl[c].status \in ActiveStatuses
    /\ ctl[c].phase = "creating" => ~ctl[c].cleanup
    /\ ctl[c].phase = "applying" /\ ctl[c].seen # "error" =>
           (ctl[c].cleanup <=> ctl[c].seen \in {"clean", "unclean"})
    /\ ctl[c].phase = "applying" /\ ctl[c].seen = "clean" =>
           \A p \in PodsOf(ctl[c].run) : ~Writing(p)

\* Cleanup evidence is sound and will stay so: the inductive form of
\* CleanupEvidenceSound, about the rows and what every control worker holds.
EvidenceInv ==
    /\ CleanupEvidenceSound
    /\ \A r \in Runs :
        /\ run[r].status \in {"absent", "blocked"} => ~run[r].dispatched
        /\ mission[MissionOf[r]].status = "absent" => ~Exists(r)
    /\ \A c \in Controllers : MemorySound(c)

\* The reserved runs never exceed the global and the mission envelope and never
\* hold two dependent stages of a mission, although each reservation decides
\* from a set it read earlier and several control workers may be reserving.
ConcurrencyRespected ==
    LET reserved == {r \in Runs : Reserved(r)} IN
    /\ Cardinality(reserved) <= GlobalActive
    /\ \A r \in reserved :
        /\ Cardinality(reserved \cap RunsOf(MissionOf[r])) <= PerMissionActive
        /\ \A q \in (reserved \cap RunsOf(MissionOf[r])) \ {r} :
               StagesAreIndependent(StageOf[r], StageOf[q])

\* At most one Pod executes a stage run at any time, across crashes, retried
\* dispatches, recreated Jobs and control workers that overlap.
OneExecution ==
    \A p, q \in Pods : Writing(p) /\ Writing(q) /\ pod[p].run = pod[q].run => p = q

\* A run is bound to exactly one artifact of each stage it depends on, all of
\* its own mission, from the moment it may be dispatched.
ExactLineage ==
    \A r \in Runs :
        run[r].status \in ActiveStatuses \cup {"succeeded"} =>
        /\ \A i \in run[r].upstream : /\ i \in DOMAIN artifacts
                                      /\ MissionOf[artifacts[i]] = MissionOf[r]
        /\ \A stage \in STAGE_DEPENDENCIES[StageOf[r]] :
               Cardinality({i \in run[r].upstream : StageOf[artifacts[i]] = stage}) = 1

\* A run that reached a terminal status is never queued or running again,
\* whichever of the API, the two controllers' observations and the executors
\* writes last. Reserving, loading and repairing all rely on it.
TerminalNeverRevives ==
    [][\A r \in Runs : run[r].status \in TerminalStatuses =>
           run'[r].status \in TerminalStatuses \cup {"absent"}]_vars

\* The status of a succeeded run changes only after its mission was halted.
SuccessfulAttemptKept ==
    [][\A r \in Runs : run[r].status = "succeeded" /\ ~RunHalted(r) =>
           run'[r].status \in {"succeeded", "absent"}]_vars

\* Heartbeats, deadlines and the reconciler converge: a run that is queued or
\* running in a live mission reaches a terminal status, or its mission is halted.
RunsSettle ==
    \A r \in Runs : run[r].status \in ActiveStatuses ~>
                        (run[r].status \in TerminalStatuses \/ RunHalted(r))

\* A halted mission's compute stops for good: every Job disappears with its
\* Pods and none comes back.
HaltedComputeStops ==
    \A r \in Runs : RunHalted(r) ~> [](kjob[r].state = "absent" /\ PodsOf(r) = {})
=============================================================================
