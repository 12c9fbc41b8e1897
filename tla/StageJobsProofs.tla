--------------------------- MODULE StageJobsProofs ---------------------------
(***************************************************************************)
(* Theorems about StageJobs and MissionDeletion, for every value of their  *)
(* constants.  The first part is about the evidence of a run: its Pods,    *)
(* its artifact, its status.  The second is about the order of the runs:   *)
(* their reservation keeps the concurrency envelope, whatever the number   *)
(* of control workers that reserve, and a run is bound to exactly one      *)
(* artifact of each stage it depends on, from the transaction that queues  *)
(* it to the end.  The third is about the removal of a mission beside its  *)
(* stage runs, control workers and Pods; what it knows of dispatch also    *)
(* shows that a stage run is executed by one Pod, and stays succeeded.     *)
(***************************************************************************)
EXTENDS MissionDeletion, TLAPS, FiniteSetTheorems

\* A Pod object that exists was created for a run.
PodsHaveRuns == \A p \in Pods : pod[p].phase # "none" => pod[p].run \in Runs

TypeInv == TypeOK /\ PodsHaveRuns

\* An idle control worker's memory is well formed.
LEMMA IdleType == Idle \in ControllerState
  BY DEF Idle, ControllerState, ControllerPhases, RunStatuses, MissionStatuses, Observations

\* So is a new row.
LEMMA NewRunType ==
  ASSUME NEW status \in RunStatuses, NEW upstream \in SUBSET Nat
  PROVE  NewRun(status, upstream) \in StageRunRow
  BY DEF NewRun, StageRunRow

\* What the steps of a control worker store in its memory.
LEMMA MemoryType ==
  ASSUME NEW memory \in ControllerState
  PROVE  /\ \A phase \in ControllerPhases, batch \in SUBSET Runs :
              [memory EXCEPT !.phase = phase, !.batch = batch] \in ControllerState
         /\ \A phase \in ControllerPhases : [memory EXCEPT !.phase = phase] \in ControllerState
         /\ \A phase \in ControllerPhases, r \in Runs :
              [memory EXCEPT !.phase = phase, !.run = r] \in ControllerState
         /\ \A phase \in ControllerPhases, seen \in Observations :
              [memory EXCEPT !.phase = phase, !.seen = seen] \in ControllerState
         /\ \A r \in Runs, status \in RunStatuses, mstatus \in MissionStatuses,
              attempts \in Nat, cleanup \in BOOLEAN, phase \in ControllerPhases :
              [memory EXCEPT !.phase = phase, !.run = r, !.status = status,
                             !.mstatus = mstatus, !.attempts = attempts,
                             !.cleanup = cleanup] \in ControllerState
  BY DEF ControllerState

\* Setting the status keeps a row well formed ...
LEMMA StatusType ==
  ASSUME NEW row \in StageRunRow, NEW status \in RunStatuses
  PROVE  [row EXCEPT !.status = status] \in StageRunRow
  BY DEF StageRunRow

\* ... and so does taking or returning the reconciliation lease ...
LEMMA LeaseType ==
  ASSUME NEW row \in StageRunRow, NEW token \in Controllers \cup {NoController},
         NEW live \in BOOLEAN
  PROVE  [row EXCEPT !.token = token, !.leaseLive = live] \in StageRunRow
  BY DEF StageRunRow

\* ... or letting it run out.
LEMMA LeaseLiveType ==
  ASSUME NEW row \in StageRunRow, NEW live \in BOOLEAN
  PROVE  [row EXCEPT !.leaseLive = live] \in StageRunRow
  BY DEF StageRunRow

\* The same of the whole table.
LEMMA SetStatusType ==
  ASSUME NEW rows \in [Runs -> StageRunRow], NEW r, NEW status \in RunStatuses
  PROVE  [rows EXCEPT ![r].status = status] \in [Runs -> StageRunRow]
  BY StatusType

\* The statuses the actions write.
LEMMA StatusNames ==
  /\ "absent" \in RunStatuses /\ "blocked" \in RunStatuses
  /\ "queued" \in RunStatuses /\ "running" \in RunStatuses
  /\ "succeeded" \in RunStatuses /\ "failed" \in RunStatuses
  /\ "cancelled" \in RunStatuses
  BY DEF RunStatuses, ActiveStatuses, TerminalStatuses

\* Releasing the dependants keeps every row well formed.
LEMMA ReleaseReadyType ==
  ASSUME NEW rows \in [Runs -> StageRunRow], NEW arts \in Seq(Runs), NEW m
  PROVE  ReleaseReady(rows, arts, m) \in [Runs -> StageRunRow]
  <1>1. \A stages : NewestArtifacts(arts, m, stages) \in SUBSET Nat
    BY DEF NewestArtifacts
  <1> QED
    BY <1>1 DEF ReleaseReady, StageRunRow, RunStatuses, ActiveStatuses

\* Both publication routes keep the types.
LEMMA PublishType ==
  ASSUME TypeInv, NEW r \in Runs, PublishArtifact(r)
  PROVE  /\ artifacts' \in Seq(Runs)
         /\ run' \in [Runs -> StageRunRow]
  <1>1. artifacts' \in Seq(Runs)
    BY DEF PublishArtifact, TypeInv, TypeOK
  <1>2. [run EXCEPT ![r].status = "succeeded"] \in [Runs -> StageRunRow]
    BY SetStatusType, StatusNames DEF TypeInv, TypeOK
  <1> QED
    BY <1>1, <1>2, ReleaseReadyType DEF PublishArtifact, TypeInv, TypeOK

\* Initially every variable has its type.
LEMMA TypeInit == Init => TypeInv
  <1> SUFFICES ASSUME Init PROVE TypeInv
    OBVIOUS
  <1>1. run \in [Runs -> StageRunRow]
    BY NewRunType DEF Init, InitialRun, RunStatuses, ActiveStatuses
  <1>2. ctl \in [Controllers -> ControllerState]
    BY IdleType DEF Init
  <1> QED
    BY <1>1, <1>2, ConstantsAssumption
    DEF Init, TypeInv, TypeOK, PodsHaveRuns, MissionStatuses, MissionSteps, NoJob, JobStates,
        NoPod, PodPhases

\* The API and the environment's clock write missions, rows and artifacts only.
LEMMA ApiType ==
  ASSUME TypeInv,
         ApiStep \/ \E r \in Runs : LeaseExpires(r)
  PROVE  TypeInv'
  <1> USE DEF TypeInv, TypeOK, PodsHaveRuns
  <1>1. ASSUME NEW m \in Missions, CancelMission(m) PROVE TypeInv'
    BY <1>1 DEF CancelMission, cluster, MissionStatuses, HaltedStatuses, MissionSteps
  <1>2. ASSUME NEW m \in Missions, DeleteMission(m) PROVE TypeInv'
    <2>1. mission' \in [Missions -> [status : MissionStatuses, step : MissionSteps]]
      BY <1>2 DEF DeleteMission, MissionStatuses, HaltedStatuses, MissionSteps, ManualSteps
    <2>2. run' \in [Runs -> StageRunRow]
      BY <1>2, StatusType, StatusNames DEF DeleteMission, CancelActiveRuns
    <2> QED
      BY <1>2, <2>1, <2>2 DEF DeleteMission, cluster
  <1>3. ASSUME NEW r \in Runs, CreateStageRun(r) PROVE TypeInv'
    <2>1. PICK upstream \in UpstreamChoices(r) :
            run' = [run EXCEPT ![r] = NewRun("queued", upstream)]
      BY <1>3 DEF CreateStageRun
    <2>2. upstream \in SUBSET Nat
      BY DEF UpstreamChoices
    <2>3. run' \in [Runs -> StageRunRow]
      BY <2>1, <2>2, NewRunType, StatusNames
    <2> QED
      BY <1>3, <2>3 DEF CreateStageRun, cluster
  <1>4. ASSUME NEW r \in Runs, AdminValidate(r) PROVE TypeInv'
    BY <1>4 DEF AdminValidate, database, cluster
  <1>5. ASSUME NEW r \in Runs, AdminPublish(r) PROVE TypeInv'
    BY <1>5, PublishType DEF AdminPublish, cluster
  <1>6. ASSUME NEW r \in Runs, LeaseExpires(r) PROVE TypeInv'
    <2>1. run' \in [Runs -> StageRunRow]
      BY <1>6, LeaseLiveType DEF LeaseExpires
    <2> QED
      BY <1>6, <2>1 DEF LeaseExpires, cluster
  <1> QED
    BY <1>1, <1>2, <1>3, <1>4, <1>5, <1>6 DEF ApiStep

\* Executors and the cluster.
LEMMA PodType ==
  ASSUME TypeInv, NEW p \in Pods, PodStep(p)
  PROVE  TypeInv'
  <1> USE DEF TypeInv, TypeOK, PodsHaveRuns
  <1>1. ASSUME NEW phase \in PodPhases \ {"none"}, MoveTo(p, phase), pod[p].phase # "none"
        PROVE  /\ pod' \in [Pods -> [run : Runs \cup {NoRun}, phase : PodPhases,
                                     owned : BOOLEAN]]
               /\ PodsHaveRuns'
    BY <1>1 DEF MoveTo
  <1>2. ASSUME NEW outcome \in JobStates, PodEnds(p, outcome), pod[p].phase # "none"
        PROVE  /\ pod' \in [Pods -> [run : Runs \cup {NoRun}, phase : PodPhases,
                                     owned : BOOLEAN]]
               /\ PodsHaveRuns'
               /\ kjob' \in [Runs -> [state : JobStates, deleting : BOOLEAN]]
    <2>1. MoveTo(p, "done") /\ "done" \in PodPhases \ {"none"}
      BY <1>2 DEF PodEnds, PodPhases
    <2>2. kjob' \in [Runs -> [state : JobStates, deleting : BOOLEAN]]
      BY <1>2 DEF PodEnds
    <2> QED
      BY <1>1, <1>2, <2>1, <2>2
  <1> DEFINE Phases == {"executing", "publishing", "published", "stopping", "failing"}
  <1>3. Phases \subseteq PodPhases \ {"none"} /\ "failed" \in JobStates
            /\ "complete" \in JobStates
    BY DEF PodPhases, JobStates
  <1> HIDE DEF Phases
  <1>4. CASE LoadContext(p)
    <2>1. run' \in [Runs -> StageRunRow]
      <3>1. run' = [run EXCEPT ![pod[p].run].status = "running"] \/ run' = run
        BY <1>4 DEF LoadContext
      <3> QED
        BY <3>1, SetStatusType, StatusNames
    <2> QED
      BY <1>4, <2>1, <1>1, <1>2, <1>3 DEF LoadContext, PodUnchanged, Phases
  <1>5. CASE Heartbeat(p)
    <2>1. run' \in [Runs -> StageRunRow]
      BY <1>5, SetStatusType, StatusNames DEF Heartbeat
    <2> QED
      BY <1>5, <2>1 DEF Heartbeat, PodUnchanged, cluster
  <1>6. CASE HandlerReturns(p)
    <2>1. run' \in [Runs -> StageRunRow]
      BY <1>6, SetStatusType, StatusNames DEF HandlerReturns
    <2> QED
      BY <1>6, <2>1, <1>1, <1>3 DEF HandlerReturns, PodUnchanged, Phases
  <1>7. CASE HandlerRaises(p)
    BY <1>7, <1>1, <1>3 DEF HandlerRaises, PodUnchanged, Phases
  <1>8. CASE PublishResult(p)
    <2>1. pod[p].run \in Runs
      BY <1>8 DEF PublishResult
    <2>2. artifacts' \in Seq(Runs) /\ run' \in [Runs -> StageRunRow]
      BY <1>8, <2>1, PublishType DEF PublishResult
    <2> QED
      BY <1>8, <2>2, <1>1, <1>3 DEF PublishResult, PodUnchanged, Phases
  <1>9. CASE PublishFails(p)
    BY <1>9, <1>1, <1>3 DEF PublishFails, PodUnchanged, Phases
  <1>10. CASE RecordTerminal(p)
    <2>1. run' \in [Runs -> StageRunRow]
      BY <1>10, SetStatusType, StatusNames DEF RecordTerminal
    <2> QED
      BY <1>10, <2>1, <1>2, <1>3 DEF RecordTerminal, PodUnchanged
  <1>11. CASE PodSucceeds(p)
    BY <1>11, <1>2, <1>3 DEF PodSucceeds, PodUnchanged
  <1> QED
    BY <1>4, <1>5, <1>6, <1>7, <1>8, <1>9, <1>10, <1>11 DEF PodStep

\* The cluster keeps the types.
LEMMA ClusterType ==
  ASSUME TypeInv, ClusterStep
  PROVE  TypeInv'
  <1> USE DEF TypeInv, TypeOK, PodsHaveRuns, ClusterUnchanged, database
  <1>1. ASSUME NEW r \in Runs, NEW p \in Pods, StartPod(r, p) PROVE TypeInv'
    BY <1>1 DEF StartPod, JobStates, PodPhases
  <1>2. ASSUME NEW r \in Runs, JobGone(r) PROVE TypeInv'
    BY <1>2 DEF JobGone, NoJob, JobStates
  <1>3. ASSUME NEW r \in Runs, JobDeadline(r) PROVE TypeInv'
    BY <1>3 DEF JobDeadline, JobStates
  <1>4. ASSUME NEW r \in Runs, JobExpires(r) PROVE TypeInv'
    BY <1>4 DEF JobExpires
  <1>5. ASSUME NEW r \in Runs, JobRemoved(r) PROVE TypeInv'
    <2>1. CASE kjob' = [kjob EXCEPT ![r].deleting = TRUE] /\ UNCHANGED pod
      BY <1>5, <2>1 DEF JobRemoved
    <2>2. CASE /\ kjob' = [kjob EXCEPT ![r] = NoJob]
               /\ pod' = [p \in Pods |-> IF pod[p].run = r
                                         THEN [pod[p] EXCEPT !.owned = FALSE] ELSE pod[p]]
      <3>1. kjob' \in [Runs -> [state : JobStates, deleting : BOOLEAN]]
        BY <2>2 DEF NoJob, JobStates
      <3>2. ASSUME NEW p \in Pods
            PROVE  /\ pod'[p] \in [run : Runs \cup {NoRun}, phase : PodPhases, owned : BOOLEAN]
                   /\ pod'[p].run = pod[p].run /\ pod'[p].phase = pod[p].phase
        BY <2>2
      <3>3. pod' \in [Pods -> [run : Runs \cup {NoRun}, phase : PodPhases, owned : BOOLEAN]]
        BY <2>2, <3>2
      <3> QED
        BY <1>5, <3>1, <3>2, <3>3 DEF JobRemoved
    <2> QED
      BY <1>5, <2>1, <2>2 DEF JobRemoved
  <1>6. ASSUME NEW p \in Pods, PodKilled(p) PROVE TypeInv'
    BY <1>6 DEF PodKilled, PodEnds, MoveTo, JobStates, PodPhases
  <1>7. ASSUME NEW p \in Pods, PodRemoved(p) PROVE TypeInv'
    BY <1>7 DEF PodRemoved, NoPod, PodPhases
  <1> QED
    BY <1>1, <1>2, <1>3, <1>4, <1>5, <1>6, <1>7 DEF ClusterStep

\* Creating a Job keeps the types.
LEMMA JobCreatedType ==
  ASSUME TypeInv, NEW r, JobCreated(r)
  PROVE  kjob' \in [Runs -> [state : JobStates, deleting : BOOLEAN]]
  BY DEF TypeInv, TypeOK, JobCreated, NewJob, JobStates

\* Going on with the batch is a well-formed memory.
LEMMA NextInBatchType ==
  ASSUME TypeInv, NEW c \in Controllers, NEW r
  PROVE  NextInBatch(c, r) \in ControllerState
  <1>1. ctl[c].batch \ {r} \in SUBSET Runs
    BY DEF TypeInv, TypeOK, ControllerState
  <1>2. "dispatching" \in ControllerPhases
    BY DEF ControllerPhases
  <1> QED
    BY <1>1, <1>2, IdleType, MemoryType DEF NextInBatch

\* An observation leaves a well-formed row.
LEMMA AppliedToType ==
  ASSUME NEW row \in StageRunRow, NEW c
  PROVE  AppliedTo(row, c) \in StageRunRow
  <1>1. \A status \in RunStatuses, n \in Nat :
           [row EXCEPT !.attempts = n, !.status = status] \in StageRunRow
    BY DEF StageRunRow
  <1>2. \A status \in RunStatuses, cleaned \in BOOLEAN :
           [row EXCEPT !.cleaned = cleaned, !.status = status] \in StageRunRow
    BY DEF StageRunRow
  <1>3. /\ row.status \in RunStatuses
        /\ row.cleaned \in BOOLEAN
        /\ row.attempts + 1 \in Nat
    BY DEF StageRunRow
  <1>4. (row.cleaned \/ ctl[c].seen = "clean") \in BOOLEAN
    OBVIOUS
  <1>5. CASE ctl[c].seen \in {"missing", "missing_error"}
    BY <1>1, <1>3, <1>5, StatusNames DEF AppliedTo
  <1>6. CASE ctl[c].seen \in {"clean", "unclean"}
    BY <1>2, <1>3, <1>4, <1>6, StatusNames DEF AppliedTo
  <1>7. CASE ctl[c].seen \in {"failed", "complete", "active"}
    BY <1>7, StatusType, StatusNames DEF AppliedTo
  <1>8. CASE ctl[c].seen \notin {"missing", "missing_error", "clean", "unclean",
                                 "failed", "complete", "active"}
    BY <1>8 DEF AppliedTo
  <1> QED
    BY <1>5, <1>6, <1>7, <1>8

\* Control workers keep the types.
LEMMA ControllerType ==
  ASSUME TypeInv, NEW c \in Controllers, ControllerStep(c)
  PROVE  TypeInv'
  <1> USE DEF TypeInv, TypeOK, PodsHaveRuns
  <1>phases. /\ "idle" \in ControllerPhases /\ "observing" \in ControllerPhases
             /\ "creating" \in ControllerPhases /\ "applying" \in ControllerPhases
             /\ "reserving" \in ControllerPhases /\ "dispatching" \in ControllerPhases
             /\ "recording" \in ControllerPhases
    BY DEF ControllerPhases
  <1>ctl. ASSUME NEW memory \in ControllerState, ctl' = [ctl EXCEPT ![c] = memory]
          PROVE  ctl' \in [Controllers -> ControllerState]
    BY <1>ctl
  <1>seen. ASSUME NEW observation \in Observations, Seen(c, observation)
           PROVE  ctl' \in [Controllers -> ControllerState]
    BY <1>seen, <1>phases, MemoryType DEF Seen
  <1>observations. {"missing", "missing_error", "error", "clean", "unclean", "active",
                    "complete", "failed", "other"} \subseteq Observations
    BY DEF Observations
  <1>1. CASE ReserveBegin(c)
    BY <1>1, <1>ctl, <1>phases, IdleType, MemoryType DEF ReserveBegin, ReservedRuns, database, cluster
  <1>2. CASE ReserveCommit(c)
    <2> DEFINE unplanned == {r \in Candidates \cap InvalidRuns : StageOf[r] = "detection"}
    <2>1. PICK selection \in Selections(ctl[c].batch, Candidates \ unplanned) :
            /\ run' = [r \in Runs |->
                         IF r \in unplanned \cup (selection \cap InvalidRuns)
                         THEN [run[r] EXCEPT !.status = "failed"]
                         ELSE IF r \in selection \ InvalidRuns
                         THEN [run[r] EXCEPT !.dispatched = TRUE, !.jobName = TRUE,
                                             !.attempts = @ + 1]
                         ELSE run[r]]
            /\ ctl' = [ctl EXCEPT ![c] =
                         IF selection \ InvalidRuns = {} THEN Idle
                         ELSE [Idle EXCEPT !.phase = "dispatching",
                                           !.batch = selection \ InvalidRuns]]
      BY <1>2 DEF ReserveCommit
    <2>2. selection \ InvalidRuns \in SUBSET Runs
      BY DEF Selections, Candidates
    <2>3. ctl' \in [Controllers -> ControllerState]
      BY <2>1, <2>2, <1>phases, IdleType, MemoryType
    <2>4. \A row \in StageRunRow :
            [row EXCEPT !.dispatched = TRUE, !.jobName = TRUE, !.attempts = @ + 1] \in StageRunRow
      <3>1. \A row \in StageRunRow, n \in Nat :
              [row EXCEPT !.dispatched = TRUE, !.jobName = TRUE, !.attempts = n] \in StageRunRow
        BY DEF StageRunRow
      <3>2. \A row \in StageRunRow : row.attempts + 1 \in Nat
        BY DEF StageRunRow
      <3> QED
        BY <3>1, <3>2
    <2>5. run' \in [Runs -> StageRunRow]
      BY <2>1, <2>4, StatusType, StatusNames
    <2> QED
      BY <1>2, <2>3, <2>5 DEF ReserveCommit, cluster
  <1>3. ASSUME NEW r \in Runs, DispatchJob(c, r) PROVE TypeInv'
    BY <1>3, <1>ctl, JobCreatedType, NextInBatchType DEF DispatchJob, database
  <1>4. ASSUME NEW r \in Runs, DispatchJobFails(c, r) PROVE TypeInv'
    <2>1. kjob' \in [Runs -> [state : JobStates, deleting : BOOLEAN]]
      BY <1>4, JobCreatedType DEF DispatchJobFails
    <2>2. ctl' \in [Controllers -> ControllerState]
      BY <1>4, <1>phases, MemoryType DEF DispatchJobFails
    <2> QED
      BY <1>4, <2>1, <2>2 DEF DispatchJobFails, database
  <1>5. ASSUME NEW r \in Runs, ReconcileClaim(c, r) PROVE TypeInv'
    <2>1. run' \in [Runs -> StageRunRow]
      BY <1>5, LeaseType DEF ReconcileClaim
    <2>2. /\ run[r].status \in RunStatuses /\ run[r].attempts \in Nat
          /\ mission[MissionOf[r]].status \in MissionStatuses
          /\ NeedsCleanup(r) \in BOOLEAN
      BY ConstantsAssumption DEF StageRunRow, NeedsCleanup
    <2>3. ctl' \in [Controllers -> ControllerState]
      BY <1>5, <2>2, <1>phases, IdleType, MemoryType DEF ReconcileClaim
    <2> QED
      BY <1>5, <2>1, <2>3 DEF ReconcileClaim, cluster
  <1>6. CASE RecordDispatchError(c)
    <2>1. \A row \in StageRunRow : [row EXCEPT !.dispatched = FALSE] \in StageRunRow
      BY DEF StageRunRow
    <2>2. run' \in [Runs -> StageRunRow]
      BY <1>6, <2>1, SetStatusType, StatusNames DEF RecordDispatchError
    <2>3. ctl' \in [Controllers -> ControllerState]
      BY <1>6, IdleType, NextInBatchType DEF RecordDispatchError
    <2> QED
      BY <1>6, <2>2, <2>3 DEF RecordDispatchError, cluster
  <1>7. CASE ObserveCleanup(c)
    <2>1. kjob' \in [Runs -> [state : JobStates, deleting : BOOLEAN]]
      <3>1. kjob' = kjob \/ kjob' = [kjob EXCEPT ![ctl[c].run].deleting = TRUE]
        BY <1>7 DEF ObserveCleanup
      <3>2. \A j \in [state : JobStates, deleting : BOOLEAN] :
              [j EXCEPT !.deleting = TRUE] \in [state : JobStates, deleting : BOOLEAN]
        OBVIOUS
      <3> QED
        BY <3>1, <3>2
    <2>2. ctl' \in [Controllers -> ControllerState]
      BY <1>7, <1>seen, <1>observations DEF ObserveCleanup
    <2> QED
      BY <1>7, <2>1, <2>2 DEF ObserveCleanup, ObserveUnchanged, database
  <1>8. CASE ObserveJob(c)
    <2>1. \A r : JobObservation(r) \in Observations
      BY <1>observations DEF JobObservation
    <2>2. ctl' \in [Controllers -> ControllerState]
      <3>1. \/ Seen(c, JobObservation(ctl[c].run))
            \/ Seen(c, "missing_error")
            \/ ctl' = [ctl EXCEPT ![c].phase = "creating"]
        BY <1>8 DEF ObserveJob
      <3>2. CASE ctl' = [ctl EXCEPT ![c].phase = "creating"]
        BY <3>2, <1>phases, MemoryType
      <3> QED
        BY <3>1, <3>2, <2>1, <1>seen, <1>observations
    <2> QED
      BY <1>8, <2>2 DEF ObserveJob, ObserveUnchanged, database
  <1>9. CASE ObserveFails(c)
    BY <1>9, <1>seen, <1>observations DEF ObserveFails, ObserveUnchanged, database
  <1>10. CASE RecreateJob(c)
    BY <1>10, <1>seen, <1>observations, JobCreatedType
    DEF RecreateJob, ObserveUnchanged, database
  <1>11. CASE RecreateJobFails(c)
    <2>1. kjob' \in [Runs -> [state : JobStates, deleting : BOOLEAN]]
      BY <1>11, JobCreatedType DEF RecreateJobFails
    <2> QED
      BY <1>11, <2>1, <1>seen, <1>observations DEF RecreateJobFails, ObserveUnchanged, database
  <1>12. CASE ReconcileApply(c)
    <2> DEFINE r == ctl[c].run
               released == [run[r] EXCEPT !.token = NoController, !.leaseLive = FALSE]
    <2>1. r \in Runs => released \in StageRunRow /\ AppliedTo(released, c) \in StageRunRow
      BY LeaseType, AppliedToType
    <2>2. \/ run' = run
          \/ run' = [run EXCEPT ![r] = AppliedTo(released, c)]
          \/ run' = [run EXCEPT ![r] = released]
      BY <1>12 DEF ReconcileApply
    <2> HIDE DEF released, r
    <2>3. run' \in [Runs -> StageRunRow]
      BY <2>1, <2>2
    <2> QED
      BY <1>12, <2>3, <1>ctl, IdleType DEF ReconcileApply, cluster
  <1>13. CASE ControllerCrash(c)
    BY <1>13, <1>ctl, IdleType, ConstantsAssumption DEF ControllerCrash, database, cluster
  <1> QED
    BY <1>1, <1>2, <1>3, <1>4, <1>5, <1>6, <1>7, <1>8, <1>9, <1>10, <1>11, <1>12, <1>13
    DEF ControllerStep

\* The types are inductive.
LEMMA TypeNext == TypeInv /\ [Next]_vars => TypeInv'
  <1> SUFFICES ASSUME TypeInv, [Next]_vars PROVE TypeInv'
    OBVIOUS
  <1>1. CASE UNCHANGED vars
    BY <1>1 DEF TypeInv, TypeOK, PodsHaveRuns, vars
  <1> QED
    BY <1>1, ApiType, ControllerType, PodType, ClusterType DEF Next

\* Every variable keeps its type.
THEOREM TypeCorrect == Spec => []TypeOK
  <1>1. TypeInv => TypeOK
    BY DEF TypeInv
  <1> QED
    BY TypeInit, TypeNext, <1>1, PTL DEF Spec

-----------------------------------------------------------------------------
\* How a step may change a row. The last part says that cleanup evidence comes
\* from a control worker that saw neither the Job nor a Pod.
RowStep(r) ==
  /\ run[r].status \in TerminalStatuses => run'[r].status \in TerminalStatuses
  /\ run'[r].status \in {"absent", "blocked"} => run'[r].status = run[r].status
  /\ run'[r].status # "absent" =>
        run[r].status # "absent" \/ mission[MissionOf[r]].status = "pending"
  /\ run'[r].dispatched =>
        \/ run[r].dispatched
        \/ run'[r].status = "queued" /\ \E c \in Controllers : ReserveCommit(c)
  /\ run'[r].cleaned =>
        \/ run[r].cleaned
        \/ \E c \in Controllers : /\ ctl[c].phase = "applying" /\ ctl[c].run = r
                                 /\ ctl[c].seen = "clean"

\* A row that does not change is a legal step of it.
LEMMA RowUnchanged ==
  ASSUME NEW r \in Runs, run'[r] = run[r]
  PROVE  RowStep(r)
  BY DEF RowStep

\* Setting a status other than absent or blocked on rows that exist.
LEMMA RowStatusSet ==
  ASSUME TypeInv, NEW r \in Runs, NEW status \in TerminalStatuses \cup {"running"}, Exists(r),
         run'[r] = [run[r] EXCEPT !.status = status],
         status = "running" => run[r].status \notin TerminalStatuses
  PROVE  RowStep(r)
  BY DEF RowStep, TypeInv, TypeOK, StageRunRow, Exists, TerminalStatuses

\* A publication changes its own row and the dependants it releases.
LEMMA PublishRows ==
  ASSUME TypeInv, NEW r \in Runs, Exists(r), PublishArtifact(r), NEW q \in Runs
  PROVE  RowStep(q)
  <1> DEFINE rows == [run EXCEPT ![r].status = "succeeded"]
  <1>1. rows \in [Runs -> StageRunRow]
    BY SetStatusType, StatusNames DEF TypeInv, TypeOK
  <1>2. /\ rows[q].status = IF q = r THEN "succeeded" ELSE run[q].status
        /\ rows[q].dispatched = run[q].dispatched
        /\ rows[q].cleaned = run[q].cleaned
    BY DEF TypeInv, TypeOK, StageRunRow
  <1> HIDE DEF rows
  <1>3. \/ run'[q] = rows[q]
        \/ /\ rows[q].status = "blocked"
           /\ run'[q].status = "queued"
           /\ run'[q].dispatched = rows[q].dispatched
           /\ run'[q].cleaned = rows[q].cleaned
    <2>1. run' = ReleaseReady(rows, Append(artifacts, r), MissionOf[r])
      BY DEF PublishArtifact, rows
    <2> QED
      BY <1>1, <2>1 DEF ReleaseReady, ReadyForRelease, StageRunRow
  <1> QED
    BY <1>2, <1>3 DEF RowStep, Exists, TerminalStatuses

\* What the API does to a row.
LEMMA ApiRows ==
  ASSUME TypeInv, ApiStep \/ (\E r \in Runs : LeaseExpires(r)), NEW q \in Runs
  PROVE  RowStep(q)
  <1>1. ASSUME NEW m \in Missions, CancelMission(m) PROVE RowStep(q)
    BY <1>1, RowUnchanged DEF CancelMission
  <1>2. ASSUME NEW m \in Missions, DeleteMission(m) PROVE RowStep(q)
    <2>1. CASE MissionOf[q] = m /\ run[q].status \in ActiveStatuses
      <3>1. run'[q] = [run[q] EXCEPT !.status = "cancelled"]
        BY <1>2, <2>1 DEF DeleteMission, CancelActiveRuns
      <3> QED
        BY <2>1, <3>1, RowStatusSet DEF Exists, ActiveStatuses, TerminalStatuses
    <2>2. CASE ~(MissionOf[q] = m /\ run[q].status \in ActiveStatuses)
      BY <1>2, <2>2, RowUnchanged DEF DeleteMission, CancelActiveRuns
    <2> QED
      BY <2>1, <2>2
  <1>3. ASSUME NEW r \in Runs, CreateStageRun(r) PROVE RowStep(q)
    <2>1. PICK upstream : run' = [run EXCEPT ![r] = NewRun("queued", upstream)]
      BY <1>3 DEF CreateStageRun
    <2>2. CASE q = r
      BY <1>3, <2>1, <2>2
      DEF CreateStageRun, Exists, NewRun, RowStep, TypeInv, TypeOK, TerminalStatuses
    <2> QED
      BY <2>1, <2>2, RowUnchanged DEF TypeInv, TypeOK
  <1>4. ASSUME NEW r \in Runs, AdminValidate(r) PROVE RowStep(q)
    BY <1>4, RowUnchanged DEF AdminValidate, database
  <1>5. ASSUME NEW r \in Runs, AdminPublish(r) PROVE RowStep(q)
    BY <1>5, RowUnchanged, PublishRows DEF AdminPublish
  <1>6. ASSUME NEW r \in Runs, LeaseExpires(r) PROVE RowStep(q)
    BY <1>6 DEF LeaseExpires, RowStep, TypeInv, TypeOK, StageRunRow
  <1> QED
    BY <1>1, <1>2, <1>3, <1>4, <1>5, <1>6 DEF ApiStep

\* What an executor does to a row.
LEMMA PodRows ==
  ASSUME TypeInv, NEW p \in Pods, PodStep(p), NEW q \in Runs
  PROVE  RowStep(q)
  <1> DEFINE r == pod[p].run
  <1>1. ASSUME NEW status \in TerminalStatuses \cup {"running"}, Exists(r),
               run' = [run EXCEPT ![r].status = status],
               status = "running" => run[r].status \notin TerminalStatuses
        PROVE  RowStep(q)
    <2>1. CASE q = r
      <3>1. run'[q] = [run[q] EXCEPT !.status = status]
        BY <1>1, <2>1 DEF TypeInv, TypeOK
      <3> QED
        BY <1>1, <2>1, <3>1, RowStatusSet
    <2>2. CASE q # r
      BY <1>1, <2>2, RowUnchanged DEF TypeInv, TypeOK
    <2> QED
      BY <2>1, <2>2
  <1>2. ASSUME run' = run PROVE RowStep(q)
    BY <1>2, RowUnchanged
  <1>3. "cancelled" \in TerminalStatuses /\ "failed" \in TerminalStatuses
            /\ "running" \notin TerminalStatuses
    BY DEF TerminalStatuses
  <1>4. CASE LoadContext(p)
    BY <1>4, <1>1, <1>2 DEF LoadContext, Loadable, ActiveStatuses, TerminalStatuses
  <1>5. CASE Heartbeat(p)
    BY <1>5, <1>1, <1>3 DEF Heartbeat
  <1>6. CASE HandlerReturns(p)
    BY <1>6, <1>1, <1>2, <1>3 DEF HandlerReturns
  <1>7. CASE HandlerRaises(p)
    BY <1>7, <1>2 DEF HandlerRaises
  <1>8. CASE PublishResult(p)
    <2>1. r \in Runs
      BY <1>8 DEF PublishResult, TypeInv, PodsHaveRuns
    <2> QED
      BY <1>8, <2>1, <1>2, PublishRows DEF PublishResult
  <1>9. CASE PublishFails(p)
    BY <1>9, <1>2 DEF PublishFails
  <1>10. CASE RecordTerminal(p)
    <2>1. CASE Exists(r)
      <3>1. PICK status \in {"cancelled", "failed"} : run' = [run EXCEPT ![r].status = status]
        BY <1>10, <2>1 DEF RecordTerminal
      <3> QED
        BY <2>1, <3>1, <1>1, <1>3
    <2>2. CASE ~Exists(r)
      BY <1>10, <2>2, <1>2 DEF RecordTerminal
    <2> QED
      BY <2>1, <2>2
  <1>11. CASE PodSucceeds(p)
    BY <1>11, <1>2 DEF PodSucceeds
  <1> QED
    BY <1>4, <1>5, <1>6, <1>7, <1>8, <1>9, <1>10, <1>11 DEF PodStep

\* The one place where a row is set to running from an observation: the
\* snapshot says that it was active, and it still holds.
LEMMA ApplyRows ==
  ASSUME TypeInv, EvidenceInv, NEW c \in Controllers, ReconcileApply(c), NEW q \in Runs
  PROVE  RowStep(q)
  <1> DEFINE r == ctl[c].run
             released == [run[r] EXCEPT !.token = NoController, !.leaseLive = FALSE]
  <1>1. r \in Runs /\ run[r] \in StageRunRow
    BY DEF ReconcileApply, EvidenceInv, MemorySound, Reconciling, TypeInv, TypeOK
  <1>2. /\ released \in StageRunRow /\ released.status = run[r].status
        /\ released.dispatched = run[r].dispatched /\ released.cleaned = run[r].cleaned
    BY <1>1 DEF StageRunRow
  <1>3. \/ run' = run
        \/ run' = [run EXCEPT ![r] = released]
        \/ Exists(r) /\ SnapshotHolds(c) /\ run' = [run EXCEPT ![r] = AppliedTo(released, c)]
    BY DEF ReconcileApply
  <1> HIDE DEF released
  <1>4. CASE run' = run
    BY <1>4, RowUnchanged
  <1>5. CASE run' = [run EXCEPT ![r] = released]
    BY <1>1, <1>2, <1>5, RowUnchanged DEF RowStep, TypeInv, TypeOK
  <1>6. CASE Exists(r) /\ SnapshotHolds(c) /\ run' = [run EXCEPT ![r] = AppliedTo(released, c)]
    <2>1. CASE q # r
      BY <1>1, <1>6, <2>1, RowUnchanged DEF TypeInv, TypeOK
    <2>2. CASE q = r
      <3> DEFINE applied == AppliedTo(released, c)
      <3>1. run'[q] = applied
        BY <1>1, <1>6, <2>2 DEF TypeInv, TypeOK
      <3>2. ctl[c].seen = "active" => run[r].status \in ActiveStatuses
        BY <1>6 DEF ReconcileApply, EvidenceInv, MemorySound, Reconciling, SnapshotHolds
      <3>3. /\ applied.dispatched = released.dispatched
            /\ applied.status \in {released.status, "failed", "cancelled", "running"}
            /\ applied.status = "running" =>
                   released.status = "running" \/ ctl[c].seen = "active"
            /\ applied.cleaned => released.cleaned \/ ctl[c].seen = "clean"
        <4>1. CASE ctl[c].seen \in {"missing", "missing_error"}
          BY <1>2, <4>1 DEF AppliedTo, StageRunRow
        <4>2. CASE ctl[c].seen \in {"clean", "unclean"}
          BY <1>2, <4>2 DEF AppliedTo, StageRunRow
        <4>3. CASE ctl[c].seen \in {"failed", "complete", "active"}
          BY <1>2, <4>3 DEF AppliedTo, StageRunRow
        <4>4. CASE ctl[c].seen \notin {"missing", "missing_error", "clean", "unclean",
                                       "failed", "complete", "active"}
          BY <1>2, <4>4 DEF AppliedTo
        <4> QED
          BY <4>1, <4>2, <4>3, <4>4
      <3> HIDE DEF applied
      <3>4. ctl[c].phase = "applying"
        BY DEF ReconcileApply
      <3> QED
        BY <1>2, <1>6, <2>2, <3>1, <3>2, <3>3, <3>4
        DEF RowStep, Exists, ActiveStatuses, TerminalStatuses
    <2> QED
      BY <2>1, <2>2
  <1> QED
    BY <1>3, <1>4, <1>5, <1>6

\* What a control worker does to a row.
LEMMA ControllerRows ==
  ASSUME TypeInv, EvidenceInv, NEW c \in Controllers, ControllerStep(c), NEW q \in Runs
  PROVE  RowStep(q)
  <1>1. CASE ReserveBegin(c)
    BY <1>1, RowUnchanged DEF ReserveBegin, database
  <1>2. CASE ReserveCommit(c)
    <2>1. \/ run'[q] = run[q]
          \/ q \in Candidates /\ run'[q] = [run[q] EXCEPT !.status = "failed"]
          \/ /\ q \in Candidates
             /\ run'[q] = [run[q] EXCEPT !.dispatched = TRUE, !.jobName = TRUE, !.attempts = @ + 1]
      <3> DEFINE unplanned == {r \in Candidates \cap InvalidRuns : StageOf[r] = "detection"}
      <3>1. PICK selection \in Selections(ctl[c].batch, Candidates \ unplanned) :
            run' = [r \in Runs |->
                      IF r \in unplanned \cup (selection \cap InvalidRuns)
                      THEN [run[r] EXCEPT !.status = "failed"]
                      ELSE IF r \in selection \ InvalidRuns
                      THEN [run[r] EXCEPT !.dispatched = TRUE, !.jobName = TRUE,
                                          !.attempts = @ + 1]
                      ELSE run[r]]
        BY <1>2 DEF ReserveCommit
      <3>2. selection \subseteq Candidates
        BY DEF Selections
      <3> QED
        BY <3>1, <3>2
    <2>2. CASE run'[q] = run[q]
      BY <2>2, RowUnchanged
    <2>3. CASE q \in Candidates /\ run'[q] = [run[q] EXCEPT !.status = "failed"]
      BY <2>3, RowStatusSet DEF Candidates, Exists, TerminalStatuses
    <2>4. CASE /\ q \in Candidates
               /\ run'[q] = [run[q] EXCEPT !.dispatched = TRUE, !.jobName = TRUE, !.attempts = @ + 1]
      BY <1>2, <2>4 DEF RowStep, Candidates, TypeInv, TypeOK, StageRunRow, TerminalStatuses
    <2> QED
      BY <2>1, <2>2, <2>3, <2>4
  <1>3. ASSUME NEW r \in Runs, DispatchJob(c, r) PROVE RowStep(q)
    BY <1>3, RowUnchanged DEF DispatchJob, database
  <1>4. ASSUME NEW r \in Runs, DispatchJobFails(c, r) PROVE RowStep(q)
    BY <1>4, RowUnchanged DEF DispatchJobFails, database
  <1>5. ASSUME NEW r \in Runs, ReconcileClaim(c, r) PROVE RowStep(q)
    BY <1>5 DEF ReconcileClaim, RowStep, TypeInv, TypeOK, StageRunRow
  <1>6. CASE RecordDispatchError(c)
    <2> DEFINE r == ctl[c].run
    <2>1. \/ run' = run
          \/ Exists(r) /\ run' = [run EXCEPT ![r].status = "failed"]
          \/ run' = [run EXCEPT ![r].dispatched = FALSE]
      BY <1>6 DEF RecordDispatchError
    <2>2. CASE run' = run
      BY <2>2, RowUnchanged
    <2>3. CASE Exists(r) /\ run' = [run EXCEPT ![r].status = "failed"]
      BY <2>3 DEF RowStep, Exists, TypeInv, TypeOK, StageRunRow, TerminalStatuses
    <2>4. CASE run' = [run EXCEPT ![r].dispatched = FALSE]
      BY <2>4 DEF RowStep, TypeInv, TypeOK, StageRunRow
    <2> QED
      BY <2>1, <2>2, <2>3, <2>4
  <1>7. CASE ObserveCleanup(c) \/ ObserveJob(c) \/ ObserveFails(c)
    BY <1>7, RowUnchanged DEF ObserveCleanup, ObserveJob, ObserveFails, ObserveUnchanged, database
  <1>8. CASE RecreateJob(c) \/ RecreateJobFails(c)
    BY <1>8, RowUnchanged DEF RecreateJob, RecreateJobFails, ObserveUnchanged, database
  <1>9. CASE ReconcileApply(c)
    BY <1>9, ApplyRows
  <1>10. CASE ControllerCrash(c)
    BY <1>10, RowUnchanged DEF ControllerCrash, database
  <1> QED
    BY <1>1, <1>2, <1>3, <1>4, <1>5, <1>6, <1>7, <1>8, <1>9, <1>10 DEF ControllerStep

\* What any step does to a row.
LEMMA AllRows ==
  ASSUME TypeInv, EvidenceInv, [Next]_vars, NEW q \in Runs
  PROVE  RowStep(q)
  <1>1. CASE ClusterStep
    <2>1. run' = run
      BY <1>1 DEF ClusterStep, StartPod, PodKilled, PodRemoved, JobGone, JobDeadline,
                  JobExpires, JobRemoved, ClusterUnchanged, database
    <2> QED
      BY <2>1, RowUnchanged
  <1>2. CASE UNCHANGED vars
    BY <1>2, RowUnchanged DEF vars
  <1> QED
    BY <1>1, <1>2, ApiRows, ControllerRows, PodRows DEF Next

\* A mission never returns to pending and its row never disappears here.
LEMMA MissionStep ==
  ASSUME TypeInv, [Next]_vars, NEW m \in Missions
  PROVE  \/ mission'[m].status = mission[m].status
         \/ mission[m].status # "absent" /\ mission'[m].status = "cancelled"
  <1>1. ASSUME NEW n \in Missions, CancelMission(n) \/ DeleteMission(n)
        PROVE  \/ mission'[m].status = mission[m].status
               \/ mission[m].status # "absent" /\ mission'[m].status = "cancelled"
    BY <1>1 DEF CancelMission, DeleteMission, TypeInv, TypeOK
  <1>2. ASSUME NEW r \in Runs, CreateStageRun(r) \/ AdminValidate(r) \/ AdminPublish(r)
                              \/ LeaseExpires(r)
        PROVE  mission' = mission
    BY <1>2 DEF CreateStageRun, AdminValidate, AdminPublish, LeaseExpires, database
  <1>3. ASSUME NEW c \in Controllers, ControllerStep(c) PROVE mission' = mission
    BY <1>3 DEF ControllerStep, ReserveBegin, ReserveCommit, DispatchJob, DispatchJobFails,
                RecordDispatchError, ReconcileClaim, ObserveCleanup, ObserveJob, ObserveFails,
                RecreateJob, RecreateJobFails, ReconcileApply, ControllerCrash,
                ObserveUnchanged, database
  <1>4. ASSUME NEW p \in Pods, PodStep(p) PROVE mission' = mission
    BY <1>4 DEF PodStep, LoadContext, Heartbeat, HandlerReturns, HandlerRaises, PublishResult,
                PublishFails, RecordTerminal, PodSucceeds, PodUnchanged
  <1>5. CASE ClusterStep
    BY <1>5 DEF ClusterStep, StartPod, PodKilled, PodRemoved, JobGone, JobDeadline,
                JobExpires, JobRemoved, ClusterUnchanged, database
  <1>6. CASE UNCHANGED vars
    BY <1>6 DEF vars
  <1> QED
    BY <1>1, <1>2, <1>3, <1>4, <1>5, <1>6 DEF Next, ApiStep

\* A retired run stays retired.
LEMMA RetiredStays ==
  ASSUME TypeInv, EvidenceInv, [Next]_vars, NEW r \in Runs, Retired(r)
  PROVE  Retired(r)'
  <1>1. RowStep(r)
    BY AllRows
  <1>2. MissionOf[r] \in Missions
    BY ConstantsAssumption
  <1> QED
    BY <1>1, <1>2, MissionStep DEF Retired, RowStep

\* A Pod obtains a context only by loading it, and then from an active run of
\* a live mission.
LEMMA WritersLoad ==
  ASSUME TypeInv, [Next]_vars, NEW p \in Pods, Writing(p)'
  PROVE  /\ pod'[p].run = pod[p].run
         /\ Writing(p) \/ Loadable(pod[p].run)
  <1> USE DEF TypeInv, TypeOK, Writing
  <1>1. ASSUME NEW q \in Pods, PodStep(q)
        PROVE  pod'[p].run = pod[p].run /\ (Writing(p) \/ Loadable(pod[p].run))
    <2>1. CASE LoadContext(q)
      BY <2>1 DEF LoadContext, MoveTo, PodEnds
    <2>2. CASE Heartbeat(q)
      BY <2>2 DEF Heartbeat, cluster
    <2>3. CASE HandlerReturns(q)
      <3>1. PICK phase \in PodPhases : MoveTo(q, phase) /\ pod[q].phase = "executing"
        BY <2>3 DEF HandlerReturns, PodPhases
      <3> QED
        BY <3>1 DEF MoveTo
    <2>4. CASE HandlerRaises(q) \/ PublishFails(q)
      BY <2>4 DEF HandlerRaises, PublishFails, MoveTo
    <2>5. CASE PublishResult(q)
      <3>1. PICK phase \in {"published", "failing", "stopping"} : MoveTo(q, phase)
        BY <2>5 DEF PublishResult
      <3> QED
        BY <3>1 DEF MoveTo
    <2>6. CASE RecordTerminal(q) \/ PodSucceeds(q)
      BY <2>6 DEF RecordTerminal, PodSucceeds, PodEnds, MoveTo
    <2> QED
      BY <1>1, <2>1, <2>2, <2>3, <2>4, <2>5, <2>6 DEF PodStep
  <1>2. CASE ClusterStep
    <2>1. ASSUME NEW r \in Runs, NEW q \in Pods, StartPod(r, q)
          PROVE  pod'[p].run = pod[p].run /\ Writing(p)
      BY <2>1 DEF StartPod
    <2>2. ASSUME NEW r \in Runs, JobGone(r) \/ JobDeadline(r) \/ JobExpires(r)
          PROVE  pod'[p].run = pod[p].run /\ Writing(p)
      BY <2>2 DEF JobGone, JobDeadline, JobExpires
    <2>3. ASSUME NEW r \in Runs, JobRemoved(r)
          PROVE  pod'[p].run = pod[p].run /\ Writing(p)
      <3>1. \/ pod' = pod
            \/ pod' = [q \in Pods |-> IF pod[q].run = r
                                      THEN [pod[q] EXCEPT !.owned = FALSE] ELSE pod[q]]
        BY <2>3 DEF JobRemoved
      <3> QED
        BY <3>1
    <2>4. ASSUME NEW q \in Pods, PodKilled(q)
          PROVE  pod'[p].run = pod[p].run /\ Writing(p)
      BY <2>4 DEF PodKilled, PodEnds, MoveTo
    <2>5. ASSUME NEW q \in Pods, PodRemoved(q)
          PROVE  pod'[p].run = pod[p].run /\ Writing(p)
      BY <2>5 DEF PodRemoved, NoPod
    <2> QED
      BY <1>2, <2>1, <2>2, <2>3, <2>4, <2>5 DEF ClusterStep
  <1>3. CASE pod' = pod
    BY <1>3
  <1>4. ApiStep => pod' = pod
    BY DEF ApiStep, CancelMission, DeleteMission, CreateStageRun, AdminValidate, AdminPublish,
           cluster
  <1>5. ASSUME NEW c \in Controllers, ControllerStep(c) PROVE pod' = pod
    BY <1>5 DEF ControllerStep, ReserveBegin, ReserveCommit, DispatchJob, DispatchJobFails,
                RecordDispatchError, ReconcileClaim, ObserveCleanup, ObserveJob, ObserveFails,
                RecreateJob, RecreateJobFails, ReconcileApply, ControllerCrash,
                ObserveUnchanged, cluster
  <1>6. ASSUME NEW r \in Runs, LeaseExpires(r) PROVE pod' = pod
    BY <1>6 DEF LeaseExpires, cluster
  <1>7. UNCHANGED vars => pod' = pod
    BY DEF vars
  <1> QED
    BY <1>1, <1>2, <1>3, <1>4, <1>5, <1>6, <1>7 DEF Next

\* A retired run without a writing Pod never has one again.
LEMMA QuietStays ==
  ASSUME TypeInv, EvidenceInv, [Next]_vars, NEW r \in Runs,
         Retired(r), \A p \in PodsOf(r) : ~Writing(p)
  PROVE  (\A p \in PodsOf(r) : ~Writing(p))'
  <1> SUFFICES ASSUME NEW p \in Pods, pod'[p].run = r, Writing(p)' PROVE FALSE
    BY DEF PodsOf
  <1>1. pod[p].run = r /\ (Writing(p) \/ Loadable(r))
    BY WritersLoad
  <1>2. Loadable(r)
    BY <1>1 DEF PodsOf
  <1>3. mission[MissionOf[r]].status \in MissionStatuses
    BY ConstantsAssumption DEF TypeInv, TypeOK
  <1> QED
    BY <1>2, <1>3 DEF Loadable, Retired, Exists, RunHalted, Halted, EvidenceInv,
                      MissionStatuses, ActiveStatuses, TerminalStatuses

-----------------------------------------------------------------------------
\* What a control worker remembers survives the steps of all the others ...
LEMMA MemoryKept ==
  ASSUME TypeInv, EvidenceInv, [Next]_vars, NEW c \in Controllers, ctl'[c] = ctl[c]
  PROVE  MemorySound(c)'
  <1>1. MemorySound(c)
    BY DEF EvidenceInv
  <1>2. Reconciling(c) /\ ctl[c].cleanup => Retired(ctl[c].run)'
    BY <1>1, RetiredStays DEF MemorySound
  <1>3. ctl[c].phase = "applying" /\ ctl[c].seen = "clean" =>
          (\A p \in PodsOf(ctl[c].run) : ~Writing(p))'
    BY <1>1, QuietStays DEF MemorySound, Reconciling
  <1> QED
    BY <1>1, <1>2, <1>3 DEF MemorySound, Reconciling, Retired, PodsOf, Writing

\* ... and its own.
LEMMA MemoryStep ==
  ASSUME TypeInv, EvidenceInv, [Next]_vars, NEW c \in Controllers, ControllerStep(c)
  PROVE  MemorySound(c)'
  <1>0. /\ ctl \in [Controllers -> ControllerState]
        /\ MemorySound(c)
    BY DEF EvidenceInv, TypeInv, TypeOK
  <1>1. ASSUME ctl'[c].phase \notin {"observing", "creating", "applying"} PROVE MemorySound(c)'
    BY <1>1 DEF MemorySound, Reconciling
  <1>2. ASSUME NEW seen \in Observations, Seen(c, seen), Reconciling(c),
               seen # "error" => (ctl[c].cleanup <=> seen \in {"clean", "unclean"}),
               seen = "clean" => PodsOf(ctl[c].run) = {} /\ UNCHANGED pod
        PROVE  MemorySound(c)'
    <2>1. ctl'[c] = [ctl[c] EXCEPT !.phase = "applying", !.seen = seen]
      BY <1>0, <1>2 DEF Seen
    <2>2. /\ ctl'[c].phase = "applying" /\ ctl'[c].seen = seen
          /\ ctl'[c].run = ctl[c].run /\ ctl'[c].cleanup = ctl[c].cleanup
          /\ ctl'[c].status = ctl[c].status
      BY <1>0, <2>1 DEF ControllerState
    <2>3. PICK r \in Runs : ctl[c].run = r
      BY <1>0, <1>2 DEF MemorySound
    <2>4. ctl[c].cleanup => Retired(r)'
      BY <1>0, <1>2, <2>3, RetiredStays DEF MemorySound
    <2>5. seen = "clean" => (\A p \in PodsOf(r) : ~Writing(p))'
      BY <1>2, <2>3 DEF PodsOf
    <2> QED
      BY <1>0, <1>2, <2>2, <2>3, <2>4, <2>5 DEF MemorySound, Reconciling, Retired, PodsOf, Writing
  <1>idle. Idle.phase = "idle" /\ \A batch : \A phase \in {"reserving", "dispatching"} :
             [Idle EXCEPT !.phase = phase, !.batch = batch].phase = phase
    BY DEF Idle
  <1>batch. \A r : NextInBatch(c, r).phase \in {"idle", "dispatching"}
    BY <1>idle DEF NextInBatch
  <1>3. CASE ReserveBegin(c)
    BY <1>0, <1>1, <1>3, <1>idle DEF ReserveBegin
  <1>4. CASE ReserveCommit(c)
    <2>1. \/ ctl' = [ctl EXCEPT ![c] = Idle]
          \/ \E batch : ctl' = [ctl EXCEPT ![c] = [Idle EXCEPT !.phase = "dispatching",
                                                             !.batch = batch]]
      BY <1>4 DEF ReserveCommit
    <2> QED
      BY <1>0, <1>1, <1>idle, <2>1
  <1>5. ASSUME NEW r \in Runs, DispatchJob(c, r) PROVE MemorySound(c)'
    BY <1>0, <1>1, <1>5, <1>batch DEF DispatchJob
  <1>6. ASSUME NEW r \in Runs, DispatchJobFails(c, r) PROVE MemorySound(c)'
    BY <1>0, <1>1, <1>6 DEF DispatchJobFails, ControllerState
  <1>7. CASE RecordDispatchError(c)
    BY <1>0, <1>1, <1>7, <1>batch, <1>idle DEF RecordDispatchError
  <1>8. ASSUME NEW r \in Runs, ReconcileClaim(c, r) PROVE MemorySound(c)'
    <2>1. /\ ctl'[c].phase = "observing" /\ ctl'[c].run = r
          /\ ctl'[c].cleanup = NeedsCleanup(r) /\ ctl'[c].status = run[r].status
      BY <1>0, <1>8 DEF ReconcileClaim, Idle
    <2>2. run[r].status \notin {"absent", "blocked"} /\ run[r].status \in RunStatuses
      BY <1>8 DEF ReconcileClaim, Due, EvidenceInv, TypeInv, TypeOK, StageRunRow
    <2>3. NeedsCleanup(r) => Retired(r)
      BY <2>2 DEF NeedsCleanup, Retired, RunHalted, Halted, HaltedStatuses, RunStatuses
    <2>4. NeedsCleanup(r) => Retired(r)'
      BY <2>3, RetiredStays
    <2>5. ~NeedsCleanup(r) => run[r].status \in ActiveStatuses
      BY DEF NeedsCleanup
    <2> QED
      BY <2>1, <2>4, <2>5 DEF MemorySound, Reconciling, Retired
  <1>9. CASE ObserveCleanup(c)
    <2>1. PICK seen \in {"clean", "unclean"} :
             Seen(c, seen) /\ (seen = "clean" => PodsOf(ctl[c].run) = {})
      BY <1>9 DEF ObserveCleanup
    <2> QED
      BY <1>2, <1>9, <2>1 DEF ObserveCleanup, Reconciling, ObserveUnchanged, Observations
  <1>10. CASE ObserveJob(c)
    <2>1. JobObservation(ctl[c].run) \in {"failed", "complete", "active", "other"}
      BY DEF JobObservation
    <2>2. CASE \E seen \in {"failed", "complete", "active", "other", "missing_error"} :
                 Seen(c, seen)
      BY <1>2, <1>10, <2>2 DEF ObserveJob, Reconciling, Observations
    <2>3. CASE ctl' = [ctl EXCEPT ![c].phase = "creating"]
      <3>1. /\ ctl'[c].phase = "creating" /\ ctl'[c].run = ctl[c].run
            /\ ctl'[c].cleanup = ctl[c].cleanup /\ ctl'[c].status = ctl[c].status
        BY <1>0, <2>3 DEF ControllerState
      <3> QED
        BY <1>0, <1>10, <3>1 DEF ObserveJob, MemorySound, Reconciling
    <2> QED
      BY <1>10, <2>1, <2>2, <2>3 DEF ObserveJob
  <1>11. CASE ObserveFails(c)
    BY <1>2, <1>11 DEF ObserveFails, Reconciling, Observations
  <1>12. CASE RecreateJob(c) \/ RecreateJobFails(c)
    <2>1. PICK seen \in {"missing", "missing_error"} : Seen(c, seen)
      BY <1>12 DEF RecreateJob, RecreateJobFails
    <2>2. ctl[c].phase = "creating" /\ ~ctl[c].cleanup
      BY <1>0, <1>12 DEF RecreateJob, RecreateJobFails, MemorySound
    <2> QED
      BY <1>2, <2>1, <2>2 DEF Reconciling, Observations
  <1>13. CASE ReconcileApply(c) \/ ControllerCrash(c)
    BY <1>0, <1>1, <1>13, <1>idle DEF ReconcileApply, ControllerCrash
  <1> QED
    BY <1>3, <1>4, <1>5, <1>6, <1>7, <1>8, <1>9, <1>10, <1>11, <1>12, <1>13 DEF ControllerStep

\* A step that is not a step of a control worker leaves its memory alone.
LEMMA MemoryOwned ==
  ASSUME TypeInv, [Next]_vars, NEW c \in Controllers
  PROVE  ctl'[c] = ctl[c] \/ ControllerStep(c)
  <1>1. ASSUME NEW d \in Controllers, ControllerStep(d), d # c PROVE ctl'[c] = ctl[c]
    BY <1>1 DEF TypeInv, TypeOK, ControllerStep, ReserveBegin, ReserveCommit, DispatchJob,
                DispatchJobFails, RecordDispatchError, ReconcileClaim, ObserveCleanup,
                ObserveJob, ObserveFails, RecreateJob, RecreateJobFails, ReconcileApply,
                ControllerCrash, Seen
  <1>2. ApiStep \/ (\E r \in Runs : LeaseExpires(r)) => ctl' = ctl
    BY DEF ApiStep, CancelMission, DeleteMission, CreateStageRun, AdminValidate, AdminPublish,
           LeaseExpires
  <1>3. ASSUME NEW p \in Pods, PodStep(p) PROVE ctl' = ctl
    BY <1>3 DEF PodStep, LoadContext, Heartbeat, HandlerReturns, HandlerRaises, PublishResult,
                PublishFails, RecordTerminal, PodSucceeds, PodUnchanged
  <1>4. ClusterStep => ctl' = ctl
    BY DEF ClusterStep, StartPod, PodKilled, PodRemoved, JobGone, JobDeadline, JobExpires,
           JobRemoved, ClusterUnchanged
  <1>5. UNCHANGED vars => ctl' = ctl
    BY DEF vars
  <1> QED
    BY <1>1, <1>2, <1>3, <1>4, <1>5 DEF Next

\* Initially there is no evidence.
LEMMA EvidenceInit == Init => EvidenceInv
  <1> SUFFICES ASSUME Init PROVE EvidenceInv
    OBVIOUS
  <1>1. \A r \in Runs : ~run[r].cleaned /\ ~run[r].dispatched
    BY DEF Init, InitialRun, NewRun
  <1>2. \A r \in Runs : mission[MissionOf[r]].status = "pending"
    BY ConstantsAssumption DEF Init
  <1>3. \A c \in Controllers : ctl[c].phase = "idle"
    BY DEF Init, Idle
  <1> QED
    BY <1>1, <1>2, <1>3 DEF EvidenceInv, CleanupEvidenceSound, MemorySound, Reconciling

\* The evidence invariant is inductive.
LEMMA EvidenceNext == TypeInv /\ EvidenceInv /\ [Next]_vars => EvidenceInv'
  <1> SUFFICES ASSUME TypeInv, EvidenceInv, [Next]_vars PROVE EvidenceInv'
    OBVIOUS
  <1>1. CleanupEvidenceSound'
    <2> SUFFICES ASSUME NEW r \in Runs, run'[r].cleaned
                 PROVE  /\ Retired(r)'
                        /\ (\A p \in PodsOf(r) : ~Writing(p))'
      BY DEF CleanupEvidenceSound
    <2>1. Retired(r) /\ \A p \in PodsOf(r) : ~Writing(p)
      <3>1. CASE run[r].cleaned
        BY <3>1 DEF EvidenceInv, CleanupEvidenceSound
      <3>2. CASE \E c \in Controllers : /\ ctl[c].phase = "applying" /\ ctl[c].run = r
                                        /\ ctl[c].seen = "clean"
        BY <3>2 DEF EvidenceInv, MemorySound, Reconciling
      <3> QED
        BY <3>1, <3>2, AllRows DEF RowStep
    <2> QED
      BY <2>1, RetiredStays, QuietStays
  <1>2. ASSUME NEW r \in Runs
        PROVE  /\ run'[r].status \in {"absent", "blocked"} => ~run'[r].dispatched
               /\ mission'[MissionOf[r]].status = "absent" => run'[r].status = "absent"
    <2>1. RowStep(r)
      BY AllRows
    <2>2. \/ mission'[MissionOf[r]].status = mission[MissionOf[r]].status
          \/ /\ mission[MissionOf[r]].status # "absent"
             /\ mission'[MissionOf[r]].status = "cancelled"
      BY MissionStep, ConstantsAssumption
    <2> QED
      BY <2>1, <2>2 DEF RowStep, EvidenceInv, Exists
  <1>3. \A c \in Controllers : MemorySound(c)'
    BY MemoryOwned, MemoryKept, MemoryStep
  <1> QED
    BY <1>1, <1>2, <1>3 DEF EvidenceInv, Exists

\* Both invariants hold throughout.
LEMMA Invariance == Spec => [](TypeInv /\ EvidenceInv)
  BY TypeInit, TypeNext, EvidenceInit, EvidenceNext, PTL DEF Spec

\* Whatever the numbers of runs, control workers, Pods and crashes, recorded
\* cleanup evidence means that the run's compute has stopped for good. The
\* invariant behind it also covers what the control workers hold in memory.
THEOREM EvidenceCorrect == Spec => []EvidenceInv /\ []CleanupEvidenceSound
  <1>1. EvidenceInv => CleanupEvidenceSound
    BY DEF EvidenceInv
  <1> QED
    BY Invariance, <1>1, PTL

\* No step of anybody takes a run back from a terminal status.
THEOREM TerminalCorrect == Spec => TerminalNeverRevives
  <1>1. TypeInv /\ EvidenceInv /\ [Next]_vars =>
          [\A r \in Runs : run[r].status \in TerminalStatuses =>
             run'[r].status \in TerminalStatuses \cup {"absent"}]_vars
    BY AllRows DEF RowStep
  <1> QED
    BY Invariance, <1>1, PTL DEF Spec, TerminalNeverRevives

-----------------------------------------------------------------------------
(* The reservation. *)

\* Who reserves holds the advisory lock, and the set it decides from is still
\* an upper bound of what is reserved.
LockInv ==
    \A c \in Controllers : ctl[c].phase = "reserving" =>
        /\ schedulerLock = c
        /\ ReservedRuns \subseteq ctl[c].batch

ReservationInv == LockInv /\ ConcurrencyRespected

\* The envelope of any set of runs is inherited by its subsets.
Envelope(set) ==
    /\ Cardinality(set) <= GlobalActive
    /\ \A r \in set :
        /\ Cardinality(set \cap RunsOf(MissionOf[r])) <= PerMissionActive
        /\ \A q \in (set \cap RunsOf(MissionOf[r])) \ {r} :
               StagesAreIndependent(StageOf[r], StageOf[q])

\* Fewer runs have a smaller cardinality; Runs is finite.
LEMMA SmallerSet ==
  ASSUME NEW S, NEW T, S \subseteq T, T \subseteq Runs
  PROVE  /\ Cardinality(S) <= Cardinality(T)
         /\ Cardinality(S) \in Nat /\ Cardinality(T) \in Nat
  <1>1. IsFiniteSet(T)
    BY FS_Subset, ConstantsAssumption
  <1> QED
    BY <1>1, FS_Subset, FS_CardinalityType

\* The envelope is closed under subsets.
LEMMA SmallerEnvelope ==
  ASSUME NEW S, NEW T, S \subseteq T, T \subseteq Runs, Envelope(T)
  PROVE  Envelope(S)
  <1>1. Cardinality(S) <= GlobalActive
    BY SmallerSet, ConstantsAssumption DEF Envelope
  <1>2. ASSUME NEW r \in S
        PROVE  Cardinality(S \cap RunsOf(MissionOf[r])) <= PerMissionActive
    <2>1. Cardinality(T \cap RunsOf(MissionOf[r])) <= PerMissionActive
      BY DEF Envelope
    <2>2. /\ Cardinality(S \cap RunsOf(MissionOf[r])) <= Cardinality(T \cap RunsOf(MissionOf[r]))
          /\ Cardinality(S \cap RunsOf(MissionOf[r])) \in Nat
          /\ Cardinality(T \cap RunsOf(MissionOf[r])) \in Nat
      BY SmallerSet, S \cap RunsOf(MissionOf[r]) \subseteq T \cap RunsOf(MissionOf[r]),
         T \cap RunsOf(MissionOf[r]) \subseteq Runs
    <2> QED
      BY <2>1, <2>2, ConstantsAssumption
  <1> QED
    BY <1>1, <1>2 DEF Envelope

\* Adding an admissible selection to a set that respects the envelope: the
\* selection is checked against a superset, so the sum respects it too.
LEMMA AdmissibleEnvelope ==
  ASSUME NEW reserved, NEW active \in SUBSET Runs, NEW selection \in SUBSET Runs,
         reserved \subseteq active, Envelope(reserved), Admissible(active, selection)
  PROVE  Envelope(reserved \cup selection)
  <1> DEFINE sum  == reserved \cup selection
             both == active \cup selection
  <1>0. sum \subseteq both /\ both \subseteq Runs
    OBVIOUS
  <1>1. CASE selection = {}
    <2>1. sum = reserved
      BY <1>1
    <2> QED
      BY <2>1
  <1>2. CASE selection # {}
    <2>1. Cardinality(sum) <= GlobalActive
      BY <1>0, <1>2, SmallerSet, ConstantsAssumption DEF Admissible
    <2>2. ASSUME NEW r \in sum
          PROVE  Cardinality(sum \cap RunsOf(MissionOf[r])) <= PerMissionActive
      <3> DEFINE own == RunsOf(MissionOf[r])
      <3>1. CASE \E q \in selection : MissionOf[q] = MissionOf[r]
        <4>1. Cardinality(both \cap own) <= PerMissionActive
          BY <3>1 DEF Admissible
        <4>2. /\ Cardinality(sum \cap own) <= Cardinality(both \cap own)
              /\ Cardinality(sum \cap own) \in Nat /\ Cardinality(both \cap own) \in Nat
          BY <1>0, SmallerSet, sum \cap own \subseteq both \cap own, both \cap own \subseteq Runs
        <4> QED
          BY <4>1, <4>2, ConstantsAssumption
      <3>2. CASE \A q \in selection : MissionOf[q] # MissionOf[r]
        <4>1. sum \cap own = reserved \cap own
          BY <3>2 DEF RunsOf
        <4>2. r \in reserved
          BY <3>2
        <4> QED
          BY <4>1, <4>2 DEF Envelope
      <3> QED
        BY <3>1, <3>2
    <2>3. ASSUME NEW r \in sum, NEW q \in (sum \cap RunsOf(MissionOf[r])) \ {r}
          PROVE  StagesAreIndependent(StageOf[r], StageOf[q])
      <3>1. CASE r \in selection
        BY <1>0, <3>1 DEF Admissible
      <3>2. CASE q \in selection
        <4>1. r \in (both \cap RunsOf(MissionOf[q])) \ {q}
          BY <1>0 DEF RunsOf
        <4>2. StagesAreIndependent(StageOf[q], StageOf[r])
          BY <3>2, <4>1 DEF Admissible
        <4> QED
          BY <4>2 DEF StagesAreIndependent
      <3>3. CASE r \in reserved /\ q \in reserved
        BY <3>3 DEF Envelope
      <3> QED
        BY <3>1, <3>2, <3>3
    <2> QED
      BY <2>1, <2>2, <2>3 DEF Envelope
  <1> QED
    BY <1>1, <1>2

\* Only ReserveCommit reserves a run.
LEMMA OnlyCommitReserves ==
  ASSUME TypeInv, EvidenceInv, [Next]_vars, ~\E c \in Controllers : ReserveCommit(c)
  PROVE  ReservedRuns' \subseteq ReservedRuns
  <1> SUFFICES ASSUME NEW r \in Runs, Reserved(r)' PROVE Reserved(r)
    BY DEF ReservedRuns
  <1>1. RowStep(r)
    BY AllRows
  <1>2. run[r].status \in RunStatuses
    BY DEF TypeInv, TypeOK, StageRunRow
  <1> QED
    BY <1>1, <1>2 DEF RowStep, Reserved, EvidenceInv, RunStatuses, ActiveStatuses,
                      TerminalStatuses

\* A commit adds an admissible selection to what is reserved, at most.
LEMMA CommitReserves ==
  ASSUME TypeInv, NEW c \in Controllers, ReserveCommit(c)
  PROVE  \E selection \in SUBSET Runs :
            /\ Admissible(ctl[c].batch, selection)
            /\ ReservedRuns' \subseteq ReservedRuns \cup selection
  <1> DEFINE unplanned == {r \in Candidates \cap InvalidRuns : StageOf[r] = "detection"}
  <1>1. PICK selection \in Selections(ctl[c].batch, Candidates \ unplanned) :
          run' = [r \in Runs |->
                    IF r \in unplanned \cup (selection \cap InvalidRuns)
                    THEN [run[r] EXCEPT !.status = "failed"]
                    ELSE IF r \in selection \ InvalidRuns
                    THEN [run[r] EXCEPT !.dispatched = TRUE, !.jobName = TRUE,
                                        !.attempts = @ + 1]
                    ELSE run[r]]
    BY DEF ReserveCommit
  <1>2. selection \in SUBSET Runs /\ Admissible(ctl[c].batch, selection)
    BY DEF Selections, Candidates
  <1>3. ASSUME NEW r \in Runs, Reserved(r)', r \notin selection PROVE Reserved(r)
    <2>1. CASE r \in unplanned
      <3>1. run'[r].status = "failed"
        BY <1>1, <2>1 DEF TypeInv, TypeOK, StageRunRow
      <3> QED
        BY <1>3, <3>1 DEF Reserved, ActiveStatuses
    <2>2. CASE r \notin unplanned
      <3>1. run'[r] = run[r]
        BY <1>1, <1>3, <2>2
      <3> QED
        BY <1>3, <3>1 DEF Reserved
    <2> QED
      BY <2>1, <2>2
  <1> QED
    BY <1>2, <1>3 DEF ReservedRuns

\* The lock changes hands only in these steps.
LEMMA LockStep ==
  ASSUME [Next]_vars
  PROVE  \/ schedulerLock' = schedulerLock
         \/ \E c \in Controllers : ReserveBegin(c) \/ ReserveCommit(c) \/ ControllerCrash(c)
  <1>1. ASSUME NEW c \in Controllers, ControllerStep(c)
        PROVE  \/ schedulerLock' = schedulerLock
               \/ ReserveBegin(c) \/ ReserveCommit(c) \/ ControllerCrash(c)
    BY <1>1 DEF ControllerStep, DispatchJob, DispatchJobFails, RecordDispatchError,
                ReconcileClaim, ObserveCleanup, ObserveJob, ObserveFails, RecreateJob,
                RecreateJobFails, ReconcileApply, ObserveUnchanged
  <1>2. ApiStep \/ (\E r \in Runs : LeaseExpires(r)) => schedulerLock' = schedulerLock
    BY DEF ApiStep, CancelMission, DeleteMission, CreateStageRun, AdminValidate, AdminPublish,
           LeaseExpires
  <1>3. ASSUME NEW p \in Pods, PodStep(p) PROVE schedulerLock' = schedulerLock
    BY <1>3 DEF PodStep, LoadContext, Heartbeat, HandlerReturns, HandlerRaises, PublishResult,
                PublishFails, RecordTerminal, PodSucceeds, PodUnchanged
  <1>4. ClusterStep => schedulerLock' = schedulerLock
    BY DEF ClusterStep, StartPod, PodKilled, PodRemoved, JobGone, JobDeadline, JobExpires,
           JobRemoved, ClusterUnchanged
  <1>5. UNCHANGED vars => schedulerLock' = schedulerLock
    BY DEF vars
  <1> QED
    BY <1>1, <1>2, <1>3, <1>4, <1>5 DEF Next

\* A commit ends the reserving phase of its control worker.
LEMMA CommitEndsReserving ==
  ASSUME TypeInv, NEW c \in Controllers, ReserveCommit(c)
  PROVE  ctl'[c].phase # "reserving"
  <1>1. \/ ctl' = [ctl EXCEPT ![c] = Idle]
        \/ \E batch : ctl' = [ctl EXCEPT ![c] = [Idle EXCEPT !.phase = "dispatching",
                                                           !.batch = batch]]
    BY DEF ReserveCommit
  <1>2. Idle.phase = "idle" /\ \A batch :
          [Idle EXCEPT !.phase = "dispatching", !.batch = batch].phase = "dispatching"
    BY DEF Idle
  <1> QED
    BY <1>1, <1>2 DEF TypeInv, TypeOK

\* A control worker enters the reserving phase in one step only.
LEMMA OnlyBeginReserving ==
  ASSUME TypeInv, NEW c \in Controllers, ControllerStep(c), ctl'[c].phase = "reserving"
  PROVE  ReserveBegin(c) \/ ctl'[c] = ctl[c]
  <1>0. ctl \in [Controllers -> ControllerState]
    BY DEF TypeInv, TypeOK
  <1>1. Idle.phase = "idle" /\ \A r : NextInBatch(c, r).phase \in {"idle", "dispatching"}
    BY DEF Idle, NextInBatch
  <1>2. ~ReserveCommit(c)
    BY CommitEndsReserving
  <1>3. ASSUME NEW r \in Runs PROVE ~DispatchJob(c, r) /\ ~DispatchJobFails(c, r)
    BY <1>0, <1>1 DEF DispatchJob, DispatchJobFails, ControllerState
  <1>4. ASSUME NEW r \in Runs PROVE ~ReconcileClaim(c, r)
    BY <1>0 DEF ReconcileClaim, Idle
  <1>5. ~RecordDispatchError(c)
    BY <1>0, <1>1 DEF RecordDispatchError
  <1>6. ASSUME NEW seen PROVE ~Seen(c, seen)
    BY <1>0 DEF Seen, ControllerState
  <1>7. ~ObserveCleanup(c) /\ ~ObserveFails(c) /\ ~RecreateJob(c) /\ ~RecreateJobFails(c)
    BY <1>6 DEF ObserveCleanup, ObserveFails, RecreateJob, RecreateJobFails
  <1>8. ~ObserveJob(c)
    <2>1. ObserveJob(c) => \/ \E seen : Seen(c, seen)
                           \/ ctl' = [ctl EXCEPT ![c].phase = "creating"]
      BY DEF ObserveJob
    <2> QED
      BY <1>0, <1>6, <2>1 DEF ControllerState
  <1>9. ~ReconcileApply(c) /\ ~ControllerCrash(c)
    BY <1>0, <1>1 DEF ReconcileApply, ControllerCrash
  <1> QED
    BY <1>2, <1>3, <1>4, <1>5, <1>7, <1>8, <1>9 DEF ControllerStep

\* Holding the lock keeps the set that was read under it an upper bound.
LEMMA LockNext ==
  ASSUME TypeInv, EvidenceInv, LockInv, [Next]_vars
  PROVE  LockInv'
  <1> SUFFICES ASSUME NEW c \in Controllers, ctl'[c].phase = "reserving"
               PROVE  schedulerLock' = c /\ ReservedRuns' \subseteq ctl'[c].batch
    BY DEF LockInv
  <1>1. CASE ReserveBegin(c)
    <2>1. run' = run /\ schedulerLock' = c
      BY <1>1 DEF ReserveBegin, database
    <2>2. ctl'[c].batch = ReservedRuns
      BY <1>1 DEF ReserveBegin, Idle, ReservedRuns, TypeInv, TypeOK
    <2> QED
      BY <2>1, <2>2 DEF ReservedRuns, Reserved
  <1>2. CASE ~ReserveBegin(c)
    <2>1. ctl'[c] = ctl[c]
      BY <1>2, MemoryOwned, OnlyBeginReserving
    <2>2. schedulerLock = c /\ ReservedRuns \subseteq ctl[c].batch
      BY <2>1 DEF LockInv
    <2>3. ASSUME NEW d \in Controllers PROVE ~ReserveBegin(d) /\ ~ReserveCommit(d)
      <3>1. ~ReserveBegin(d)
        BY <2>2, ConstantsAssumption DEF ReserveBegin, LockFree
      <3>2. CASE ReserveCommit(d)
        <4>1. d = c
          BY <2>2, <3>2 DEF ReserveCommit, LockInv
        <4>2. ctl'[c].phase # "reserving"
          BY <3>2, <4>1, CommitEndsReserving
        <4> QED
          BY <4>2
      <3> QED
        BY <3>1, <3>2
    <2>4. ReservedRuns' \subseteq ReservedRuns
      BY <2>3, OnlyCommitReserves
    <2>5. schedulerLock' = schedulerLock
      <3>1. ASSUME NEW d \in Controllers, ControllerCrash(d) PROVE schedulerLock' = schedulerLock
        <4>1. d # c
          BY <2>1, <3>1 DEF ControllerCrash, Idle, TypeInv, TypeOK
        <4> QED
          BY <2>2, <3>1, <4>1 DEF ControllerCrash
      <3> QED
        BY <2>3, <3>1, LockStep
    <2> QED
      BY <2>1, <2>2, <2>4, <2>5
  <1> QED
    BY <1>1, <1>2

\* The run property is the envelope of what is reserved.
LEMMA ConcurrencyIsEnvelope == ConcurrencyRespected <=> Envelope(ReservedRuns)
  BY DEF ConcurrencyRespected, Envelope, ReservedRuns

\* No step takes the reserved runs out of the envelope.
LEMMA ConcurrencyNext ==
  ASSUME TypeInv, EvidenceInv, LockInv, [Next]_vars, Envelope(ReservedRuns)
  PROVE  Envelope(ReservedRuns)'
  <1>0. ReservedRuns \subseteq Runs
    BY DEF ReservedRuns
  <1>1. CASE \E c \in Controllers : ReserveCommit(c)
    <2>1. PICK c \in Controllers : ReserveCommit(c)
      BY <1>1
    <2>2. PICK selection \in SUBSET Runs :
            /\ Admissible(ctl[c].batch, selection)
            /\ ReservedRuns' \subseteq ReservedRuns \cup selection
      BY <2>1, CommitReserves
    <2>3. ReservedRuns \subseteq ctl[c].batch /\ ctl[c].batch \in SUBSET Runs
      BY <2>1 DEF ReserveCommit, LockInv, TypeInv, TypeOK, ControllerState
    <2>4. Envelope(ReservedRuns \cup selection)
      BY <2>2, <2>3, AdmissibleEnvelope
    <2>5. ReservedRuns \cup selection \subseteq Runs
      BY <1>0
    <2>6. \A S : S \subseteq ReservedRuns \cup selection => Envelope(S)
      BY <2>4, <2>5, SmallerEnvelope
    <2> QED
      BY <2>2, <2>6 DEF Envelope
  <1>2. CASE ~\E c \in Controllers : ReserveCommit(c)
    <2>1. ReservedRuns' \subseteq ReservedRuns
      BY <1>2, OnlyCommitReserves
    <2>2. \A S : S \subseteq ReservedRuns => Envelope(S)
      BY <1>0, SmallerEnvelope
    <2> QED
      BY <2>1, <2>2 DEF Envelope
  <1> QED
    BY <1>1, <1>2

\* Nothing is reserved at first.
LEMMA ReservationInit == Init => ReservationInv
  <1> SUFFICES ASSUME Init PROVE ReservationInv
    OBVIOUS
  <1>1. LockInv
    BY DEF Init, Idle, LockInv
  <1>2. ReservedRuns = {}
    BY DEF Init, InitialRun, NewRun, Reserved, ReservedRuns
  <1>3. Cardinality(ReservedRuns) <= GlobalActive
    BY <1>2, FS_EmptySet, ConstantsAssumption
  <1> QED
    BY <1>1, <1>2, <1>3, ConcurrencyIsEnvelope DEF ReservationInv, Envelope

\* The inductive step.
LEMMA ReservationNext == TypeInv /\ EvidenceInv /\ ReservationInv /\ [Next]_vars => ReservationInv'
  <1> SUFFICES ASSUME TypeInv, EvidenceInv, ReservationInv, [Next]_vars
               PROVE  ReservationInv'
    OBVIOUS
  <1>1. LockInv'
    BY LockNext DEF ReservationInv
  <1>2. ConcurrencyRespected'
    BY ConcurrencyNext, ConcurrencyIsEnvelope DEF ReservationInv, Envelope, ReservedRuns,
       ConcurrencyRespected
  <1> QED
    BY <1>1, <1>2 DEF ReservationInv

\* The reserved runs stay within the global and the mission envelope and never
\* hold dependent stages of one mission, for every number of control workers.
THEOREM ConcurrencyCorrect == Spec => []ConcurrencyRespected
  <1>1. ReservationInv => ConcurrencyRespected
    BY DEF ReservationInv
  <1> QED
    BY Invariance, ReservationInit, ReservationNext, <1>1, PTL DEF Spec

-----------------------------------------------------------------------------
(* The lineage. *)

\* What ExactLineage says of a run whose upstream_artifact_ids are ids.
Bound(arts, ids, r) ==
  /\ \A i \in ids : i \in DOMAIN arts /\ MissionOf[arts[i]] = MissionOf[r]
  /\ \A stage \in STAGE_DEPENDENCIES[StageOf[r]] :
         Cardinality({i \in ids : StageOf[arts[i]] = stage}) = 1

\* Every stage that has artifacts has a newest one.
HasNewest(arts) ==
  \A m \in Missions, stage \in STAGE_ORDER :
      ArtifactsOf(arts, m, stage) # {} =>
          \E k \in ArtifactsOf(arts, m, stage) : \A j \in ArtifactsOf(arts, m, stage) : j <= k

\* The runs nothing has bound yet.
Unbound == {"absent", "blocked"}

\* An executor that has loaded its context, and may record a status.
Loaded(p) == pod[p].phase \in {"executing", "publishing", "published", "stopping", "failing"}

\* The dispatches a control worker still has to make or to record.
InHand(c, r) == \/ ctl[c].phase \in {"dispatching", "recording"} /\ r \in ctl[c].batch
                \/ ctl[c].phase = "recording" /\ r = ctl[c].run

\* Somebody holds the run in memory and may write its status later.
Held(r) == \/ adminRequest[r]
           \/ \E p \in Pods : Loaded(p) /\ pod[p].run = r
           \/ \E c \in Controllers : InHand(c, r) \/ (Reconciling(c) /\ ctl[c].run = r)

\* Exact lineage for every run that was ever queued, and what keeps it: a
\* status is recorded late, but never for a run that is still blocked.
LineageInv ==
  /\ HasNewest(artifacts)
  /\ \A r \in Runs : Held(r) => run[r].status # "blocked"
  /\ \A r \in Runs : run[r].status \notin Unbound => Bound(artifacts, run[r].upstream, r)

-----------------------------------------------------------------------------
(* Sequences of artifacts. *)

\* What an appended artifact adds.
LEMMA AppendedArtifact ==
  ASSUME NEW arts \in Seq(Runs), NEW r \in Runs, NEW m, NEW stage
  PROVE  /\ ArtifactsOf(arts, m, stage) \subseteq 1 .. Len(arts)
         /\ ArtifactsOf(Append(arts, r), m, stage) =
              IF MissionOf[r] = m /\ StageOf[r] = stage
              THEN ArtifactsOf(arts, m, stage) \cup {Len(arts) + 1}
              ELSE ArtifactsOf(arts, m, stage)
  <1>1. /\ Len(arts) \in Nat /\ DOMAIN arts = 1 .. Len(arts)
        /\ DOMAIN Append(arts, r) = 1 .. Len(arts) + 1
    OBVIOUS
  <1>2. \A i \in 1 .. Len(arts) : Append(arts, r)[i] = arts[i]
    OBVIOUS
  <1>3. Append(arts, r)[Len(arts) + 1] = r
    OBVIOUS
  <1>4. \A i \in 1 .. Len(arts) + 1 : i = Len(arts) + 1 \/ i \in 1 .. Len(arts)
    BY <1>1
  <1>5. \A i : i \in ArtifactsOf(Append(arts, r), m, stage)
          <=> \/ i \in ArtifactsOf(arts, m, stage)
              \/ i = Len(arts) + 1 /\ MissionOf[r] = m /\ StageOf[r] = stage
    BY <1>1, <1>2, <1>3, <1>4 DEF ArtifactsOf
  <1> QED
    BY <1>1, <1>5 DEF ArtifactsOf

\* The artifact that is appended is the newest of its stage.
LEMMA NewestAppended ==
  ASSUME NEW arts \in Seq(Runs), NEW r \in Runs, HasNewest(arts)
  PROVE  HasNewest(Append(arts, r))
  <1> SUFFICES ASSUME NEW m \in Missions, NEW stage \in STAGE_ORDER,
                      ArtifactsOf(Append(arts, r), m, stage) # {}
               PROVE  \E k \in ArtifactsOf(Append(arts, r), m, stage) :
                         \A j \in ArtifactsOf(Append(arts, r), m, stage) : j <= k
    BY DEF HasNewest
  <1> DEFINE old == ArtifactsOf(arts, m, stage)
  <1>1. Len(arts) \in Nat /\ old \subseteq 1 .. Len(arts)
    BY AppendedArtifact
  <1>2. CASE MissionOf[r] = m /\ StageOf[r] = stage
    <2>1. ArtifactsOf(Append(arts, r), m, stage) = old \cup {Len(arts) + 1}
      BY <1>2, AppendedArtifact
    <2> HIDE DEF old
    <2>2. \A j \in old \cup {Len(arts) + 1} : j <= Len(arts) + 1
      BY <1>1
    <2> QED
      BY <2>1, <2>2
  <1>3. CASE ~(MissionOf[r] = m /\ StageOf[r] = stage)
    <2>1. ArtifactsOf(Append(arts, r), m, stage) = old
      BY <1>3, AppendedArtifact
    <2> QED
      BY <2>1 DEF HasNewest
  <1> QED
    BY <1>2, <1>3

\* A later artifact does not loosen a binding.
LEMMA BoundAppended ==
  ASSUME NEW arts \in Seq(Runs), NEW r \in Runs, NEW q \in Runs, NEW ids, Bound(arts, ids, q)
  PROVE  Bound(Append(arts, r), ids, q)
  <1>1. \A i \in ids : i \in DOMAIN arts
    BY DEF Bound
  <1>2. \A i \in DOMAIN arts : i \in DOMAIN Append(arts, r) /\ Append(arts, r)[i] = arts[i]
    OBVIOUS
  <1>3. \A stage : {i \in ids : StageOf[Append(arts, r)[i]] = stage} = {i \in ids : StageOf[arts[i]] = stage}
    BY <1>1, <1>2
  <1> QED
    BY <1>1, <1>2, <1>3 DEF Bound

\* release_ready_stage_runs binds a run to one artifact of each dependency.
LEMMA ReleaseBinds ==
  ASSUME NEW arts \in Seq(Runs), HasNewest(arts), NEW r \in Runs,
         \A stage \in STAGE_DEPENDENCIES[StageOf[r]] : ArtifactsOf(arts, MissionOf[r], stage) # {}
  PROVE  Bound(arts, NewestArtifacts(arts, MissionOf[r], STAGE_DEPENDENCIES[StageOf[r]]), r)
  <1> DEFINE m    == MissionOf[r]
             deps == STAGE_DEPENDENCIES[StageOf[r]]
             ids  == NewestArtifacts(arts, m, deps)
  <1>1. m \in Missions /\ StageOf[r] \in STAGE_ORDER
    BY ConstantsAssumption
  <1>2. deps \subseteq STAGE_ORDER
    BY <1>1 DEF STAGE_DEPENDENCIES, STAGE_ORDER
  <1>3. \A i \in ids : i \in DOMAIN arts /\ MissionOf[arts[i]] = m
    BY DEF NewestArtifacts
  <1>4. ASSUME NEW stage \in deps
        PROVE  Cardinality({i \in ids : StageOf[arts[i]] = stage}) = 1
    <2>1. PICK k \in ArtifactsOf(arts, m, stage) : \A j \in ArtifactsOf(arts, m, stage) : j <= k
      BY <1>1, <1>2 DEF HasNewest
    <2>2. k \in ids /\ StageOf[arts[k]] = stage
      BY <2>1 DEF NewestArtifacts, ArtifactsOf
    <2>3. ASSUME NEW i \in ids, StageOf[arts[i]] = stage
          PROVE  i = k
      <3>1. i \in ArtifactsOf(arts, m, stage) /\ k <= i
        BY <2>1, <2>3 DEF NewestArtifacts, ArtifactsOf
      <3>2. i \in Nat /\ k \in Nat
        BY <2>1, <3>1 DEF ArtifactsOf
      <3> QED
        BY <2>1, <3>1, <3>2
    <2>4. {i \in ids : StageOf[arts[i]] = stage} = {k}
      BY <2>2, <2>3
    <2> QED
      BY <2>4, FS_Singleton
  <1> QED
    BY <1>3, <1>4 DEF Bound

-----------------------------------------------------------------------------
(* How the steps bind a run. *)

\* A step that leaves the binding of a run alone starts no unbound run.
SameBinding(q) ==
  /\ run'[q].upstream = run[q].upstream
  /\ run[q].status \in Unbound => run'[q].status = run[q].status

\* Its dependencies were published and it was queued.
Released(q) ==
  /\ \A stage \in STAGE_DEPENDENCIES[StageOf[q]] : ArtifactsOf(artifacts', MissionOf[q], stage) # {}
  /\ run'[q].upstream =
       NewestArtifacts(artifacts', MissionOf[q], STAGE_DEPENDENCIES[StageOf[q]])

\* What a step may do to the binding of a run: nothing, release it, or create
\* it bound.
Binding(q) ==
  \/ SameBinding(q)
  \/ Released(q)
  \/ /\ run[q].status = "absent" /\ artifacts' = artifacts
     /\ run'[q].upstream \in UpstreamChoices(q)

\* Setting a status of a run that is bound.
LEMMA StatusBinding ==
  ASSUME TypeInv, NEW r \in Runs, NEW status, run[r].status \notin Unbound,
         run' = [run EXCEPT ![r].status = status], NEW q \in Runs
  PROVE  SameBinding(q)
  BY DEF SameBinding, TypeInv, TypeOK, StageRunRow

\* A publication binds the dependants it releases.
LEMMA PublishBinding ==
  ASSUME TypeInv, NEW r \in Runs, run[r].status \notin Unbound, PublishArtifact(r), NEW q \in Runs
  PROVE  SameBinding(q) \/ Released(q)
  <1> DEFINE rows == [run EXCEPT ![r].status = "succeeded"]
  <1>1. rows \in [Runs -> StageRunRow]
    BY SetStatusType, StatusNames DEF TypeInv, TypeOK
  <1>2. /\ rows[q].upstream = run[q].upstream
        /\ run[q].status \in Unbound => rows[q].status = run[q].status
    BY DEF TypeInv, TypeOK, StageRunRow
  <1> HIDE DEF rows
  <1>3. /\ artifacts' = Append(artifacts, r)
        /\ run' = ReleaseReady(rows, artifacts', MissionOf[r])
    BY DEF PublishArtifact, rows
  <1>4. CASE MissionOf[q] = MissionOf[r] /\ ReadyForRelease(rows, artifacts', q)
    BY <1>1, <1>3, <1>4 DEF ReleaseReady, ReadyForRelease, Released, StageRunRow
  <1>5. CASE ~(MissionOf[q] = MissionOf[r] /\ ReadyForRelease(rows, artifacts', q))
    <2>1. run'[q] = rows[q]
      BY <1>3, <1>5 DEF ReleaseReady
    <2> QED
      BY <1>2, <2>1 DEF SameBinding
  <1> QED
    BY <1>4, <1>5

\* A row that keeps its binding and its status.
LEMMA Unmoved ==
  ASSUME NEW q \in Runs, run'[q].upstream = run[q].upstream, run'[q].status = run[q].status
  PROVE  SameBinding(q)
  BY DEF SameBinding

\* The API and the clock.
LEMMA ApiBinding ==
  ASSUME TypeInv, LineageInv, ApiStep \/ (\E r \in Runs : LeaseExpires(r)), NEW q \in Runs
  PROVE  Binding(q)
  <1> USE DEF Binding
  <1>1. ASSUME NEW m \in Missions, CancelMission(m) PROVE Binding(q)
    BY <1>1, Unmoved DEF CancelMission
  <1>2. ASSUME NEW m \in Missions, DeleteMission(m) PROVE Binding(q)
    <2>1. \/ run'[q] = run[q]
          \/ run[q].status \in ActiveStatuses /\ run'[q] = [run[q] EXCEPT !.status = "cancelled"]
      BY <1>2 DEF DeleteMission, CancelActiveRuns
    <2> QED
      BY <2>1 DEF SameBinding, TypeInv, TypeOK, StageRunRow, ActiveStatuses, Unbound
  <1>3. ASSUME NEW r \in Runs, CreateStageRun(r) PROVE Binding(q)
    <2>1. PICK upstream \in UpstreamChoices(r) :
            run' = [run EXCEPT ![r] = NewRun("queued", upstream)]
      BY <1>3 DEF CreateStageRun
    <2>2. CASE q = r
      <3>1. run'[q].upstream = upstream
        BY <2>1, <2>2 DEF NewRun, TypeInv, TypeOK
      <3> QED
        BY <1>3, <2>2, <3>1 DEF CreateStageRun, Exists
    <2>3. CASE q # r
      BY <2>1, <2>3, Unmoved DEF TypeInv, TypeOK
    <2> QED
      BY <2>2, <2>3
  <1>4. ASSUME NEW r \in Runs, AdminValidate(r) PROVE Binding(q)
    BY <1>4, Unmoved DEF AdminValidate, database
  <1>5. ASSUME NEW r \in Runs, AdminPublish(r) PROVE Binding(q)
    <2>1. CASE Exists(r) /\ ~ParentEdgeRefused(r)
      <3>1. run[r].status \notin Unbound
        BY <1>5, <2>1 DEF AdminPublish, LineageInv, Held, Exists, Unbound
      <3> QED
        BY <1>5, <2>1, <3>1, PublishBinding DEF AdminPublish
    <2>2. CASE ~(Exists(r) /\ ~ParentEdgeRefused(r))
      BY <1>5, <2>2, Unmoved DEF AdminPublish
    <2> QED
      BY <2>1, <2>2
  <1>6. ASSUME NEW r \in Runs, LeaseExpires(r) PROVE Binding(q)
    BY <1>6 DEF LeaseExpires, SameBinding, TypeInv, TypeOK, StageRunRow
  <1> QED
    BY <1>1, <1>2, <1>3, <1>4, <1>5, <1>6 DEF ApiStep

\* The executors.
LEMMA PodBinding ==
  ASSUME TypeInv, LineageInv, NEW p \in Pods, PodStep(p), NEW q \in Runs
  PROVE  Binding(q)
  <1> DEFINE r == pod[p].run
  <1>1. ASSUME NEW status, r \in Runs, Exists(r), run[r].status # "blocked",
               run' = [run EXCEPT ![r].status = status]
        PROVE  Binding(q)
    <2>1. run[r].status \notin Unbound
      BY <1>1 DEF Exists, Unbound
    <2> QED
      BY <1>1, <2>1, StatusBinding DEF Binding
  <1>2. ASSUME run' = run PROVE Binding(q)
    BY <1>2, Unmoved DEF Binding
  <1>3. pod[p].phase # "none" => r \in Runs
    BY DEF TypeInv, PodsHaveRuns
  <1>4. Loaded(p) => r \in Runs /\ run[r].status # "blocked"
    BY <1>3 DEF Loaded, LineageInv, Held
  <1>5. CASE LoadContext(p)
    <2>1. CASE Loadable(r)
      BY <1>5, <2>1, <1>1, <1>3 DEF LoadContext, Loadable, ActiveStatuses
    <2>2. CASE ~Loadable(r)
      BY <1>5, <2>2, <1>2 DEF LoadContext
    <2> QED
      BY <2>1, <2>2
  <1>6. CASE Heartbeat(p)
    BY <1>6, <1>1, <1>4 DEF Heartbeat, Loaded
  <1>7. CASE HandlerReturns(p)
    BY <1>7, <1>1, <1>2, <1>4 DEF HandlerReturns, Loaded
  <1>8. CASE HandlerRaises(p) \/ PublishFails(p) \/ PodSucceeds(p)
    BY <1>8, <1>2 DEF HandlerRaises, PublishFails, PodSucceeds
  <1>9. CASE PublishResult(p)
    <2>1. r \in Runs /\ run[r].status # "blocked"
      BY <1>9, <1>4 DEF PublishResult, Loaded
    <2>2. CASE Exists(r) /\ ~StopRequested(r) /\ PublishArtifact(r)
      <3>1. run[r].status \notin Unbound
        BY <2>1, <2>2 DEF Exists, Unbound
      <3> QED
        BY <2>1, <2>2, <3>1, PublishBinding DEF Binding
    <2> QED
      BY <1>9, <1>2, <2>2 DEF PublishResult
  <1>10. CASE RecordTerminal(p)
    <2>1. CASE Exists(r)
      <3>1. PICK status : run' = [run EXCEPT ![r].status = status]
        BY <1>10, <2>1 DEF RecordTerminal
      <3> QED
        BY <1>10, <2>1, <3>1, <1>1, <1>4 DEF RecordTerminal, Loaded
    <2>2. CASE ~Exists(r)
      BY <1>10, <2>2, <1>2 DEF RecordTerminal
    <2> QED
      BY <2>1, <2>2
  <1> QED
    BY <1>5, <1>6, <1>7, <1>8, <1>9, <1>10 DEF PodStep

\* An observation keeps the binding of its row.
LEMMA AppliedUpstream ==
  ASSUME NEW row \in StageRunRow, NEW c
  PROVE  AppliedTo(row, c).upstream = row.upstream
  <1>1. CASE ctl[c].seen \in {"missing", "missing_error"}
    BY <1>1 DEF AppliedTo, StageRunRow
  <1>2. CASE ctl[c].seen \in {"clean", "unclean"}
    BY <1>2 DEF AppliedTo, StageRunRow
  <1>3. CASE ctl[c].seen \in {"failed", "complete", "active"}
    BY <1>3 DEF AppliedTo, StageRunRow
  <1>4. CASE ctl[c].seen \notin {"missing", "missing_error", "clean", "unclean",
                                 "failed", "complete", "active"}
    BY <1>4 DEF AppliedTo
  <1> QED
    BY <1>1, <1>2, <1>3, <1>4

\* The control workers, which bind nothing.
LEMMA ControllerBinding ==
  ASSUME TypeInv, LineageInv, NEW c \in Controllers, ControllerStep(c), NEW q \in Runs
  PROVE  Binding(q)
  <1> USE DEF Binding
  <1>1. ASSUME run' = run PROVE Binding(q)
    BY <1>1, Unmoved
  <1>2. CASE ReserveBegin(c) \/ ControllerCrash(c)
    BY <1>2, <1>1 DEF ReserveBegin, ControllerCrash, database
  <1>3. CASE ReserveCommit(c)
    <2>1. \/ run'[q] = run[q]
          \/ q \in Candidates /\ run'[q] = [run[q] EXCEPT !.status = "failed"]
          \/ run'[q] = [run[q] EXCEPT !.dispatched = TRUE, !.jobName = TRUE, !.attempts = @ + 1]
      <3> DEFINE unplanned == {r \in Candidates \cap InvalidRuns : StageOf[r] = "detection"}
      <3>1. PICK selection \in Selections(ctl[c].batch, Candidates \ unplanned) :
            run' = [r \in Runs |->
                      IF r \in unplanned \cup (selection \cap InvalidRuns)
                      THEN [run[r] EXCEPT !.status = "failed"]
                      ELSE IF r \in selection \ InvalidRuns
                      THEN [run[r] EXCEPT !.dispatched = TRUE, !.jobName = TRUE,
                                          !.attempts = @ + 1]
                      ELSE run[r]]
        BY <1>3 DEF ReserveCommit
      <3>2. selection \subseteq Candidates
        BY DEF Selections
      <3> QED
        BY <3>1, <3>2
    <2>2. CASE q \in Candidates /\ run'[q] = [run[q] EXCEPT !.status = "failed"]
      BY <2>2 DEF SameBinding, Unbound, Candidates, TypeInv, TypeOK, StageRunRow
    <2>3. CASE run'[q] = [run[q] EXCEPT !.dispatched = TRUE, !.jobName = TRUE, !.attempts = @ + 1]
      <3>1. run[q] \in StageRunRow
        BY DEF TypeInv, TypeOK
      <3>2. run'[q].upstream = run[q].upstream /\ run'[q].status = run[q].status
        BY <2>3, <3>1 DEF StageRunRow
      <3> QED
        BY <3>2, Unmoved
    <2> QED
      BY <2>1, <2>2, <2>3, Unmoved
  <1>4. ASSUME NEW r \in Runs, DispatchJob(c, r) \/ DispatchJobFails(c, r) PROVE Binding(q)
    BY <1>4, <1>1 DEF DispatchJob, DispatchJobFails, database
  <1>5. ASSUME NEW r \in Runs, ReconcileClaim(c, r) PROVE Binding(q)
    <2>1. run' = [run EXCEPT ![r].token = c, ![r].leaseLive = TRUE]
      BY <1>5 DEF ReconcileClaim
    <2>2. run'[q].upstream = run[q].upstream /\ run'[q].status = run[q].status
      BY <2>1 DEF TypeInv, TypeOK, StageRunRow
    <2> QED
      BY <2>2, Unmoved
  <1>6. CASE RecordDispatchError(c)
    <2> DEFINE r == ctl[c].run
    <2>1. CASE run' = run
      BY <2>1, <1>1
    <2>2. CASE Exists(r) /\ run' = [run EXCEPT ![r].status = "failed"]
      <3>1. CASE r \in Runs
        <4>1. run[r].status \notin Unbound
          BY <1>6, <2>2, <3>1 DEF RecordDispatchError, LineageInv, Held, InHand, Exists, Unbound
        <4> QED
          BY <2>2, <3>1, <4>1, StatusBinding
      <3>2. CASE r \notin Runs
        BY <2>2, <3>2, <1>1 DEF TypeInv, TypeOK
      <3> QED
        BY <3>1, <3>2
    <2>3. CASE run' = [run EXCEPT ![r].dispatched = FALSE]
      <3>1. run'[q].upstream = run[q].upstream /\ run'[q].status = run[q].status
        BY <2>3 DEF TypeInv, TypeOK, StageRunRow
      <3> QED
        BY <3>1, Unmoved
    <2> QED
      BY <1>6, <2>1, <2>2, <2>3 DEF RecordDispatchError
  <1>7. CASE ObserveCleanup(c) \/ ObserveJob(c) \/ ObserveFails(c)
    BY <1>7, <1>1 DEF ObserveCleanup, ObserveJob, ObserveFails, ObserveUnchanged, database
  <1>8. CASE RecreateJob(c) \/ RecreateJobFails(c)
    BY <1>8, <1>1 DEF RecreateJob, RecreateJobFails, ObserveUnchanged, database
  <1>9. CASE ReconcileApply(c)
    <2> DEFINE r == ctl[c].run
               released == [run[r] EXCEPT !.token = NoController, !.leaseLive = FALSE]
    <2>1. \/ run' = run
          \/ run' = [run EXCEPT ![r] = released]
          \/ Exists(r) /\ run' = [run EXCEPT ![r] = AppliedTo(released, c)]
      BY <1>9 DEF ReconcileApply
    <2>2. CASE q # r \/ run' = run
      <3>1. run'[q] = run[q]
        BY <2>1, <2>2 DEF TypeInv, TypeOK
      <3> QED
        BY <3>1, Unmoved
    <2>3. CASE q = r /\ run' # run
      <3>1. /\ released \in StageRunRow /\ released.status = run[r].status
            /\ released.upstream = run[r].upstream
        <4>1. run[r] \in StageRunRow
          BY <2>3 DEF TypeInv, TypeOK
        <4> QED
          BY <4>1, LeaseType DEF StageRunRow
      <3>2. \/ run'[q] = released
            \/ Exists(r) /\ run'[q] = AppliedTo(released, c)
        BY <2>1, <2>3 DEF TypeInv, TypeOK
      <3> HIDE DEF released
      <3>3. run'[q].upstream = run[q].upstream
        BY <2>3, <3>1, <3>2, AppliedUpstream
      <3>4. run[q].status \notin Unbound \/ run'[q].status = run[q].status
        <4>1. run[r].status # "blocked"
          BY <1>9, <2>3 DEF ReconcileApply, LineageInv, Held, Reconciling
        <4> QED
          BY <2>3, <3>1, <3>2, <4>1 DEF Exists, Unbound
      <3> QED
        BY <3>3, <3>4 DEF SameBinding
    <2> QED
      BY <2>2, <2>3
  <1> QED
    BY <1>2, <1>3, <1>4, <1>5, <1>6, <1>7, <1>8, <1>9 DEF ControllerStep

\* Any step.
LEMMA AllBindings ==
  ASSUME TypeInv, LineageInv, [Next]_vars, NEW q \in Runs
  PROVE  Binding(q)
  <1>1. ASSUME run' = run PROVE Binding(q)
    BY <1>1, Unmoved DEF Binding
  <1>2. CASE ClusterStep
    BY <1>1, <1>2 DEF ClusterStep, StartPod, PodKilled, PodRemoved, JobGone, JobDeadline,
                      JobExpires, JobRemoved, ClusterUnchanged, database
  <1>3. CASE UNCHANGED vars
    BY <1>1, <1>3 DEF vars
  <1> QED
    BY <1>2, <1>3, ApiBinding, ControllerBinding, PodBinding DEF Next

\* The artifacts grow one at a time.
LEMMA ArtifactsGrow ==
  ASSUME TypeInv, [Next]_vars
  PROVE  artifacts' = artifacts \/ \E r \in Runs : artifacts' = Append(artifacts, r)
  <1>1. ASSUME NEW m \in Missions, CancelMission(m) \/ DeleteMission(m) PROVE artifacts' = artifacts
    BY <1>1 DEF CancelMission, DeleteMission
  <1>2. ASSUME NEW r \in Runs, CreateStageRun(r) \/ AdminValidate(r) \/ LeaseExpires(r)
        PROVE  artifacts' = artifacts
    BY <1>2 DEF CreateStageRun, AdminValidate, LeaseExpires, database
  <1>3. ASSUME NEW r \in Runs, AdminPublish(r)
        PROVE  artifacts' = artifacts \/ artifacts' = Append(artifacts, r)
    BY <1>3 DEF AdminPublish, PublishArtifact
  <1>4. ASSUME NEW c \in Controllers, ControllerStep(c) PROVE artifacts' = artifacts
    BY <1>4 DEF ControllerStep, ReserveBegin, ReserveCommit, DispatchJob, DispatchJobFails,
                RecordDispatchError, ReconcileClaim, ObserveCleanup, ObserveJob, ObserveFails,
                RecreateJob, RecreateJobFails, ReconcileApply, ControllerCrash,
                ObserveUnchanged, database
  <1>5. ASSUME NEW p \in Pods, PodStep(p)
        PROVE  artifacts' = artifacts \/ \E r \in Runs : artifacts' = Append(artifacts, r)
    <2>1. CASE PublishResult(p)
      BY <2>1 DEF PublishResult, PublishArtifact, TypeInv, PodsHaveRuns
    <2> QED
      BY <1>5, <2>1 DEF PodStep, LoadContext, Heartbeat, HandlerReturns, HandlerRaises,
                        PublishFails, RecordTerminal, PodSucceeds
  <1>6. CASE ClusterStep
    BY <1>6 DEF ClusterStep, StartPod, PodKilled, PodRemoved, JobGone, JobDeadline,
                JobExpires, JobRemoved, ClusterUnchanged, database
  <1>7. CASE UNCHANGED vars
    BY <1>7 DEF vars
  <1> QED
    BY <1>1, <1>2, <1>3, <1>4, <1>5, <1>6, <1>7 DEF Next, ApiStep

-----------------------------------------------------------------------------
(* Who holds a run. *)

\* An executor begins to hold a run by loading it.
LEMMA PodHolds ==
  ASSUME TypeInv, [Next]_vars, NEW p \in Pods, Loaded(p)'
  PROVE  /\ pod'[p].run = pod[p].run
         /\ Loaded(p) \/ Loadable(pod[p].run)
  <1> USE DEF TypeInv, TypeOK, Loaded
  <1>1. ASSUME NEW q \in Pods, PodStep(q)
        PROVE  pod'[p].run = pod[p].run /\ (Loaded(p) \/ Loadable(pod[p].run))
    <2>1. CASE LoadContext(q)
      BY <2>1 DEF LoadContext, MoveTo, PodEnds
    <2>2. CASE Heartbeat(q)
      BY <2>2 DEF Heartbeat, cluster
    <2>3. CASE HandlerReturns(q) \/ HandlerRaises(q) \/ PublishResult(q) \/ PublishFails(q)
      <3>1. pod[q].phase \in {"executing", "publishing"} /\ \E phase : MoveTo(q, phase)
        BY <2>3 DEF HandlerReturns, HandlerRaises, PublishResult, PublishFails
      <3> QED
        BY <3>1 DEF MoveTo
    <2>4. CASE RecordTerminal(q) \/ PodSucceeds(q)
      BY <2>4 DEF RecordTerminal, PodSucceeds, PodEnds, MoveTo
    <2> QED
      BY <1>1, <2>1, <2>2, <2>3, <2>4 DEF PodStep
  <1>2. CASE ClusterStep
    <2>1. ASSUME NEW r \in Runs, NEW q \in Pods, StartPod(r, q)
          PROVE  pod'[p].run = pod[p].run /\ Loaded(p)
      BY <2>1 DEF StartPod
    <2>2. ASSUME NEW r \in Runs, JobGone(r) \/ JobDeadline(r) \/ JobExpires(r)
          PROVE  pod'[p].run = pod[p].run /\ Loaded(p)
      BY <2>2 DEF JobGone, JobDeadline, JobExpires
    <2>3. ASSUME NEW r \in Runs, JobRemoved(r)
          PROVE  pod'[p].run = pod[p].run /\ Loaded(p)
      <3>1. \/ pod' = pod
            \/ pod' = [q \in Pods |-> IF pod[q].run = r
                                      THEN [pod[q] EXCEPT !.owned = FALSE] ELSE pod[q]]
        BY <2>3 DEF JobRemoved
      <3> QED
        BY <3>1
    <2>4. ASSUME NEW q \in Pods, PodKilled(q)
          PROVE  pod'[p].run = pod[p].run /\ Loaded(p)
      BY <2>4 DEF PodKilled, PodEnds, MoveTo
    <2>5. ASSUME NEW q \in Pods, PodRemoved(q)
          PROVE  pod'[p].run = pod[p].run /\ Loaded(p)
      BY <2>5 DEF PodRemoved, NoPod
    <2> QED
      BY <1>2, <2>1, <2>2, <2>3, <2>4, <2>5 DEF ClusterStep
  <1>3. CASE pod' = pod
    BY <1>3
  <1>4. ApiStep => pod' = pod
    BY DEF ApiStep, CancelMission, DeleteMission, CreateStageRun, AdminValidate, AdminPublish,
           cluster
  <1>5. ASSUME NEW c \in Controllers, ControllerStep(c) PROVE pod' = pod
    BY <1>5 DEF ControllerStep, ReserveBegin, ReserveCommit, DispatchJob, DispatchJobFails,
                RecordDispatchError, ReconcileClaim, ObserveCleanup, ObserveJob, ObserveFails,
                RecreateJob, RecreateJobFails, ReconcileApply, ControllerCrash,
                ObserveUnchanged, cluster
  <1>6. ASSUME NEW r \in Runs, LeaseExpires(r) PROVE pod' = pod
    BY <1>6 DEF LeaseExpires, cluster
  <1>7. UNCHANGED vars => pod' = pod
    BY DEF vars
  <1> QED
    BY <1>1, <1>2, <1>3, <1>4, <1>5, <1>6, <1>7 DEF Next

\* What a control worker goes on with is part of its batch.
LEMMA RestOfBatch ==
  ASSUME NEW c, NEW r, NEW memory, memory = NextInBatch(c, r) \/ memory = Idle
  PROVE  /\ memory.phase \in {"idle", "dispatching"}
         /\ memory.phase = "dispatching" => memory.batch \subseteq ctl[c].batch
  <1> DEFINE rest == ctl[c].batch \ {r}
  <1>1. memory = Idle \/ memory = [Idle EXCEPT !.phase = "dispatching", !.batch = rest]
    BY DEF NextInBatch
  <1>2. Idle.phase = "idle"
    BY DEF Idle
  <1>3. CASE memory = [Idle EXCEPT !.phase = "dispatching", !.batch = rest]
    <2>1. memory.phase = "dispatching" /\ memory.batch = rest
      BY <1>3 DEF Idle
    <2> QED
      BY <2>1
  <1> QED
    BY <1>1, <1>2, <1>3

\* A control worker begins to hold a run by selecting or by claiming it.
LEMMA ControllerHolds ==
  ASSUME TypeInv, EvidenceInv, NEW c \in Controllers, ControllerStep(c), NEW r \in Runs,
         InHand(c, r)' \/ (Reconciling(c)' /\ ctl'[c].run = r)
  PROVE  \/ InHand(c, r) \/ (Reconciling(c) /\ ctl[c].run = r)
         \/ run[r].status # "blocked"
  <1> USE DEF InHand, Reconciling
  <1>0. ctl \in [Controllers -> ControllerState]
    BY DEF TypeInv, TypeOK
  <1>1. ASSUME NEW q, \/ ctl' = [ctl EXCEPT ![c] = NextInBatch(c, q)]
                      \/ ctl' = [ctl EXCEPT ![c] = Idle],
               ctl[c].phase \in {"dispatching", "recording"} \/ ctl'[c] = Idle
        PROVE  InHand(c, r)
    <2>1. ctl'[c] = NextInBatch(c, q) \/ ctl'[c] = Idle
      BY <1>0, <1>1
    <2>2. /\ ctl'[c].phase \in {"idle", "dispatching"}
          /\ ctl'[c].phase = "dispatching" => ctl'[c].batch \subseteq ctl[c].batch
      BY <2>1, RestOfBatch
    <2>3. Idle.phase = "idle"
      BY DEF Idle
    <2> QED
      BY <1>1, <2>2, <2>3
  <1>2. ASSUME NEW seen, Seen(c, seen), Reconciling(c)
        PROVE  Reconciling(c) /\ ctl[c].run = r
    <2>1. ctl'[c].phase = "applying" /\ ctl'[c].run = ctl[c].run
      BY <1>0, <1>2 DEF Seen, ControllerState
    <2> QED
      BY <1>2, <2>1
  <1>3. CASE ReserveBegin(c)
    <2>1. ctl'[c].phase = "reserving"
      BY <1>0, <1>3 DEF ReserveBegin, Idle
    <2> QED
      BY <2>1
  <1>4. CASE ReserveCommit(c)
    <2>1. PICK batch \in SUBSET Candidates :
             \/ ctl' = [ctl EXCEPT ![c] = Idle]
             \/ ctl' = [ctl EXCEPT ![c] = [Idle EXCEPT !.phase = "dispatching", !.batch = batch]]
      BY <1>4 DEF ReserveCommit, Selections
    <2>2. \/ ctl'[c] = Idle
          \/ ctl'[c] = [Idle EXCEPT !.phase = "dispatching", !.batch = batch]
      BY <1>0, <2>1
    <2>3. /\ Idle.phase = "idle"
          /\ [Idle EXCEPT !.phase = "dispatching", !.batch = batch].phase = "dispatching"
          /\ [Idle EXCEPT !.phase = "dispatching", !.batch = batch].batch = batch
      BY DEF Idle
    <2>4. /\ ctl'[c].phase \in {"idle", "dispatching"}
          /\ ctl'[c].phase = "dispatching" => ctl'[c].batch = batch
      BY <2>2, <2>3
    <2> QED
      BY <2>4 DEF Candidates
  <1>5. ASSUME NEW q \in Runs, DispatchJob(c, q) PROVE InHand(c, r)
    BY <1>1, <1>5 DEF DispatchJob
  <1>6. ASSUME NEW q \in Runs, DispatchJobFails(c, q) PROVE InHand(c, r)
    <2>1. /\ ctl'[c].phase = "recording" /\ ctl'[c].run = q /\ ctl'[c].batch = ctl[c].batch
          /\ ctl[c].phase = "dispatching" /\ q \in ctl[c].batch
      BY <1>0, <1>6 DEF DispatchJobFails, ControllerState
    <2> QED
      BY <2>1
  <1>7. CASE RecordDispatchError(c)
    <2>1. \/ ctl' = [ctl EXCEPT ![c] = NextInBatch(c, ctl[c].run)]
          \/ ctl' = [ctl EXCEPT ![c] = Idle]
      BY <1>7 DEF RecordDispatchError
    <2> QED
      BY <1>1, <1>7, <2>1 DEF RecordDispatchError
  <1>8. ASSUME NEW q \in Runs, ReconcileClaim(c, q) PROVE run[r].status # "blocked"
    <2>1. ctl'[c].phase = "observing" /\ ctl'[c].run = q
      BY <1>0, <1>8 DEF ReconcileClaim, Idle
    <2>2. run[q].status # "blocked"
      BY <1>8 DEF ReconcileClaim, Due, EvidenceInv
    <2> QED
      BY <2>1, <2>2
  <1>9. CASE ObserveCleanup(c) \/ ObserveFails(c) \/ RecreateJob(c) \/ RecreateJobFails(c)
    <2>1. Reconciling(c) /\ \E seen : Seen(c, seen)
      BY <1>9 DEF ObserveCleanup, ObserveFails, RecreateJob, RecreateJobFails
    <2> QED
      BY <1>2, <2>1
  <1>10. CASE ObserveJob(c)
    <2>1. CASE \E seen : Seen(c, seen)
      BY <1>2, <1>10, <2>1 DEF ObserveJob
    <2>2. CASE ctl' = [ctl EXCEPT ![c].phase = "creating"]
      <3>1. ctl'[c].phase = "creating" /\ ctl'[c].run = ctl[c].run
        BY <1>0, <2>2 DEF ControllerState
      <3> QED
        BY <1>10, <3>1 DEF ObserveJob
    <2> QED
      BY <1>10, <2>1, <2>2 DEF ObserveJob
  <1>11. CASE ReconcileApply(c) \/ ControllerCrash(c)
    <2>1. ctl'[c].phase = "idle"
      BY <1>0, <1>11 DEF ReconcileApply, ControllerCrash, Idle
    <2> QED
      BY <2>1
  <1> QED
    BY <1>3, <1>4, <1>5, <1>6, <1>7, <1>8, <1>9, <1>10, <1>11 DEF ControllerStep

\* A hand publication is validated for a run that is running.
LEMMA RequestsValidated ==
  ASSUME TypeInv, [Next]_vars, NEW r \in Runs, adminRequest'[r]
  PROVE  adminRequest[r] \/ run[r].status = "running"
  <1>1. ASSUME NEW m \in Missions, CancelMission(m) \/ DeleteMission(m)
        PROVE  adminRequest' = adminRequest
    BY <1>1 DEF CancelMission, DeleteMission
  <1>2. ASSUME NEW q \in Runs, CreateStageRun(q) \/ LeaseExpires(q)
        PROVE  adminRequest' = adminRequest
    BY <1>2 DEF CreateStageRun, LeaseExpires
  <1>3. ASSUME NEW q \in Runs, AdminValidate(q) \/ AdminPublish(q)
        PROVE  adminRequest[r] \/ run[r].status = "running"
    BY <1>3 DEF AdminValidate, AdminPublish, TypeInv, TypeOK
  <1>4. ASSUME NEW c \in Controllers, ControllerStep(c) PROVE adminRequest' = adminRequest
    BY <1>4 DEF ControllerStep, ReserveBegin, ReserveCommit, DispatchJob, DispatchJobFails,
                RecordDispatchError, ReconcileClaim, ObserveCleanup, ObserveJob, ObserveFails,
                RecreateJob, RecreateJobFails, ReconcileApply, ControllerCrash, ObserveUnchanged
  <1>5. ASSUME NEW p \in Pods, PodStep(p) PROVE adminRequest' = adminRequest
    BY <1>5 DEF PodStep, LoadContext, Heartbeat, HandlerReturns, HandlerRaises, PublishResult,
                PublishFails, RecordTerminal, PodSucceeds, PodUnchanged
  <1>6. CASE ClusterStep
    BY <1>6 DEF ClusterStep, StartPod, PodKilled, PodRemoved, JobGone, JobDeadline,
                JobExpires, JobRemoved, ClusterUnchanged
  <1>7. CASE UNCHANGED vars
    BY <1>7 DEF vars
  <1> QED
    BY <1>1, <1>2, <1>3, <1>4, <1>5, <1>6, <1>7 DEF Next, ApiStep

\* Nobody begins to hold a blocked run.
LEMMA HoldersBegin ==
  ASSUME TypeInv, EvidenceInv, [Next]_vars, NEW r \in Runs, Held(r)'
  PROVE  Held(r) \/ run[r].status # "blocked"
  <1>1. CASE adminRequest'[r]
    BY <1>1, RequestsValidated DEF Held
  <1>2. ASSUME NEW p \in Pods, Loaded(p)', pod'[p].run = r
        PROVE  Held(r) \/ run[r].status # "blocked"
    <2>1. pod[p].run = r /\ (Loaded(p) \/ Loadable(r))
      BY <1>2, PodHolds
    <2> QED
      BY <2>1 DEF Held, Loadable, ActiveStatuses
  <1>3. ASSUME NEW c \in Controllers, InHand(c, r)' \/ (Reconciling(c)' /\ ctl'[c].run = r)
        PROVE  Held(r) \/ run[r].status # "blocked"
    <2>1. CASE ctl'[c] = ctl[c]
      BY <1>3, <2>1 DEF Held, InHand, Reconciling
    <2>2. CASE ControllerStep(c)
      BY <1>3, <2>2, ControllerHolds DEF Held
    <2> QED
      BY <2>1, <2>2, MemoryOwned
  <1> QED
    BY <1>1, <1>2, <1>3 DEF Held

-----------------------------------------------------------------------------
\* Initially no run is bound.
LEMMA LineageInit == Init => LineageInv
  <1> SUFFICES ASSUME Init PROVE LineageInv
    OBVIOUS
  <1>1. \A m, stage : ArtifactsOf(artifacts, m, stage) = {}
    BY DEF Init, ArtifactsOf
  <1>2. \A r \in Runs : ~Held(r)
    BY DEF Init, Held, Loaded, InHand, Reconciling, NoPod, Idle
  <1>3. ASSUME NEW r \in Runs, run[r].status \notin Unbound
        PROVE  Bound(artifacts, run[r].upstream, r)
    <2>1. run[r].upstream = {} /\ STAGE_DEPENDENCIES[StageOf[r]] = {}
      BY <1>3 DEF Init, InitialRun, NewRun, Unbound, WaitsForSelectedStage
    <2> QED
      BY <2>1 DEF Bound
  <1> QED
    BY <1>1, <1>2, <1>3 DEF LineageInv, HasNewest

\* Bindings are kept, and made exact.
LEMMA LineageNext == TypeInv /\ EvidenceInv /\ LineageInv /\ [Next]_vars => LineageInv'
  <1> SUFFICES ASSUME TypeInv, EvidenceInv, LineageInv, [Next]_vars PROVE LineageInv'
    OBVIOUS
  <1>0. artifacts \in Seq(Runs) /\ artifacts' \in Seq(Runs)
    BY TypeNext DEF TypeInv, TypeOK
  <1>1. HasNewest(artifacts')
    BY <1>0, ArtifactsGrow, NewestAppended DEF LineageInv
  <1>2. ASSUME NEW r \in Runs, Held(r)'
        PROVE  run'[r].status # "blocked"
    <2>1. run[r].status # "blocked"
      BY <1>2, HoldersBegin DEF LineageInv
    <2> QED
      BY <2>1, AllRows DEF RowStep
  <1>3. ASSUME NEW r \in Runs, run'[r].status \notin Unbound
        PROVE  Bound(artifacts', run'[r].upstream, r)
    <2>1. CASE SameBinding(r)
      <3>1. run[r].status \notin Unbound /\ run'[r].upstream = run[r].upstream
        BY <1>3, <2>1 DEF SameBinding
      <3>2. Bound(artifacts, run'[r].upstream, r)
        BY <3>1 DEF LineageInv
      <3> QED
        BY <1>0, <3>2, ArtifactsGrow, BoundAppended
    <2>2. CASE Released(r)
      BY <1>0, <1>1, <2>2, ReleaseBinds DEF Released
    <2>3. CASE artifacts' = artifacts /\ run'[r].upstream \in UpstreamChoices(r)
      BY <2>3 DEF UpstreamChoices, Bound
    <2> QED
      BY <2>1, <2>2, <2>3, AllBindings DEF Binding
  <1> QED
    BY <1>1, <1>2, <1>3 DEF LineageInv

\* All the invariants so far.
LEMMA LineageInvariance == Spec => [](TypeInv /\ EvidenceInv /\ LineageInv)
  BY Invariance, LineageInit, LineageNext, PTL DEF Spec

\* From the transaction that queues it, a run names exactly one artifact of
\* every stage it depends on, of its own mission, whoever publishes, retries
\* and records meanwhile (release_ready_stage_runs, create_stage_run).
THEOREM LineageCorrect == Spec => []ExactLineage
  <1>1. LineageInv => ExactLineage
    BY DEF LineageInv, ExactLineage, Bound, Unbound, ActiveStatuses
  <1> QED
    BY <1>1, LineageInvariance, PTL

-----------------------------------------------------------------------------
(* The removal of a mission. *)

\* No reply to the creation of a Job is lost, and control workers overlap only
\* if no request fails: a run whose dispatch is recorded as failed has no Job.
FailuresRecordedTruly ==
    /\ "lost_create" \notin Faults
    /\ "request_error" \in Faults => \A c, d \in Controllers : c = d

\* One retention loop at a time: only the leader runs it.
OneRetentionLoop == \A w, v \in Workers : w = v

-----------------------------------------------------------------------------
(* The invariants. *)

\* Neither a Job nor a Pod of the run.
NoCompute(r) == kjob[r].state = "absent" /\ PodsOf(r) = {}

\* The mission of the run has a row, and so may the run.
Known(r) == mission[MissionOf[r]].status # "absent"

\* The runs whose Jobs a control worker is about to create.
Pending(c) == IF ctl[c].phase \in {"dispatching", "recording"} THEN ctl[c].batch ELSE {}

(* A run that is not dispatched has no compute.                              *)
Undispatched ==
    \A r \in Runs :
        /\ run[r].dispatched => run[r].jobName
        /\ Known(r) /\ ~run[r].dispatched => NoCompute(r)

(* A control worker creates the Job of a run that is dispatched; if a request *)
(* of its may fail, the run has no compute before.                            *)
Handling(c) ==
    /\ Reconciling(c) /\ Known(ctl[c].run) => run[ctl[c].run].dispatched
    /\ \A r \in Pending(c) :
         Known(r) => run[r].dispatched /\ ("request_error" \in Faults => NoCompute(r))
    /\ ctl[c].phase = "recording" => "request_error" \in Faults /\ ctl[c].run \in Pending(c)

DispatchInv == Undispatched /\ \A c \in Controllers : Handling(c)

\* What holds of a mission once its compute was found quiescent.
Claimed(m) == objects[m] # "stored" \/ \E w \in Workers : worker[w].mission = m

WorkInv == \A w \in Workers : worker[w].mission = NoMission <=> worker[w].phase = "idle"

(* A mission that was claimed is not live, and nobody writes for it.         *)
ClaimInv ==
    \A m \in Missions : Claimed(m) =>
        /\ mission[m].status # "pending"
        /\ \A p \in Pods : Writing(p) => MissionOf[pod[p].run] # m

(* A mission that was claimed is in the retention loop's sight.              *)
SightInv ==
    /\ \A m \in Missions : Claimed(m) => Retryable(m) \/ mission[m].status = "absent"
    /\ \A m \in Missions :
         mission[m].step = "MANUAL_DELETION_FAILED" => mission[m].status = "deletion_failed"

(* The reason of a deletion is lost by a crash only.                         *)
ReasonKept ==
    /\ \A m \in Missions \ Expiring :
         /\ ledger[m] # "retention_deleted"
         /\ mission[m].status = "deletion_failed" => mission[m].step = "MANUAL_DELETION_FAILED"
         /\ mission[m].status = "deleting" => \E w \in Workers : worker[w].mission = m
    /\ \A w \in Workers : ~worker[w].manual => worker[w].mission \in Expiring \cup {NoMission}

ReasonInv == crashes = 0 => ReasonKept

-----------------------------------------------------------------------------
(* What a retention loop does to the missions and to the rows of the runs. *)

\* A retention loop writes its own memory, missions that exist, and with the row
\* of a mission those of its runs.
LEMMA RetentionSteps ==
  ASSUME TypeInv, DeletionTypeOK, NEW w \in Workers, WorkerStep(w)
  PROVE  /\ UNCHANGED <<artifacts, schedulerLock, ctl, cluster, adminRequest>>
         /\ \A v \in Workers \ {w} : worker'[v] = worker[v]
         /\ crashes' = crashes \/ crashes' = crashes + 1
  BY DEF DeletionTypeOK, WorkerStep, DrainMission, ClaimMission, DeleteObjects, DeletionRaises,
     FailRetention, CompleteRetention, WorkerCrash, database, vars, cluster, deletion

\* A mission that it writes is deleted, or is being deleted, afterwards.
LEMMA RetentionMissions ==
  ASSUME TypeInv, DeletionTypeOK, WorkInv, NEW w \in Workers, WorkerStep(w), NEW m \in Missions
  PROVE  \/ mission'[m] = mission[m]
         \/ /\ mission[m].status # "absent"
            /\ mission'[m].status \in {"deleting", "deletion_failed", "absent"}
            /\ mission'[m].step = "MANUAL_DELETION_FAILED" => mission'[m].status = "deletion_failed"
<1> USE DEF TypeInv, TypeOK
<1>1. ASSUME NEW n \in Missions, DrainMission(w, n) \/ ClaimMission(w, n)
      PROVE  \/ mission'[m] = mission[m]
             \/ /\ mission[m].status # "absent" /\ mission'[m].status = "deleting"
                /\ mission'[m].step # "MANUAL_DELETION_FAILED"
  BY <1>1 DEF DrainMission, ClaimMission, Claimable, Retryable
<1>2. CASE FailRetention(w)
  BY <1>2 DEF FailRetention, Failed
<1>3. CASE CompleteRetention(w)
  BY <1>3 DEF CompleteRetention
<1>4. CASE DeleteObjects(w) \/ DeletionRaises(w) \/ WorkerCrash(w)
  BY <1>4 DEF DeleteObjects, DeletionRaises, WorkerCrash, database, vars
<1> QED
  BY <1>1, <1>2, <1>3, <1>4 DEF WorkerStep

\* A row of a run changes only with the deletion of its mission.
LEMMA RetentionRows ==
  ASSUME TypeInv, DeletionTypeOK, WorkInv, NEW w \in Workers, WorkerStep(w), NEW r \in Runs
  PROVE  \/ run'[r] = run[r]
         \/ /\ run'[r] = NewRun("absent", {})
            /\ mission'[MissionOf[r]].status = "absent"
<1> USE DEF TypeInv, TypeOK
<1>1. CASE CompleteRetention(w)
  <2>1. CASE mission[worker[w].mission].status = "deleting" /\ MissionOf[r] = worker[w].mission
    <3>1. /\ run'[r] = NewRun("absent", {})
          /\ mission' = [mission EXCEPT ![worker[w].mission] = [status |-> "absent", step |-> "none"]]
      BY <1>1, <2>1 DEF CompleteRetention
    <3> QED
      BY <2>1, <3>1, ConstantsAssumption
  <2>2. CASE ~(mission[worker[w].mission].status = "deleting" /\ MissionOf[r] = worker[w].mission)
    BY <1>1, <2>2 DEF CompleteRetention
  <2> QED
    BY <2>1, <2>2
<1>2. CASE ~CompleteRetention(w)
  BY <1>2 DEF WorkerStep, DrainMission, ClaimMission, DeleteObjects, DeletionRaises, FailRetention,
     WorkerCrash, database, vars
<1> QED
  BY <1>1, <1>2

\* A retention loop keeps the types.
LEMMA RetentionTypes ==
  ASSUME TypeInv, DeletionTypeOK, WorkInv, NEW w \in Workers, WorkerStep(w)
  PROVE  TypeInv' /\ DeletionTypeOK' /\ WorkInv'
<1> USE DEF TypeInv, DeletionTypeOK
<1>0. /\ worker \in [Workers -> WorkerState] /\ NoMission \notin Missions
      /\ NoCandidate \in WorkerState
  BY DeletionAssumption DEF NoCandidate, WorkerState
<1>1. mission' \in [Missions -> [status : MissionStatuses, step : MissionSteps]]
  <2> USE DEF TypeOK, MissionStatuses, HaltedStatuses, MissionSteps, ManualSteps
  <2>1. ASSUME NEW n \in Missions, DrainMission(w, n) \/ ClaimMission(w, n)
        PROVE  mission' \in [Missions -> [status : MissionStatuses, step : MissionSteps]]
    BY <2>1 DEF DrainMission, ClaimMission
  <2>2. CASE FailRetention(w)
    BY <2>2 DEF FailRetention, Failed
  <2>3. CASE CompleteRetention(w)
    BY <2>3 DEF CompleteRetention
  <2>4. CASE DeleteObjects(w) \/ DeletionRaises(w) \/ WorkerCrash(w)
    BY <2>4 DEF DeleteObjects, DeletionRaises, WorkerCrash, database, vars
  <2> QED
    BY <2>1, <2>2, <2>3, <2>4 DEF WorkerStep
<1>2. run' \in [Runs -> StageRunRow]
  <2>1. NewRun("absent", {}) \in StageRunRow
    BY NewRunType, StatusNames
  <2>2. run' = run \/ run' = [r \in Runs |-> IF MissionOf[r] = worker[w].mission
                                             THEN NewRun("absent", {}) ELSE run[r]]
    BY DEF WorkerStep, DrainMission, ClaimMission, DeleteObjects, DeletionRaises, FailRetention,
       CompleteRetention, WorkerCrash, database, vars
  <2> QED
    BY <2>1, <2>2 DEF TypeOK
<1>3. crashes' \in 0..MaxCrashes
  BY ConstantsAssumption DEF TypeOK, WorkerStep, DrainMission, ClaimMission, DeleteObjects, DeletionRaises,
     FailRetention, CompleteRetention, WorkerCrash, database, vars
<1>4. TypeInv'
  BY <1>1, <1>2, <1>3, RetentionSteps DEF TypeOK, PodsHaveRuns, cluster
<1>5. worker' \in [Workers -> WorkerState] /\ WorkInv'
  <2>1. ASSUME worker' = worker
        PROVE  worker' \in [Workers -> WorkerState] /\ WorkInv'
    BY <2>1, <1>0 DEF WorkInv
  <2>2. ASSUME worker' = [worker EXCEPT ![w] = NoCandidate]
        PROVE  worker' \in [Workers -> WorkerState] /\ WorkInv'
    BY <1>0, <2>2 DEF WorkInv, NoCandidate
  <2>3. ASSUME NEW m \in Missions,
               worker' = [worker EXCEPT ![w] = [phase |-> "deleting", mission |-> m,
                                                manual |-> Manual(m)]]
        PROVE  worker' \in [Workers -> WorkerState] /\ WorkInv'
    <3>1. Manual(m) \in BOOLEAN
      BY DEF Manual
    <3>2. worker' \in [Workers -> WorkerState]
      BY <1>0, <2>3, <3>1 DEF WorkerState
    <3>3. WorkInv'
      BY <1>0, <2>3 DEF WorkInv
    <3> QED
      BY <3>2, <3>3
  <2>4. ASSUME NEW phase \in {"deleted", "failing"}, worker[w].phase # "idle",
               worker' = [worker EXCEPT ![w].phase = phase]
        PROVE  worker' \in [Workers -> WorkerState] /\ WorkInv'
    <3>1. worker' \in [Workers -> WorkerState]
      BY <1>0, <2>4 DEF WorkerState
    <3>2. WorkInv'
      BY <1>0, <2>4 DEF WorkInv, WorkerState
    <3> QED
      BY <3>1, <3>2
  <2> QED
    BY <2>1, <2>2, <2>3, <2>4 DEF WorkerStep, DrainMission, ClaimMission, DeleteObjects, DeletionRaises,
       FailRetention, CompleteRetention, WorkerCrash, deletion
<1>6. /\ objects' \in [Missions -> {"stored", "partial", "deleted"}]
      /\ ledger' \in [Missions -> {"open", "storage_released", "retention_deleted"}]
  BY DEF WorkerStep, DrainMission, ClaimMission, DeleteObjects, DeletionRaises,
     FailRetention, CompleteRetention, WorkerCrash, deletion
<1> QED
  BY <1>4, <1>5, <1>6

\* Nor does it disturb the cleanup evidence: what it deletes is not running.
LEMMA RetentionEvidence ==
  ASSUME TypeInv, DeletionTypeOK, WorkInv, EvidenceInv, NEW w \in Workers, WorkerStep(w)
  PROVE  EvidenceInv'
<1>0. /\ UNCHANGED <<ctl, kjob, pod>>
      /\ \A r \in Runs : MissionOf[r] \in Missions
  BY RetentionSteps, ConstantsAssumption DEF cluster
<1>1. \A r \in Runs : Retired(r) => Retired(r)'
  <2> SUFFICES ASSUME NEW r \in Runs, Retired(r)
               PROVE  Retired(r)'
    OBVIOUS
  <2>1. mission[MissionOf[r]].status # "pending" => mission'[MissionOf[r]].status # "pending"
    BY <1>0, RetentionMissions
  <2> QED
    BY <2>1, RetentionRows DEF Retired
<1>2. ASSUME NEW r \in Runs, run'[r].cleaned
      PROVE  run[r].cleaned
  BY <1>2, RetentionRows DEF NewRun
<1>3. CleanupEvidenceSound'
  BY <1>0, <1>1, <1>2 DEF EvidenceInv, CleanupEvidenceSound, PodsOf, Writing
<1>4. ASSUME NEW r \in Runs
      PROVE  /\ run'[r].status \in {"absent", "blocked"} => ~run'[r].dispatched
             /\ mission'[MissionOf[r]].status = "absent" => run'[r].status = "absent"
  <2>1. CASE run'[r] = run[r]
    <3>1. CASE mission'[MissionOf[r]] = mission[MissionOf[r]]
      BY <2>1, <3>1 DEF EvidenceInv, Exists
    <3>2. CASE mission'[MissionOf[r]].status = "absent" /\ mission[MissionOf[r]].status # "absent"
      <4>0. mission \in [Missions -> [status : MissionStatuses, step : MissionSteps]]
        BY DEF TypeInv, TypeOK
      <4>1. ASSUME NEW n \in Missions, DrainMission(w, n) \/ ClaimMission(w, n)
            PROVE  FALSE
        <5>1. mission'[n].status = "deleting" /\ \A k \in Missions \ {n} : mission'[k] = mission[k]
          BY <4>0, <4>1 DEF DrainMission, ClaimMission
        <5> QED
          BY <1>0, <3>2, <5>1
      <4>2. ASSUME FailRetention(w)
            PROVE  FALSE
        <5>1. \A k \in Missions : mission'[k] = mission[k] \/ mission'[k].status = "deletion_failed"
          BY <4>0, <4>2 DEF FailRetention, Failed
        <5> QED
          BY <1>0, <3>2, <5>1
      <4>3. CompleteRetention(w)
        BY <4>1, <4>2, <3>2 DEF WorkerStep, DeleteObjects, DeletionRaises, WorkerCrash, database, vars
      <4>4. MissionOf[r] = worker[w].mission /\ mission[worker[w].mission].status = "deleting"
        BY <1>0, <4>0, <3>2, <4>3 DEF CompleteRetention
      <4>5. run'[r] = NewRun("absent", {})
        BY <4>3, <4>4 DEF CompleteRetention
      <4> QED
        BY <4>5 DEF NewRun
    <3>3. CASE mission'[MissionOf[r]].status # "absent"
      BY <2>1, <3>3 DEF EvidenceInv, Exists
    <3> QED
      BY <1>0, <3>1, <3>2, <3>3, RetentionMissions
  <2>2. CASE run'[r] = NewRun("absent", {})
    BY <2>2 DEF NewRun
  <2> QED
    BY <2>1, <2>2, RetentionRows
<1>5. ASSUME NEW c \in Controllers
      PROVE  MemorySound(c)'
  <2>1. MemorySound(c)
    BY DEF EvidenceInv
  <2>2. Reconciling(c)' = Reconciling(c)
    BY <1>0 DEF Reconciling
  <2> QED
    BY <1>0, <1>1, <2>1, <2>2 DEF MemorySound, Retired, PodsOf, Writing
<1> QED
  BY <1>3, <1>4, <1>5 DEF EvidenceInv, Exists

\* The types and the evidence, together.
DeletionInv == TypeInv /\ DeletionTypeOK /\ WorkInv /\ EvidenceInv

\* They hold of new missions.
LEMMA DeletionInvInit == DeletionInit => DeletionInv
<1>1. DeletionInit => DeletionTypeOK /\ WorkInv
  <2> SUFFICES ASSUME DeletionInit
               PROVE  DeletionTypeOK /\ WorkInv
    OBVIOUS
  <2>1. TypeOK
    BY TypeInit DEF DeletionInit, TypeInv
  <2> QED
    BY <2>1, DeletionAssumption DEF DeletionInit, DeletionTypeOK, WorkInv, NoCandidate, WorkerState
<1> QED
  BY <1>1, TypeInit, EvidenceInit DEF DeletionInit, DeletionInv

\* Every step keeps them.
LEMMA DeletionInvNext ==
  ASSUME DeletionInv, [DeletionNext]_allVars
  PROVE  DeletionInv'
<1>1. CASE [Next]_vars /\ UNCHANGED deletion
  <2>1. TypeInv' /\ EvidenceInv'
    BY <1>1, TypeNext, EvidenceNext DEF DeletionInv
  <2>2. DeletionTypeOK' /\ WorkInv'
    BY <1>1, <2>1 DEF DeletionInv, DeletionTypeOK, WorkInv, deletion, TypeInv
  <2> QED
    BY <2>1, <2>2 DEF DeletionInv
<1>2. ASSUME NEW w \in Workers, WorkerStep(w)
      PROVE  DeletionInv'
  BY <1>2, RetentionTypes, RetentionEvidence DEF DeletionInv
<1> QED
  BY <1>1, <1>2 DEF DeletionNext, allVars

\* A step is one of the stage machinery or one of a retention loop.
LEMMA Steps ==
  ASSUME [DeletionNext]_allVars
  PROVE  ([Next]_vars /\ UNCHANGED deletion) \/ \E w \in Workers : WorkerStep(w)
  BY DEF DeletionNext, allVars

\* Throughout, then.
LEMMA DeletionInvariance == DeletionSpec => []DeletionInv
  BY DeletionInvInit, DeletionInvNext, PTL DEF DeletionSpec

(* Beside deletions too, which remove the rows of the runs, every variable   *)
(* keeps its type and recorded cleanup evidence is sound.                    *)
THEOREM EvidenceBesideDeletion == DeletionSpec => []DeletionTypeOK /\ []CleanupEvidenceSound
<1>1. DeletionInv => DeletionTypeOK /\ CleanupEvidenceSound
  BY DEF DeletionInv, EvidenceInv
<1> QED
  BY <1>1, DeletionInvariance, PTL

-----------------------------------------------------------------------------
(* Who is dispatched, and who creates the Jobs. *)

\* A step that leaves the dispatch of a run alone.
SameDispatch(q) ==
    /\ run'[q].dispatched = run[q].dispatched
    /\ run'[q].dispatched => run'[q].jobName = run[q].jobName

\* Both publication routes do.
LEMMA PublishDispatch ==
  ASSUME TypeInv, NEW r \in Runs, PublishArtifact(r), NEW q \in Runs
  PROVE  SameDispatch(q)
<1> DEFINE rows == [run EXCEPT ![r].status = "succeeded"]
<1>1. rows \in [Runs -> StageRunRow]
  BY SetStatusType, StatusNames DEF TypeInv, TypeOK
<1>2. rows[q].dispatched = run[q].dispatched /\ rows[q].jobName = run[q].jobName
  BY DEF TypeInv, TypeOK, StageRunRow
<1> HIDE DEF rows
<1>3. run' = ReleaseReady(rows, Append(artifacts, r), MissionOf[r])
  BY DEF PublishArtifact, rows
<1>4. run'[q].dispatched = rows[q].dispatched /\ run'[q].jobName = rows[q].jobName
  BY <1>1, <1>3 DEF ReleaseReady, StageRunRow
<1> QED
  BY <1>2, <1>4 DEF SameDispatch

\* And so does whatever writes the status only.
LEMMA StatusDispatch ==
  ASSUME TypeInv, NEW r, NEW status, run' = [run EXCEPT ![r].status = status], NEW q \in Runs
  PROVE  SameDispatch(q)
  BY DEF SameDispatch, TypeInv, TypeOK, StageRunRow

\* The API and the executors.
LEMMA ApiDispatch ==
  ASSUME TypeInv, EvidenceInv,
         ApiStep \/ (\E r \in Runs : LeaseExpires(r)) \/ (\E p \in Pods : PodStep(p)), NEW q \in Runs
  PROVE  SameDispatch(q)
<1>0. run \in [Runs -> StageRunRow]
  BY DEF TypeInv, TypeOK
<1>same. ASSUME run'[q] = run[q]
         PROVE  SameDispatch(q)
  BY <1>same DEF SameDispatch
<1>1. ASSUME NEW m \in Missions, CancelMission(m) \/ DeleteMission(m)
      PROVE  SameDispatch(q)
  BY <1>0, <1>1 DEF CancelMission, DeleteMission, CancelActiveRuns, SameDispatch, StageRunRow
<1>2. ASSUME NEW r \in Runs, CreateStageRun(r)
      PROVE  SameDispatch(q)
  <2>1. PICK upstream : run' = [run EXCEPT ![r] = NewRun("queued", upstream)]
    BY <1>2 DEF CreateStageRun
  <2>2. CASE q = r
    <3>1. ~run[q].dispatched
      BY <1>2, <2>2 DEF CreateStageRun, Exists, EvidenceInv
    <3>2. run'[q].dispatched = FALSE
      BY <1>0, <2>1, <2>2 DEF NewRun
    <3>3. run[q].dispatched \in BOOLEAN
      BY <1>0 DEF StageRunRow
    <3> QED
      BY <3>1, <3>2, <3>3 DEF SameDispatch
  <2>3. CASE q # r
    BY <1>0, <1>same, <2>1, <2>3
  <2> QED
    BY <2>2, <2>3
<1>3. ASSUME NEW r \in Runs, AdminValidate(r) \/ AdminPublish(r)
      PROVE  SameDispatch(q)
  BY <1>3, <1>same, PublishDispatch DEF AdminValidate, AdminPublish, database
<1>4. ASSUME NEW r \in Runs, LeaseExpires(r)
      PROVE  SameDispatch(q)
  BY <1>0, <1>4 DEF LeaseExpires, SameDispatch, StageRunRow
<1>5. ASSUME NEW p \in Pods, PodStep(p)
      PROVE  SameDispatch(q)
  <2> DEFINE r == pod[p].run
  <2>1. CASE \E status : run' = [run EXCEPT ![r].status = status]
    BY <2>1, StatusDispatch
  <2>2. CASE run' = run
    BY <2>2, <1>same
  <2>3. CASE PublishArtifact(r) /\ pod[p].phase = "publishing"
    <3>1. r \in Runs
      BY <2>3 DEF TypeInv, PodsHaveRuns
    <3> QED
      BY <2>3, <3>1, PublishDispatch
  <2>4. \/ \E status : run' = [run EXCEPT ![r].status = status]
        \/ run' = run
        \/ PublishArtifact(r) /\ pod[p].phase = "publishing"
    <3>1. CASE LoadContext(p)
      BY <3>1 DEF LoadContext
    <3>2. CASE Heartbeat(p)
      BY <3>2 DEF Heartbeat
    <3>3. CASE HandlerReturns(p)
      BY <3>3 DEF HandlerReturns
    <3>4. CASE HandlerRaises(p) \/ PublishFails(p) \/ PodSucceeds(p)
      BY <3>4 DEF HandlerRaises, PublishFails, PodSucceeds
    <3>5. CASE PublishResult(p)
      BY <3>5 DEF PublishResult
    <3>6. CASE RecordTerminal(p)
      BY <3>6 DEF RecordTerminal
    <3> QED
      BY <1>5, <3>1, <3>2, <3>3, <3>4, <3>5, <3>6 DEF PodStep
  <2> QED
    BY <2>1, <2>2, <2>3, <2>4
<1> QED
  BY <1>1, <1>2, <1>3, <1>4, <1>5 DEF ApiStep

\* A row that an observation is applied to keeps its dispatch.
LEMMA AppliedDispatch ==
  ASSUME NEW row \in StageRunRow, NEW c
  PROVE  AppliedTo(row, c).dispatched = row.dispatched /\ AppliedTo(row, c).jobName = row.jobName
<1>1. CASE ctl[c].seen \in {"missing", "missing_error"}
  BY <1>1 DEF AppliedTo, StageRunRow
<1>2. CASE ctl[c].seen \in {"clean", "unclean"}
  BY <1>2 DEF AppliedTo, StageRunRow
<1>3. CASE ctl[c].seen \in {"failed", "complete", "active"}
  BY <1>3 DEF AppliedTo, StageRunRow
<1>4. CASE ctl[c].seen \notin {"missing", "missing_error", "clean", "unclean",
                               "failed", "complete", "active"}
  BY <1>4 DEF AppliedTo
<1> QED
  BY <1>1, <1>2, <1>3, <1>4

\* Nor does the end of a lease touch it.
LEMMA ReleasedDispatch ==
  ASSUME NEW row \in StageRunRow
  PROVE  LET released == [row EXCEPT !.token = NoController, !.leaseLive = FALSE] IN
         /\ released \in StageRunRow
         /\ released.dispatched = row.dispatched /\ released.jobName = row.jobName
  BY DEF StageRunRow

\* A control worker dispatches a candidate by a reservation, and takes that back
\* by recording an error.
Dispatches(q) ==
    \/ SameDispatch(q)
    \/ /\ \E c \in Controllers : ReserveCommit(c)
       /\ q \in Candidates /\ run'[q].dispatched /\ run'[q].jobName
    \/ \E c \in Controllers : RecordDispatchError(c) /\ ctl[c].run = q /\ ~run'[q].dispatched

\* No other step of a control worker does either.
LEMMA ControllerDispatch ==
  ASSUME TypeInv, EvidenceInv, NEW c \in Controllers, ControllerStep(c), NEW q \in Runs
  PROVE  Dispatches(q)
<1>0. run \in [Runs -> StageRunRow]
  BY DEF TypeInv, TypeOK
<1>same. ASSUME run'[q] = run[q]
         PROVE  Dispatches(q)
  BY <1>same DEF SameDispatch, Dispatches
<1>1. CASE ReserveCommit(c)
  <2> DEFINE unplanned == {r \in Candidates \cap InvalidRuns : StageOf[r] = "detection"}
  <2>1. PICK selection \in Selections(ctl[c].batch, Candidates \ unplanned) :
            run' = [r \in Runs |->
                      IF r \in unplanned \cup (selection \cap InvalidRuns)
                      THEN [run[r] EXCEPT !.status = "failed"]
                      ELSE IF r \in selection \ InvalidRuns
                      THEN [run[r] EXCEPT !.dispatched = TRUE, !.jobName = TRUE,
                                          !.attempts = @ + 1]
                      ELSE run[r]]
    BY <1>1 DEF ReserveCommit
  <2>2. selection \subseteq Candidates
    BY DEF Selections
  <2>3. \/ run'[q] = run[q] \/ run'[q] = [run[q] EXCEPT !.status = "failed"]
        \/ /\ q \in Candidates
           /\ run'[q] = [run[q] EXCEPT !.dispatched = TRUE, !.jobName = TRUE, !.attempts = @ + 1]
    BY <2>1, <2>2
  <2>4. CASE run'[q] = [run[q] EXCEPT !.status = "failed"]
    BY <1>0, <2>4 DEF Dispatches, SameDispatch, StageRunRow
  <2>5. CASE /\ q \in Candidates
             /\ run'[q] = [run[q] EXCEPT !.dispatched = TRUE, !.jobName = TRUE, !.attempts = @ + 1]
    <3>1. run'[q].dispatched /\ run'[q].jobName
      BY <1>0, <2>5 DEF StageRunRow
    <3> QED
      BY <1>1, <2>5, <3>1 DEF Dispatches
  <2> QED
    BY <1>same, <2>3, <2>4, <2>5
<1>2. CASE RecordDispatchError(c)
  <2> DEFINE r == ctl[c].run
  <2>1. CASE run' = run
    BY <1>same, <2>1
  <2>2. CASE run' = [run EXCEPT ![r].status = "failed"]
    BY <2>2, StatusDispatch DEF Dispatches
  <2>3. CASE run' = [run EXCEPT ![r].dispatched = FALSE]
    <3>1. CASE q = r
      <4>1. ~run'[q].dispatched
        BY <1>0, <2>3, <3>1 DEF StageRunRow
      <4> QED
        BY <1>2, <3>1, <4>1 DEF Dispatches
    <3>2. CASE q # r
      BY <1>0, <1>same, <2>3, <3>2
    <3> QED
      BY <3>1, <3>2
  <2> QED
    BY <1>2, <2>1, <2>2, <2>3 DEF RecordDispatchError
<1>3. ASSUME NEW r \in Runs, ReconcileClaim(c, r)
      PROVE  Dispatches(q)
  BY <1>0, <1>3 DEF ReconcileClaim, Dispatches, SameDispatch, StageRunRow
<1>4. CASE ReconcileApply(c)
  <2> DEFINE r == ctl[c].run
             released == [run[r] EXCEPT !.token = NoController, !.leaseLive = FALSE]
  <2>1. r \in Runs
    BY <1>4 DEF ReconcileApply, EvidenceInv, MemorySound, Reconciling
  <2>2. /\ released \in StageRunRow
        /\ released.dispatched = run[r].dispatched /\ released.jobName = run[r].jobName
    BY <1>0, <2>1, ReleasedDispatch
  <2>3. \/ run' = run
        \/ run' = [run EXCEPT ![r] = released]
        \/ run' = [run EXCEPT ![r] = AppliedTo(released, c)]
    BY <1>4 DEF ReconcileApply
  <2> HIDE DEF released
  <2>4. \/ run'[q] = run[q]
        \/ q = r /\ run'[q] \in {released, AppliedTo(released, c)}
    BY <1>0, <2>1, <2>3
  <2> QED
    BY <1>same, <2>2, <2>4, AppliedDispatch DEF Dispatches, SameDispatch
<1>5. ASSUME ~ReserveCommit(c), ~RecordDispatchError(c), ~\E r \in Runs : ReconcileClaim(c, r),
             ~ReconcileApply(c)
      PROVE  run' = run
  BY <1>5 DEF ControllerStep, ReserveBegin, DispatchJob, DispatchJobFails, ObserveCleanup, ObserveJob,
     ObserveFails, RecreateJob, RecreateJobFails, ControllerCrash, ObserveUnchanged, database
<1> QED
  BY <1>1, <1>2, <1>3, <1>4, <1>5, <1>same

\* Nor does any other step.
LEMMA AllDispatches ==
  ASSUME TypeInv, EvidenceInv, [Next]_vars, NEW q \in Runs
  PROVE  Dispatches(q)
<1>1. CASE ClusterStep
  <2>1. run' = run
    BY <1>1 DEF ClusterStep, StartPod, PodKilled, PodRemoved, JobGone, JobDeadline,
                JobExpires, JobRemoved, ClusterUnchanged, database
  <2> QED
    BY <2>1 DEF Dispatches, SameDispatch
<1>2. CASE UNCHANGED vars
  BY <1>2 DEF Dispatches, SameDispatch, vars
<1> QED
  BY <1>1, <1>2, ApiDispatch, ControllerDispatch DEF Next, Dispatches

\* The Job of a run without compute is created by a control worker whose turn it
\* is, and in no other way.
Creates(c, r) ==
    \/ r \in Pending(c) /\ ctl[c].phase = "dispatching" /\ DispatchJob(c, r)
    \/ ctl[c].phase = "creating" /\ ctl[c].run = r

\* The steps of a control worker.
LEMMA ControllerComputes ==
  ASSUME FailuresRecordedTruly, TypeInv, NEW c \in Controllers, ControllerStep(c), NEW r \in Runs, NoCompute(r),
         ~Creates(c, r)
  PROVE  NoCompute(r)'
<1>0. kjob \in [Runs -> [state : JobStates, deleting : BOOLEAN]]
  BY DEF TypeInv, TypeOK
<1>1. UNCHANGED pod
  BY DEF ControllerStep, ReserveBegin, ReserveCommit, DispatchJob, DispatchJobFails,
         RecordDispatchError, ReconcileClaim, ObserveCleanup, ObserveJob, ObserveFails,
         RecreateJob, RecreateJobFails, ReconcileApply, ControllerCrash,
         ObserveUnchanged, cluster
<1>2. ASSUME NEW q, q # r, JobCreated(q)
      PROVE  kjob'[r] = kjob[r]
  BY <1>0, <1>2 DEF JobCreated
<1>3. ASSUME NEW q \in Runs, DispatchJob(c, q)
      PROVE  kjob'[r] = kjob[r]
  BY <1>2, <1>3 DEF DispatchJob, Creates, Pending
<1>4. ASSUME NEW q \in Runs, DispatchJobFails(c, q)
      PROVE  kjob'[r] = kjob[r]
  BY <1>4 DEF DispatchJobFails, FailuresRecordedTruly
<1>5. ASSUME ObserveCleanup(c)
      PROVE  kjob'[r] = kjob[r]
  <2>1. \/ kjob' = kjob
        \/ ctl[c].run # r /\ kjob' = [kjob EXCEPT ![ctl[c].run].deleting = TRUE]
    BY <1>5 DEF ObserveCleanup, NoCompute
  <2> QED
    BY <1>0, <2>1
<1>6. ASSUME RecreateJob(c) \/ RecreateJobFails(c)
      PROVE  kjob'[r] = kjob[r]
  <2>1. ctl[c].run # r /\ (kjob' = kjob \/ JobCreated(ctl[c].run))
    BY <1>6 DEF RecreateJob, RecreateJobFails, Creates
  <2> QED
    BY <1>2, <2>1
<1>7. ASSUME \/ ReserveBegin(c) \/ ReserveCommit(c) \/ RecordDispatchError(c)
             \/ \E q \in Runs : ReconcileClaim(c, q)
             \/ ObserveJob(c) \/ ObserveFails(c) \/ ReconcileApply(c) \/ ControllerCrash(c)
      PROVE  kjob'[r] = kjob[r]
  BY <1>7 DEF ReserveBegin, ReserveCommit, RecordDispatchError, ReconcileClaim, ObserveJob, ObserveFails,
     ReconcileApply, ControllerCrash, cluster
<1>8. kjob'[r] = kjob[r]
  BY <1>3, <1>4, <1>5, <1>6, <1>7 DEF ControllerStep
<1> QED
  BY <1>1, <1>8 DEF NoCompute, PodsOf

\* The steps of an executor, which only ends a Job that is active.
LEMMA ExecutorComputes ==
  ASSUME TypeInv, NEW p \in Pods, PodStep(p) \/ PodKilled(p), NEW r \in Runs, NoCompute(r)
  PROVE  NoCompute(r)'
<1>0. /\ kjob \in [Runs -> [state : JobStates, deleting : BOOLEAN]]
      /\ pod \in [Pods -> [run : Runs \cup {NoRun}, phase : PodPhases, owned : BOOLEAN]]
  BY DEF TypeInv, TypeOK
<1>1. ASSUME NEW phase, MoveTo(p, phase)
      PROVE  \A q \in Pods : pod'[q].run = pod[q].run
  BY <1>0, <1>1 DEF MoveTo
<1>2. ASSUME NEW outcome, PodEnds(p, outcome)
      PROVE  kjob'[r] = kjob[r] /\ \A q \in Pods : pod'[q].run = pod[q].run
  <2>1. kjob'[r] = kjob[r]
    BY <1>0, <1>2 DEF PodEnds, NoCompute
  <2> QED
    BY <1>1, <1>2, <2>1 DEF PodEnds
<1>3. kjob'[r] = kjob[r] /\ \A q \in Pods : pod'[q].run = pod[q].run
  <2>1. CASE LoadContext(p)
    BY <1>1, <1>2, <2>1 DEF LoadContext
  <2>2. CASE Heartbeat(p)
    BY <2>2 DEF Heartbeat, cluster
  <2>3. CASE HandlerReturns(p) \/ HandlerRaises(p)
    BY <1>1, <2>3 DEF HandlerReturns, HandlerRaises
  <2>4. CASE PublishResult(p) \/ PublishFails(p)
    BY <1>1, <2>4 DEF PublishResult, PublishFails
  <2>5. CASE RecordTerminal(p) \/ PodSucceeds(p)
    BY <1>2, <2>5 DEF RecordTerminal, PodSucceeds
  <2>6. CASE PodKilled(p)
    BY <1>2, <2>6 DEF PodKilled
  <2> QED
    BY <2>1, <2>2, <2>3, <2>4, <2>5, <2>6 DEF PodStep
<1> QED
  BY <1>3 DEF NoCompute, PodsOf

\* The steps of the cluster, which starts Pods for Jobs that exist.
LEMMA ClusterComputes ==
  ASSUME TypeInv, ClusterStep, NEW r \in Runs, NoCompute(r)
  PROVE  NoCompute(r)'
<1>0. /\ kjob \in [Runs -> [state : JobStates, deleting : BOOLEAN]]
      /\ pod \in [Pods -> [run : Runs \cup {NoRun}, phase : PodPhases, owned : BOOLEAN]]
  BY DEF TypeInv, TypeOK
<1>1. ASSUME NEW q \in Runs, NEW p \in Pods, StartPod(q, p)
      PROVE  NoCompute(r)'
  <2>1. q # r
    BY <1>1 DEF StartPod, NewJob, NoCompute
  <2> QED
    BY <1>0, <1>1, <2>1 DEF StartPod, NoCompute, PodsOf
<1>2. ASSUME NEW q \in Runs, JobGone(q) \/ JobDeadline(q) \/ JobExpires(q)
      PROVE  NoCompute(r)'
  BY <1>0, <1>2 DEF JobGone, JobDeadline, JobExpires, NoJob, NoCompute, PodsOf
<1>3. ASSUME NEW q \in Runs, JobRemoved(q)
      PROVE  NoCompute(r)'
  <2>1. kjob'[r].state = "absent"
    BY <1>0, <1>3 DEF JobRemoved, NoJob, NoCompute
  <2>2. \A p \in Pods : pod'[p].run = pod[p].run
    BY <1>0, <1>3 DEF JobRemoved
  <2> QED
    BY <2>1, <2>2 DEF NoCompute, PodsOf
<1>4. ASSUME NEW p \in Pods, PodRemoved(p)
      PROVE  NoCompute(r)'
  BY <1>0, <1>4, ConstantsAssumption DEF PodRemoved, NoPod, NoCompute, PodsOf
<1> QED
  BY <1>1, <1>2, <1>3, <1>4, ExecutorComputes DEF ClusterStep

\* All of them.
LEMMA AllComputes ==
  ASSUME FailuresRecordedTruly, TypeInv, [Next]_vars, NEW r \in Runs, NoCompute(r)
  PROVE  NoCompute(r)' \/ \E c \in Controllers : ControllerStep(c) /\ Creates(c, r)
<1>1. CASE ApiStep \/ (\E q \in Runs : LeaseExpires(q)) \/ UNCHANGED vars
  <2>1. UNCHANGED <<kjob, pod>>
    BY <1>1 DEF ApiStep, CancelMission, DeleteMission, CreateStageRun, AdminValidate, AdminPublish,
       LeaseExpires, cluster, vars
  <2> QED
    BY <2>1 DEF NoCompute, PodsOf
<1> QED
  BY <1>1, ControllerComputes, ExecutorComputes, ClusterComputes DEF Next

-----------------------------------------------------------------------------
(* The dispatch invariant. *)

\* The steps of the stage machinery neither create nor delete a mission.
LEMMA KnownKept ==
  ASSUME TypeInv, [Next]_vars, NEW r \in Runs
  PROVE  Known(r)' = Known(r)
<1>1. MissionOf[r] \in Missions
  BY ConstantsAssumption
<1>2. \/ mission'[MissionOf[r]].status = mission[MissionOf[r]].status
      \/ mission[MissionOf[r]].status # "absent" /\ mission'[MissionOf[r]].status = "cancelled"
  BY <1>1, MissionStep
<1> QED
  BY <1>2 DEF Known

\* A control worker that records an error has no other beside it.
LEMMA RecordsAlone ==
  ASSUME FailuresRecordedTruly, DispatchInv, NEW c \in Controllers, NEW d \in Controllers,
         ctl[d].phase = "recording"
  PROVE  c = d
  BY DEF FailuresRecordedTruly, DispatchInv, Handling

\* Dispatch is taken back by the one that records an error only.
LEMMA DispatchKept ==
  ASSUME FailuresRecordedTruly, TypeInv, EvidenceInv, DispatchInv, [Next]_vars,
         NEW c \in Controllers, NEW r \in Runs, run[r].dispatched,
         ~(RecordDispatchError(c) /\ ctl[c].run = r)
  PROVE  run'[r].dispatched
<1>1. Dispatches(r)
  BY AllDispatches
<1>2. ASSUME NEW d \in Controllers, RecordDispatchError(d), ctl[d].run = r
      PROVE  FALSE
  <2>1. d = c
    BY <1>2, RecordsAlone DEF RecordDispatchError
  <2> QED
    BY <1>2, <2>1
<1> QED
  BY <1>1, <1>2 DEF Dispatches, SameDispatch

\* The Job of a run that a control worker is about to create, when a request of
\* its may fail, is created by no other.
LEMMA ComputeKept ==
  ASSUME FailuresRecordedTruly, TypeInv, DispatchInv, [Next]_vars, "request_error" \in Faults,
         NEW c \in Controllers, NEW r \in Pending(c), r \in Runs, NoCompute(r), ~DispatchJob(c, r)
  PROVE  NoCompute(r)'
<1>1. ASSUME NEW d \in Controllers, Creates(d, r)
      PROVE  FALSE
  <2>1. d = c
    BY DEF FailuresRecordedTruly
  <2> QED
    BY <1>1, <2>1 DEF Creates, Pending
<1> QED
  BY <1>1, AllComputes

\* What is left of a batch.
LEMMA NextInBatchFields ==
  ASSUME NEW c, NEW r
  PROVE  /\ NextInBatch(c, r).phase \in {"idle", "dispatching"}
         /\ NextInBatch(c, r).batch = ctl[c].batch \ {r}
<1>1. CASE ctl[c].batch \ {r} = {}
  BY <1>1 DEF NextInBatch, Idle
<1>2. CASE ctl[c].batch \ {r} # {}
  <2>1. NextInBatch(c, r) = [Idle EXCEPT !.phase = "dispatching", !.batch = ctl[c].batch \ {r}]
    BY <1>2 DEF NextInBatch
  <2> QED
    BY <2>1 DEF Idle
<1> QED
  BY <1>1, <1>2

\* What a control worker handles stays so during the steps of the others ...
LEMMA HandlingKept ==
  ASSUME FailuresRecordedTruly, TypeInv, EvidenceInv, DispatchInv, [Next]_vars,
         NEW c \in Controllers, ctl'[c] = ctl[c]
  PROVE  Handling(c)'
<1>0. Handling(c) /\ Pending(c) \in SUBSET Runs /\ ctl \in [Controllers -> ControllerState]
  BY DEF DispatchInv, TypeInv, TypeOK, Pending, ControllerState
<1>1. ~RecordDispatchError(c)
  <2>1. SUFFICES ASSUME RecordDispatchError(c)
                 PROVE  FALSE
    OBVIOUS
  <2>2. ctl'[c] = Idle \/ ctl'[c] = NextInBatch(c, ctl[c].run)
    BY <1>0, <2>1 DEF RecordDispatchError
  <2>3. ctl'[c].phase \in {"idle", "dispatching"}
    BY <2>2, NextInBatchFields DEF Idle
  <2> QED
    BY <2>1, <2>3 DEF RecordDispatchError
<1>2. ASSUME NEW r \in Runs, DispatchJob(c, r)
      PROVE  FALSE
  <2>1. ctl'[c] = NextInBatch(c, r) /\ r \in ctl[c].batch
    BY <1>0, <1>2 DEF DispatchJob
  <2>2. r \notin ctl'[c].batch
    BY <2>1, NextInBatchFields
  <2> QED
    BY <2>1, <2>2
<1>3. Reconciling(c) => ctl[c].run \in Runs
  BY DEF EvidenceInv, MemorySound
<1>4. ASSUME Reconciling(c), NEW r \in Runs, r = ctl[c].run, Known(r)'
      PROVE  run'[r].dispatched
  BY <1>0, <1>1, <1>4, KnownKept, DispatchKept DEF Handling
<1>5. ASSUME NEW r \in Pending(c), Known(r)'
      PROVE  run'[r].dispatched /\ ("request_error" \in Faults => NoCompute(r)')
  <2>1. r \in Runs /\ run[r].dispatched /\ ("request_error" \in Faults => NoCompute(r))
    BY <1>0, <1>5, KnownKept DEF Handling
  <2> QED
    BY <1>1, <1>2, <2>1, DispatchKept, ComputeKept
<1>6. Reconciling(c)' = Reconciling(c) /\ Pending(c)' = Pending(c)
  BY DEF Reconciling, Pending
<1> QED
  BY <1>0, <1>3, <1>4, <1>5, <1>6 DEF Handling, Known

\* ... and in its own.
LEMMA HandlingStep ==
  ASSUME FailuresRecordedTruly, TypeInv, EvidenceInv, DispatchInv, [Next]_vars,
         NEW c \in Controllers, ControllerStep(c)
  PROVE  Handling(c)'
<1>0. /\ Handling(c) /\ Pending(c) \in SUBSET Runs /\ ctl \in [Controllers -> ControllerState]
      /\ Reconciling(c) => ctl[c].run \in Runs
      /\ run \in [Runs -> StageRunRow]
  BY DEF DispatchInv, TypeInv, TypeOK, Pending, ControllerState, EvidenceInv, MemorySound
<1>idle. ASSUME ctl'[c].phase \in {"idle", "reserving"}
         PROVE  Handling(c)'
  BY <1>idle DEF Handling, Reconciling, Pending
<1>going. ASSUME NEW r \in Pending(c), ctl'[c] = NextInBatch(c, r),
                 ~\E q \in Runs \ {r} : DispatchJob(c, q) \/ (RecordDispatchError(c) /\ ctl[c].run = q)
          PROVE  Handling(c)'
  <2>1. CASE ctl'[c].phase = "idle"
    BY <1>idle, <2>1
  <2>2. CASE ctl'[c].phase # "idle"
    <3>1. ctl'[c].phase = "dispatching" /\ Pending(c)' = Pending(c) \ {r}
      BY <1>going, <2>2, NextInBatchFields DEF Pending
    <3>2. ASSUME NEW q \in Pending(c) \ {r}, Known(q)'
          PROVE  run'[q].dispatched /\ ("request_error" \in Faults => NoCompute(q)')
      <4>1. q \in Runs /\ run[q].dispatched /\ ("request_error" \in Faults => NoCompute(q))
        BY <1>0, <3>2, KnownKept DEF Handling
      <4> QED
        BY <1>going, <3>2, <4>1, DispatchKept, ComputeKept
    <3> QED
      BY <3>1, <3>2 DEF Handling, Reconciling
  <2> QED
    BY <2>1, <2>2
<1>away. ASSUME Reconciling(c), ctl'[c].phase \in {"creating", "applying"}, ctl'[c].run = ctl[c].run
         PROVE  Handling(c)'
  <2>0. PICK r \in Runs : r = ctl[c].run
    BY <1>0, <1>away
  <2>1. Known(r)' => run'[r].dispatched
    <3>1. ~RecordDispatchError(c)
      BY <1>away DEF RecordDispatchError, Reconciling
    <3> QED
      BY <1>0, <1>away, <2>0, <3>1, KnownKept, DispatchKept DEF Handling
  <2>2. Pending(c)' = {} /\ ctl'[c].phase # "recording" /\ ctl'[c].run = r
    BY <1>away, <2>0 DEF Pending
  <2> QED
    BY <2>1, <2>2 DEF Handling, Known
<1>1. CASE ReserveBegin(c)
  <2>1. ctl'[c].phase = "reserving"
    BY <1>0, <1>1 DEF ReserveBegin, Idle
  <2> QED
    BY <1>idle, <2>1
<1>2. CASE ReserveCommit(c)
  <2> DEFINE unplanned == {r \in Candidates \cap InvalidRuns : StageOf[r] = "detection"}
  <2>1. PICK selection \in Selections(ctl[c].batch, Candidates \ unplanned) :
            /\ run' = [r \in Runs |->
                         IF r \in unplanned \cup (selection \cap InvalidRuns)
                         THEN [run[r] EXCEPT !.status = "failed"]
                         ELSE IF r \in selection \ InvalidRuns
                         THEN [run[r] EXCEPT !.dispatched = TRUE, !.jobName = TRUE,
                                             !.attempts = @ + 1]
                         ELSE run[r]]
            /\ ctl' = [ctl EXCEPT ![c] =
                         IF selection \ InvalidRuns = {} THEN Idle
                         ELSE [Idle EXCEPT !.phase = "dispatching",
                                           !.batch = selection \ InvalidRuns]]
    BY <1>2 DEF ReserveCommit
  <2>2. selection \subseteq Candidates
    BY DEF Selections
  <2>3. CASE selection \ InvalidRuns = {}
    BY <1>0, <1>idle, <2>1, <2>3 DEF Idle
  <2>4. CASE selection \ InvalidRuns # {}
    <3>1. ctl'[c].phase = "dispatching" /\ ctl'[c].batch = selection \ InvalidRuns
      BY <1>0, <2>1, <2>4 DEF Idle
    <3>2. ASSUME NEW r \in selection \ InvalidRuns, Known(r)'
          PROVE  run'[r].dispatched /\ NoCompute(r)'
      <4>1. r \in Runs /\ ~run[r].dispatched /\ r \notin unplanned
        BY <2>2 DEF Candidates
      <4>2. run'[r].dispatched
        BY <1>0, <2>1, <4>1 DEF StageRunRow
      <4>3. NoCompute(r)
        BY <3>2, <4>1, KnownKept DEF DispatchInv, Undispatched
      <4>4. UNCHANGED <<kjob, pod>>
        BY <1>2 DEF ReserveCommit, cluster
      <4> QED
        BY <4>2, <4>3, <4>4 DEF NoCompute, PodsOf
    <3> QED
      BY <3>1, <3>2 DEF Handling, Reconciling, Pending
  <2> QED
    BY <2>3, <2>4
<1>3. ASSUME NEW r \in Runs, DispatchJob(c, r)
      PROVE  Handling(c)'
  <2>1. r \in Pending(c) /\ ctl'[c] = NextInBatch(c, r)
    BY <1>0, <1>3 DEF DispatchJob, Pending
  <2>2. ASSUME NEW q \in Runs \ {r}, DispatchJob(c, q)
        PROVE  FALSE
    <3>1. q \in ctl[c].batch /\ NextInBatch(c, q) = NextInBatch(c, r)
      BY <1>0, <2>1, <2>2 DEF DispatchJob
    <3>2. q \in NextInBatch(c, r).batch
      BY <2>2, <3>1, NextInBatchFields
    <3>3. q \notin NextInBatch(c, q).batch
      BY NextInBatchFields
    <3> QED
      BY <3>1, <3>2, <3>3
  <2>3. ~RecordDispatchError(c)
    BY <1>3 DEF DispatchJob, RecordDispatchError
  <2> QED
    BY <1>going, <2>1, <2>2, <2>3
<1>4. ASSUME NEW r \in Runs, DispatchJobFails(c, r)
      PROVE  Handling(c)'
  <2>1. /\ "request_error" \in Faults /\ UNCHANGED <<kjob, pod, run, mission>>
        /\ ctl[c].phase = "dispatching" /\ r \in ctl[c].batch
    BY <1>4 DEF DispatchJobFails, FailuresRecordedTruly, database
  <2>2. ctl'[c].phase = "recording" /\ ctl'[c].run = r /\ ctl'[c].batch = ctl[c].batch
    BY <1>0, <1>4 DEF DispatchJobFails, ControllerState
  <2>3. Pending(c)' = Pending(c) /\ r \in Pending(c) /\ \A q : NoCompute(q)' = NoCompute(q)
    BY <2>1, <2>2 DEF Pending, NoCompute, PodsOf
  <2> QED
    BY <1>0, <2>1, <2>2, <2>3 DEF Handling, Reconciling, Known
<1>5. CASE RecordDispatchError(c)
  <2>1. ctl[c].run \in Pending(c)
    BY <1>0, <1>5 DEF Handling, RecordDispatchError
  <2>2. CASE ctl'[c] = Idle
    BY <1>idle, <2>2 DEF Idle
  <2>3. CASE ctl'[c] = NextInBatch(c, ctl[c].run)
    <3>1. ~\E q \in Runs : DispatchJob(c, q)
      BY <1>5 DEF DispatchJob, RecordDispatchError
    <3> QED
      BY <1>going, <2>1, <2>3, <3>1
  <2> QED
    BY <1>0, <1>5, <2>2, <2>3 DEF RecordDispatchError
<1>6. ASSUME NEW r \in Runs, ReconcileClaim(c, r)
      PROVE  Handling(c)'
  <2>1. ctl'[c].phase = "observing" /\ ctl'[c].run = r
    BY <1>0, <1>6 DEF ReconcileClaim, Idle
  <2>2. run'[r].dispatched
    BY <1>0, <1>6 DEF ReconcileClaim, Due, StageRunRow
  <2> QED
    BY <2>1, <2>2 DEF Handling, Reconciling, Pending
<1>seen. ASSUME NEW seen, Seen(c, seen)
         PROVE  ctl'[c].phase = "applying" /\ ctl'[c].run = ctl[c].run
  BY <1>0, <1>seen DEF Seen, ControllerState
<1>7. CASE ObserveCleanup(c) \/ ObserveJob(c) \/ ObserveFails(c) \/ RecreateJob(c) \/ RecreateJobFails(c)
  <2>1. Reconciling(c)
    BY <1>7 DEF ObserveCleanup, ObserveJob, ObserveFails, RecreateJob, RecreateJobFails, Reconciling
  <2>2. CASE \E seen : Seen(c, seen)
    BY <1>away, <1>seen, <2>1, <2>2
  <2>3. CASE ctl' = [ctl EXCEPT ![c].phase = "creating"]
    <3>1. ctl'[c].phase = "creating" /\ ctl'[c].run = ctl[c].run
      BY <1>0, <2>3 DEF ControllerState
    <3> QED
      BY <1>away, <2>1, <3>1
  <2> QED
    BY <1>7, <2>2, <2>3 DEF ObserveCleanup, ObserveJob, ObserveFails, RecreateJob, RecreateJobFails
<1>8. CASE ReconcileApply(c) \/ ControllerCrash(c)
  BY <1>0, <1>idle, <1>8 DEF ReconcileApply, ControllerCrash, Idle
<1> QED
  BY <1>1, <1>2, <1>3, <1>4, <1>5, <1>6, <1>7, <1>8 DEF ControllerStep

\* A run that is not dispatched has no compute after a step either.
LEMMA UndispatchedStep ==
  ASSUME FailuresRecordedTruly, TypeInv, EvidenceInv, DispatchInv, [Next]_vars
  PROVE  Undispatched'
<1> SUFFICES ASSUME NEW r \in Runs
             PROVE  /\ run'[r].dispatched => run'[r].jobName
                    /\ Known(r)' /\ ~run'[r].dispatched => NoCompute(r)'
  BY DEF Undispatched
<1>0. Dispatches(r) /\ Undispatched /\ \A c \in Controllers : Handling(c)
  BY AllDispatches DEF DispatchInv
<1>1. run'[r].dispatched => run'[r].jobName
  BY <1>0 DEF Dispatches, SameDispatch, Undispatched
<1>2. ASSUME Known(r), ~run[r].dispatched
      PROVE  NoCompute(r)'
  <2>1. NoCompute(r)
    BY <1>0, <1>2 DEF Undispatched
  <2>2. ASSUME NEW c \in Controllers, Creates(c, r)
        PROVE  FALSE
    BY <1>0, <1>2, <2>2 DEF Creates, Handling, Reconciling
  <2> QED
    BY <2>1, <2>2, AllComputes
<1>3. ASSUME Known(r), run[r].dispatched, ~run'[r].dispatched
      PROVE  NoCompute(r)'
  <2>1. PICK c \in Controllers : RecordDispatchError(c) /\ ctl[c].run = r
    BY <1>0, <1>3 DEF Dispatches, SameDispatch
  <2>2. NoCompute(r)
    BY <1>0, <1>3, <2>1 DEF Handling, RecordDispatchError
  <2> QED
    BY <2>1, <2>2 DEF RecordDispatchError, cluster, NoCompute, PodsOf
<1> QED
  BY <1>1, <1>2, <1>3, KnownKept

\* The dispatch invariant is inductive in the stage machinery ...
LEMMA DispatchSteps ==
  ASSUME FailuresRecordedTruly, TypeInv, EvidenceInv, DispatchInv, [Next]_vars
  PROVE  DispatchInv'
<1>1. ASSUME NEW c \in Controllers
      PROVE  Handling(c)'
  BY MemoryOwned, HandlingKept, HandlingStep
<1> QED
  BY <1>1, UndispatchedStep DEF DispatchInv

\* ... and beside deletions.
LEMMA DispatchNext ==
  ASSUME FailuresRecordedTruly, DeletionInv, DispatchInv, [DeletionNext]_allVars
  PROVE  DispatchInv'
<1>1. CASE [Next]_vars
  BY <1>1, DispatchSteps DEF DeletionInv
<1>2. ASSUME NEW w \in Workers, WorkerStep(w)
      PROVE  DispatchInv'
  <2>1. UNCHANGED <<ctl, kjob, pod>> /\ \A r : NoCompute(r)' = NoCompute(r)
    BY <1>2, RetentionSteps DEF DeletionInv, cluster, NoCompute, PodsOf
  <2>2. ASSUME NEW r \in Runs
        PROVE  /\ Known(r)' => Known(r) /\ run'[r] = run[r]
               /\ run'[r].dispatched => run'[r] = run[r]
    <3>1. mission'[MissionOf[r]] = mission[MissionOf[r]] \/ mission[MissionOf[r]].status # "absent"
      BY <1>2, RetentionMissions, ConstantsAssumption DEF DeletionInv
    <3> QED
      BY <1>2, <3>1, RetentionRows DEF DeletionInv, Known, NewRun
  <2>3. Undispatched'
    BY <2>1, <2>2 DEF DispatchInv, Undispatched
  <2>4. ASSUME NEW c \in Controllers
        PROVE  Handling(c)'
    <3>1. /\ Handling(c) /\ Pending(c) \in SUBSET Runs
          /\ Reconciling(c) => ctl[c].run \in Runs
      BY DEF DispatchInv, DeletionInv, TypeInv, TypeOK, Pending, ControllerState, EvidenceInv,
         MemorySound
    <3>2. Pending(c)' = Pending(c) /\ Reconciling(c)' = Reconciling(c)
      BY <2>1 DEF Pending, Reconciling
    <3>3. ASSUME Reconciling(c), NEW r \in Runs, r = ctl[c].run, Known(r)'
          PROVE  run'[r].dispatched
      BY <2>2, <3>1, <3>3 DEF Handling
    <3>4. \A r \in Pending(c) :
            Known(r)' => run'[r].dispatched /\ ("request_error" \in Faults => NoCompute(r)')
      BY <2>1, <2>2, <3>1 DEF Handling
    <3> QED
      BY <2>1, <3>1, <3>2, <3>3, <3>4 DEF Handling, Known
  <2> QED
    BY <2>3, <2>4 DEF DispatchInv
<1> QED
  BY <1>1, <1>2, Steps

\* Initially nothing is dispatched.
LEMMA DispatchInit == Init => DispatchInv
<1> SUFFICES ASSUME Init
             PROVE  DispatchInv
  OBVIOUS
<1>1. /\ \A r \in Runs : ~run[r].dispatched /\ kjob[r].state = "absent"
      /\ \A c \in Controllers : ctl[c].phase = "idle"
      /\ \A p \in Pods : pod[p].run = NoRun
  BY DEF Init, InitialRun, NewRun, NoJob, Idle, NoPod
<1>2. \A r \in Runs : NoCompute(r)
  BY <1>1, ConstantsAssumption DEF NoCompute, PodsOf
<1> QED
  BY <1>1, <1>2 DEF DispatchInv, Undispatched, Handling, Reconciling, Pending

-----------------------------------------------------------------------------
(* Nobody writes for a mission that was claimed. *)

\* A mission that is claimed after the step of a retention loop was so before, or
\* that loop has claimed it now.
LEMMA ClaimedFrom ==
  ASSUME DeletionInv, NEW w \in Workers, WorkerStep(w), NEW m \in Missions, Claimed(m)'
  PROVE  Claimed(m) \/ ClaimMission(w, m)
<1> USE DEF Claimed
<1>0. /\ worker \in [Workers -> WorkerState] /\ objects \in [Missions -> {"stored", "partial", "deleted"}]
      /\ NoMission \notin Missions
      /\ worker[w].phase # "idle" => worker[w].mission \in Missions
  BY DeletionAssumption DEF DeletionInv, DeletionTypeOK, WorkInv, WorkerState
<1>1. ASSUME NEW n \in Missions, DrainMission(w, n)
      PROVE  Claimed(m)
  BY <1>1 DEF DrainMission, deletion
<1>2. ASSUME NEW n \in Missions, ClaimMission(w, n)
      PROVE  Claimed(m) \/ ClaimMission(w, m)
  BY <1>0, <1>2 DEF ClaimMission
<1>3. CASE DeleteObjects(w)
  <2>1. \A v \in Workers : worker'[v].mission = worker[v].mission
    BY <1>0, <1>3 DEF DeleteObjects, WorkerState
  <2>2. objects'[m] = objects[m] \/ worker[w].mission = m
    BY <1>0, <1>3 DEF DeleteObjects
  <2> QED
    BY <2>1, <2>2
<1>4. CASE DeletionRaises(w)
  BY <1>0, <1>4 DEF DeletionRaises, WorkerState
<1>5. CASE FailRetention(w) \/ CompleteRetention(w) \/ WorkerCrash(w)
  BY <1>0, <1>5 DEF FailRetention, CompleteRetention, WorkerCrash, NoCandidate
<1> QED
  BY <1>1, <1>2, <1>3, <1>4, <1>5 DEF WorkerStep

\* Compute that is quiescent does not write.
LEMMA QuiescentQuiet ==
  ASSUME DeletionInv, DispatchInv, NEW m \in Missions, Quiescent(m), mission[m].status # "absent",
         NEW p \in Pods, Writing(p)
  PROVE  MissionOf[pod[p].run] # m
<1> SUFFICES ASSUME MissionOf[pod[p].run] = m
             PROVE  FALSE
  OBVIOUS
<1> DEFINE r == pod[p].run
<1>1. r \in Runs
  BY DEF DeletionInv, TypeInv, PodsHaveRuns, Writing
<1>2. Known(r) /\ ~NoCompute(r) /\ r \in RunsOf(m)
  BY <1>1 DEF Known, NoCompute, PodsOf, RunsOf
<1>3. run[r].dispatched /\ run[r].jobName
  BY <1>1, <1>2 DEF DispatchInv, Undispatched
<1>4. Exists(r)
  BY <1>1, <1>3 DEF DeletionInv, EvidenceInv, Exists
<1>5. run[r].cleaned
  BY <1>2, <1>3, <1>4 DEF Quiescent
<1> QED
  BY <1>1, <1>5 DEF DeletionInv, EvidenceInv, CleanupEvidenceSound, PodsOf

\* A claimed mission stays without writers.
LEMMA ClaimNext ==
  ASSUME DeletionInv, DispatchInv, ClaimInv, [DeletionNext]_allVars
  PROVE  ClaimInv'
<1> SUFFICES ASSUME NEW m \in Missions, Claimed(m)'
             PROVE  /\ mission'[m].status # "pending"
                    /\ \A p \in Pods : Writing(p)' => MissionOf[pod'[p].run] # m
  BY DEF ClaimInv
<1>1. CASE [Next]_vars /\ UNCHANGED deletion
  <2>1. Claimed(m)
    BY <1>1 DEF Claimed, deletion
  <2>2. mission[m].status # "pending"
    BY <2>1 DEF ClaimInv
  <2>3. mission'[m].status # "pending"
    BY <1>1, <2>2, MissionStep DEF DeletionInv
  <2>4. ASSUME NEW p \in Pods, Writing(p)', MissionOf[pod'[p].run] = m
        PROVE  FALSE
    <3>1. pod'[p].run = pod[p].run /\ (Writing(p) \/ Loadable(pod[p].run))
      BY <1>1, <2>4, WritersLoad DEF DeletionInv
    <3>2. ~Writing(p)
      BY <2>1, <2>4, <3>1 DEF ClaimInv
    <3>3. pod[p].run \in Runs
      BY <1>1, <2>4, <3>1, TypeNext DEF DeletionInv, TypeInv, PodsHaveRuns, Writing
    <3>4. mission[m].status # "absent" /\ mission[m].status \notin HaltedStatuses
      BY <2>4, <3>1, <3>2, <3>3 DEF Loadable, Exists, RunHalted, Halted, DeletionInv, EvidenceInv
    <3>5. mission[m].status \in MissionStatuses
      BY DEF DeletionInv, TypeInv, TypeOK
    <3> QED
      BY <2>2, <3>4, <3>5 DEF MissionStatuses
  <2> QED
    BY <2>3, <2>4
<1>2. ASSUME NEW w \in Workers, WorkerStep(w)
      PROVE  /\ mission'[m].status # "pending"
             /\ \A p \in Pods : Writing(p)' => MissionOf[pod'[p].run] # m
  <2>1. UNCHANGED pod /\ \A p : Writing(p)' = Writing(p)
    BY <1>2, RetentionSteps DEF DeletionInv, cluster, Writing
  <2>2. CASE Claimed(m)
    <3>1. mission[m].status # "pending"
      BY <2>2 DEF ClaimInv
    <3>2. mission'[m].status # "pending"
      BY <1>2, <3>1, RetentionMissions DEF DeletionInv
    <3> QED
      BY <2>1, <2>2, <3>2 DEF ClaimInv
  <2>3. CASE ClaimMission(w, m)
    <3>1. Quiescent(m) /\ mission[m].status # "absent"
      BY <2>3 DEF ClaimMission, Claimable, Retryable
    <3>2. mission'[m].status = "deleting"
      BY <2>3 DEF ClaimMission, DeletionInv, TypeInv, TypeOK
    <3> QED
      BY <2>1, <3>1, <3>2, QuiescentQuiet
  <2> QED
    BY <1>2, <2>2, <2>3, ClaimedFrom
<1> QED
  BY <1>1, <1>2, Steps

\* Initially nothing is claimed.
LEMMA ClaimedInit == DeletionInit => \A m \in Missions : ~Claimed(m)
  BY DeletionAssumption DEF DeletionInit, Claimed, NoCandidate

(* The objects of a mission are removed only after its compute has stopped:  *)
(* from the claim on no Pod of it holds a context, and none ever will, as    *)
(* long as a dispatch that is recorded as failed has created no Job          *)
(* (_compute_is_quiescent, RetentionRepository.claim).                       *)
THEOREM DeletionWaits ==
  ASSUME FailuresRecordedTruly
  PROVE  DeletionSpec => []DeletionWaitsForCompute
<1>1. DeletionInit => DispatchInv /\ ClaimInv
  BY DispatchInit, ClaimedInit DEF ClaimInv, DeletionInit
<1>2. DeletionInv /\ DispatchInv /\ ClaimInv /\ [DeletionNext]_allVars => DispatchInv' /\ ClaimInv'
  BY DispatchNext, ClaimNext
<1>3. DeletionInv /\ ClaimInv => DeletionWaitsForCompute
  <2> SUFFICES ASSUME DeletionInv, ClaimInv, NEW p \in Pods, Writing(p)
               PROVE  /\ objects[MissionOf[pod[p].run]] = "stored"
                      /\ \A w \in Workers : worker[w].mission # MissionOf[pod[p].run]
    BY DEF DeletionWaitsForCompute
  <2>1. MissionOf[pod[p].run] \in Missions
    BY ConstantsAssumption DEF DeletionInv, TypeInv, PodsHaveRuns, Writing
  <2> QED
    BY <2>1 DEF ClaimInv, Claimed
<1> QED
  BY <1>1, <1>2, <1>3, DeletionInvariance, PTL DEF DeletionSpec

-----------------------------------------------------------------------------
(* A mission that was claimed is not lost from sight. *)

\* What the stage machinery and the users do to a mission.
LEMMA MissionTouched ==
  ASSUME TypeInv, [Next]_vars, NEW m \in Missions
  PROVE  \/ mission'[m] = mission[m]
         \/ mission'[m] = [status |-> "cancelled", step |-> "CANCELLATION_REQUESTED"]
         \/ ~DeletionStarted(m) /\ mission'[m] = [status |-> "cancelled", step |-> "DELETION_REQUESTED"]
<1>1. ASSUME NEW n \in Missions, CancelMission(n)
      PROVE  \/ mission'[m] = mission[m]
             \/ mission'[m] = [status |-> "cancelled", step |-> "CANCELLATION_REQUESTED"]
  BY <1>1 DEF CancelMission, TypeInv, TypeOK
<1>2. ASSUME NEW n \in Missions, DeleteMission(n)
      PROVE  \/ mission'[m] = mission[m]
             \/ ~DeletionStarted(m) /\ mission'[m] = [status |-> "cancelled", step |-> "DELETION_REQUESTED"]
  BY <1>2 DEF DeleteMission, TypeInv, TypeOK
<1>3. ASSUME NEW r \in Runs, CreateStageRun(r) \/ AdminValidate(r) \/ AdminPublish(r)
                              \/ LeaseExpires(r)
      PROVE  mission' = mission
  BY <1>3 DEF CreateStageRun, AdminValidate, AdminPublish, LeaseExpires, database
<1>4. ASSUME NEW c \in Controllers, ControllerStep(c)
      PROVE  mission' = mission
  BY <1>4 DEF ControllerStep, ReserveBegin, ReserveCommit, DispatchJob, DispatchJobFails,
     RecordDispatchError, ReconcileClaim, ObserveCleanup, ObserveJob, ObserveFails,
     RecreateJob, RecreateJobFails, ReconcileApply, ControllerCrash, ObserveUnchanged, database
<1>5. ASSUME NEW p \in Pods, PodStep(p)
      PROVE  mission' = mission
  BY <1>5 DEF PodStep, LoadContext, Heartbeat, HandlerReturns, HandlerRaises, PublishResult,
     PublishFails, RecordTerminal, PodSucceeds, PodUnchanged
<1>6. ClusterStep \/ UNCHANGED vars => mission' = mission
  BY DEF ClusterStep, StartPod, PodKilled, PodRemoved, JobGone, JobDeadline,
     JobExpires, JobRemoved, ClusterUnchanged, database, vars
<1> QED
  BY <1>1, <1>2, <1>3, <1>4, <1>5, <1>6 DEF Next, ApiStep

\* Without late cancellations, claimed missions stay in sight.
LEMMA SightNext ==
  ASSUME ~LateCancel, DeletionInv, SightInv, [DeletionNext]_allVars
  PROVE  SightInv'
<1> SUFFICES ASSUME NEW m \in Missions
             PROVE  /\ Claimed(m)' => Retryable(m)' \/ mission'[m].status = "absent"
                    /\ mission'[m].step = "MANUAL_DELETION_FAILED" =>
                          mission'[m].status = "deletion_failed"
  BY DEF SightInv
<1>1. ASSUME [Next]_vars, UNCHANGED deletion, CancelAllowed \/ UNCHANGED vars
      PROVE  /\ Claimed(m)' => Retryable(m)' \/ mission'[m].status = "absent"
             /\ mission'[m].step = "MANUAL_DELETION_FAILED" =>
                   mission'[m].status = "deletion_failed"
  <2>1. CASE mission'[m] = mission[m]
    BY <1>1, <2>1 DEF SightInv, Claimed, Retryable, Manual, deletion
  <2>2. CASE DeletionStarted(m)
    <3>1. DeletionStarted(m) => mission'[m].step # "CANCELLATION_REQUESTED" \/ UNCHANGED vars
      BY <1>1 DEF CancelAllowed
    <3>2. mission'[m] = mission[m]
      BY <1>1, <2>2, <3>1, MissionTouched DEF DeletionInv, vars
    <3> QED
      BY <2>1, <3>2
  <2>3. CASE ~DeletionStarted(m) /\ mission'[m] # mission[m]
    <3>1. mission'[m].status = "cancelled"
          /\ mission'[m].step \in {"CANCELLATION_REQUESTED", "DELETION_REQUESTED"}
      BY <1>1, <2>3, MissionTouched DEF DeletionInv
    <3>2. mission[m].status # "absent"
      BY <1>1, <3>1, MissionStep DEF DeletionInv
    <3>3. ~Retryable(m)
      BY <2>3 DEF Retryable, Manual, ManualSteps, DeletionStarted, SightInv
    <3>4. ~Claimed(m)'
      BY <1>1, <3>2, <3>3 DEF SightInv, Claimed, deletion
    <3> QED
      BY <3>1, <3>4
  <2> QED
    BY <2>1, <2>2, <2>3
<1>2. ASSUME NEW w \in Workers, WorkerStep(w)
      PROVE  /\ Claimed(m)' => Retryable(m)' \/ mission'[m].status = "absent"
             /\ mission'[m].step = "MANUAL_DELETION_FAILED" =>
                   mission'[m].status = "deletion_failed"
  <2>1. CASE mission'[m] = mission[m]
    <3>1. Claimed(m)' => Claimed(m) \/ Retryable(m)
      BY <1>2, ClaimedFrom, <2>1 DEF ClaimMission, Claimable, DeletionInv, TypeInv, TypeOK, Retryable
    <3> QED
      BY <2>1, <3>1 DEF SightInv, Retryable, Manual
  <2>2. CASE mission'[m] # mission[m]
    BY <1>2, <2>2, RetentionMissions DEF DeletionInv, Retryable
  <2> QED
    BY <2>1, <2>2
<1> QED
  BY <1>1, <1>2 DEF DeletionNext, allVars

(* Half a deletion is never stranded: a mission whose objects are touched is *)
(* one that the retention loop comes back to, whatever crashes and fails, as *)
(* long as users do not cancel it then (RetentionRepository.claim).          *)
THEOREM DeletionInSight ==
  ASSUME ~LateCancel
  PROVE  DeletionSpec => []NoStrandedMission
<1>1. DeletionInit => SightInv
  BY ClaimedInit DEF DeletionInit, Init, SightInv
<1>2. DeletionInv /\ SightInv /\ [DeletionNext]_allVars => SightInv'
  BY SightNext
<1>3. SightInv => NoStrandedMission
  BY DEF SightInv, NoStrandedMission, Claimed
<1> QED
  BY <1>1, <1>2, <1>3, DeletionInvariance, PTL DEF DeletionSpec

-----------------------------------------------------------------------------
(* The ledger names the reason of a deletion. *)

\* Crashes are counted.
LEMMA CrashesCount ==
  ASSUME TypeInv, [Next]_vars
  PROVE  crashes' = crashes \/ crashes' = crashes + 1
<1>1. ASSUME NEW c \in Controllers, ControllerStep(c)
      PROVE  crashes' = crashes \/ crashes' = crashes + 1
  BY <1>1 DEF ControllerStep, ReserveBegin, ReserveCommit, DispatchJob, DispatchJobFails,
     RecordDispatchError, ReconcileClaim, ObserveCleanup, ObserveJob, ObserveFails,
     RecreateJob, RecreateJobFails, ReconcileApply, ControllerCrash, ObserveUnchanged
<1>2. ApiStep \/ (\E r \in Runs : LeaseExpires(r)) => crashes' = crashes
  BY DEF ApiStep, CancelMission, DeleteMission, CreateStageRun, AdminValidate, AdminPublish,
     LeaseExpires
<1>3. ASSUME NEW p \in Pods, PodStep(p)
      PROVE  crashes' = crashes
  BY <1>3 DEF PodStep, LoadContext, Heartbeat, HandlerReturns, HandlerRaises, PublishResult,
     PublishFails, RecordTerminal, PodSucceeds, PodUnchanged
<1>4. ClusterStep \/ UNCHANGED vars => crashes' = crashes
  BY DEF ClusterStep, StartPod, PodKilled, PodRemoved, JobGone, JobDeadline,
     JobExpires, JobRemoved, ClusterUnchanged, vars
<1> QED
  BY <1>1, <1>2, <1>3, <1>4 DEF Next

\* The one retention loop takes up the reason it finds.
LEMMA ReasonNext ==
  ASSUME OneRetentionLoop, DeletionInv, ReasonInv, [DeletionNext]_allVars
  PROVE  ReasonInv'
<1> SUFFICES ASSUME crashes' = 0
             PROVE  ReasonKept'
  BY DEF ReasonInv
<1>0. /\ mission \in [Missions -> [status : MissionStatuses, step : MissionSteps]]
      /\ worker \in [Workers -> WorkerState] /\ NoMission \notin Missions
      /\ ledger \in [Missions -> {"open", "storage_released", "retention_deleted"}]
      /\ crashes \in Nat
  BY DeletionAssumption, ConstantsAssumption DEF DeletionInv, DeletionTypeOK, TypeInv, TypeOK
<1>1. CASE [Next]_vars /\ UNCHANGED deletion
  <2>1. ReasonKept
    BY <1>0, <1>1, CrashesCount DEF ReasonInv, DeletionInv
  <2>2. \A m \in Missions : mission'[m] = mission[m] \/ mission'[m].status = "cancelled"
    BY <1>1, MissionTouched DEF DeletionInv
  <2> QED
    BY <1>1, <2>1, <2>2 DEF ReasonKept, deletion
<1>2. ASSUME NEW w \in Workers, WorkerStep(w)
      PROVE  ReasonKept'
  <2>1. ReasonKept /\ ~WorkerCrash(w)
    BY <1>0, <1>2, RetentionSteps DEF ReasonInv, DeletionInv, WorkerCrash
  <2>2. \A v \in Workers : v = w
    BY DEF OneRetentionLoop
  <2>3. \A m \in Missions \ Expiring : mission[m].status = "deleting" => worker[w].mission = m
    BY <2>1, <2>2 DEF ReasonKept
  <2>4. worker[w].manual \/ worker[w].mission \in Expiring \cup {NoMission}
    BY <2>1 DEF ReasonKept
  <2>5. worker[w].phase = "idle" => \A m \in Missions : worker[w].mission # m
    BY <1>0 DEF DeletionInv, WorkInv
  <2>6. ASSUME NEW m \in Missions, Claimable(m), worker[w].phase = "idle"
        PROVE  Manual(m) \/ m \in Expiring
    BY <2>1, <2>3, <2>5, <2>6 DEF Claimable, Retryable, ReasonKept, Manual, ManualSteps
  <2>7. ASSUME NEW m \in Missions, DrainMission(w, m)
        PROVE  ReasonKept'
    <3>1. m \in Expiring
      BY <2>6, <2>7 DEF DrainMission
    <3>2. \A k \in Missions \ {m} : mission'[k] = mission[k]
      BY <1>0, <2>7 DEF DrainMission
    <3>3. UNCHANGED <<worker, ledger>>
      BY <2>7 DEF DrainMission, deletion
    <3> QED
      BY <2>1, <3>1, <3>2, <3>3 DEF ReasonKept
  <2>8. ASSUME NEW m \in Missions, ClaimMission(w, m)
        PROVE  ReasonKept'
    <3>1. worker'[w].mission = m /\ worker'[w].manual = Manual(m) /\ worker[w].phase = "idle"
      BY <1>0, <2>8 DEF ClaimMission
    <3>2. mission'[m].status = "deleting" /\ \A k \in Missions \ {m} : mission'[k] = mission[k]
      BY <1>0, <2>8 DEF ClaimMission
    <3>3. Manual(m) \/ m \in Expiring
      BY <2>6, <2>8, <3>1 DEF ClaimMission
    <3>4. UNCHANGED ledger
      BY <2>8 DEF ClaimMission
    <3>5. \A k \in Missions \ Expiring : k # m => mission[k].status # "deleting"
      BY <2>3, <2>5, <3>1
    <3> QED
      BY <2>1, <2>2, <3>1, <3>2, <3>3, <3>4, <3>5 DEF ReasonKept
  <2>9. CASE DeleteObjects(w) \/ DeletionRaises(w)
    <3>1. worker'[w].mission = worker[w].mission /\ worker'[w].manual = worker[w].manual
      BY <1>0, <2>9 DEF DeleteObjects, DeletionRaises, WorkerState
    <3>2. UNCHANGED <<mission, ledger>>
      BY <2>9 DEF DeleteObjects, DeletionRaises, vars
    <3> QED
      BY <2>1, <2>2, <3>1, <3>2 DEF ReasonKept
  <2>10. ASSUME worker' = [worker EXCEPT ![w] = NoCandidate]
         PROVE  \A v \in Workers : worker'[v].mission = NoMission
    BY <1>0, <2>2, <2>10 DEF NoCandidate
  <2>11. CASE FailRetention(w)
    <3>1. worker[w].mission \in Missions /\ UNCHANGED ledger
      BY <1>0, <2>11 DEF FailRetention, DeletionInv, WorkInv, WorkerState
    <3>2. \A v \in Workers : worker'[v].mission = NoMission
      BY <2>10, <2>11 DEF FailRetention
    <3>3. \A m \in Missions \ Expiring :
             /\ mission'[m].status # "deleting"
             /\ mission'[m].status = "deletion_failed" => mission'[m].step = "MANUAL_DELETION_FAILED"
      BY <1>0, <2>1, <2>3, <2>4, <2>11, <3>1 DEF FailRetention, Failed, ReasonKept
    <3> QED
      BY <2>1, <3>1, <3>2, <3>3 DEF ReasonKept
  <2>12. CASE CompleteRetention(w)
    <3>1. worker[w].mission \in Missions
      BY <1>0, <2>12 DEF CompleteRetention, DeletionInv, WorkInv, WorkerState
    <3>2. \A v \in Workers : worker'[v].mission = NoMission
      BY <2>10, <2>12 DEF CompleteRetention
    <3>3. \A m \in Missions \ Expiring :
             /\ mission'[m].status # "deleting"
             /\ mission'[m].status = "deletion_failed" => mission'[m].step = "MANUAL_DELETION_FAILED"
      BY <1>0, <2>1, <2>3, <2>12, <3>1 DEF CompleteRetention, ReasonKept
    <3>4. \A m \in Missions \ Expiring : ledger'[m] # "retention_deleted"
      BY <1>0, <2>1, <2>4, <2>12, <3>1 DEF CompleteRetention, ReasonKept
    <3> QED
      BY <3>2, <3>3, <3>4 DEF ReasonKept
  <2> QED
    BY <1>2, <2>1, <2>7, <2>8, <2>9, <2>11, <2>12 DEF WorkerStep
<1> QED
  BY <1>1, <1>2, Steps

(* However often it fails on the way, a requested deletion of a mission      *)
(* without a retention policy is not closed as a retention, unless a worker  *)
(* died or two retention loops overlap (complete, usage ledger).             *)
THEOREM LedgerReason ==
  ASSUME OneRetentionLoop
  PROVE  DeletionSpec => []LedgerNamesTheReason
<1>1. DeletionInit => ReasonInv
  <2> SUFFICES ASSUME DeletionInit
               PROVE  ReasonKept
    BY DEF ReasonInv
  <2>1. /\ \A m \in Missions : mission[m].status = "pending" /\ ledger[m] = "open"
        /\ \A w \in Workers : worker[w].mission = NoMission
    BY DEF DeletionInit, Init, NoCandidate
  <2> QED
    BY <2>1 DEF ReasonKept
<1>2. DeletionInv /\ ReasonInv /\ [DeletionNext]_allVars => ReasonInv'
  BY ReasonNext
<1>3. DeletionInv /\ ReasonInv => LedgerNamesTheReason
  BY ConstantsAssumption DEF ReasonInv, ReasonKept, LedgerNamesTheReason, DeletionInv, TypeInv, TypeOK
<1> QED
  BY <1>1, <1>2, <1>3, DeletionInvariance, PTL DEF DeletionSpec

-----------------------------------------------------------------------------
(* One execution. *)

\* Either nobody deletes a Job and leaves its Pods behind, or one control worker
\* sees them all: there is no other, and it learns of every Job it creates.
OrphansSeen ==
    \/ "background" \notin Faults
    \/ "lost_create" \notin Faults /\ \A c, d \in Controllers : c = d

\* A run has one Pod, which was started for a Job that had none.
OnePod ==
    /\ \A p, q \in Pods : pod[p].run \in Runs /\ pod[p].run = pod[q].run => p = q
    /\ \A r \in Runs : kjob[r].state = "pending" => PodsOf(r) = {}

\* Without background deletions a Pod is as old as its Job.
PodsOwned ==
    \A p \in Pods : pod[p].run \in Runs =>
        pod[p].owned /\ kjob[pod[p].run].state \notin {"absent", "pending"}

\* The runs whose Jobs the control worker is about to create have no compute.
NothingBefore(c) ==
    /\ \A r \in Pending(c) : NoCompute(r)
    /\ ctl[c].phase = "creating" => NoCompute(ctl[c].run)

ExecutionInv ==
    /\ OnePod
    /\ "background" \notin Faults => PodsOwned
    /\ "background" \in Faults => DispatchInv /\ \A c \in Controllers : NothingBefore(c)

\* A Pod of a run was started for it, or was one before.
LEMMA PodOrigin ==
  ASSUME TypeInv, [Next]_vars, NEW p \in Pods, pod'[p].run \in Runs
  PROVE  \/ StartPod(pod'[p].run, p)
         \/ /\ pod'[p].run = pod[p].run
            /\ pod'[p].owned = pod[p].owned \/ "background" \in Faults
<1>0. pod \in [Pods -> [run : Runs \cup {NoRun}, phase : PodPhases, owned : BOOLEAN]]
  BY DEF TypeInv, TypeOK
<1>1. ASSUME NEW q \in Pods, \E phase : MoveTo(q, phase)
      PROVE  pod'[p].run = pod[p].run /\ pod'[p].owned = pod[p].owned
  BY <1>0, <1>1 DEF MoveTo
<1>2. ASSUME NEW q \in Pods, PodStep(q) \/ PodKilled(q)
      PROVE  pod'[p].run = pod[p].run /\ pod'[p].owned = pod[p].owned
  <2>1. (\E phase : MoveTo(q, phase)) \/ pod' = pod
    BY <1>2 DEF PodStep, LoadContext, Heartbeat, HandlerReturns, HandlerRaises, PublishResult,
       PublishFails, RecordTerminal, PodSucceeds, PodEnds, PodKilled, cluster
  <2> QED
    BY <1>1, <2>1
<1>3. CASE ClusterStep
  <2>1. ASSUME NEW r \in Runs, NEW q \in Pods, StartPod(r, q)
        PROVE  StartPod(pod'[p].run, p) \/ pod'[p] = pod[p]
    <3>1. CASE q = p
      <4>1. pod'[p].run = r
        BY <1>0, <2>1, <3>1 DEF StartPod
      <4> QED
        BY <2>1, <3>1, <4>1
    <3>2. CASE q # p
      BY <1>0, <2>1, <3>2 DEF StartPod
    <3> QED
      BY <3>1, <3>2
  <2>2. ASSUME NEW r \in Runs, JobGone(r) \/ JobDeadline(r) \/ JobExpires(r)
        PROVE  pod' = pod
    BY <2>2 DEF JobGone, JobDeadline, JobExpires
  <2>3. ASSUME NEW r \in Runs, JobRemoved(r)
        PROVE  /\ pod'[p].run = pod[p].run
               /\ pod'[p].owned = pod[p].owned \/ "background" \in Faults
    BY <1>0, <2>3 DEF JobRemoved
  <2>4. ASSUME NEW q \in Pods, PodRemoved(q)
        PROVE  pod'[p] = pod[p]
    BY <1>0, <2>4, ConstantsAssumption DEF PodRemoved, NoPod
  <2> QED
    BY <1>2, <1>3, <2>1, <2>2, <2>3, <2>4 DEF ClusterStep
<1>4. CASE pod' = pod
  BY <1>4
<1>5. ASSUME NEW c \in Controllers, ControllerStep(c)
      PROVE  pod' = pod
  BY <1>5 DEF ControllerStep, ReserveBegin, ReserveCommit, DispatchJob, DispatchJobFails,
     RecordDispatchError, ReconcileClaim, ObserveCleanup, ObserveJob, ObserveFails,
     RecreateJob, RecreateJobFails, ReconcileApply, ControllerCrash, ObserveUnchanged, cluster
<1>6. ASSUME ApiStep \/ (\E r \in Runs : LeaseExpires(r)) \/ UNCHANGED vars
      PROVE  pod' = pod
  BY <1>6 DEF ApiStep, CancelMission, DeleteMission, CreateStageRun, AdminValidate, AdminPublish,
     LeaseExpires, cluster, vars
<1> QED
  BY <1>2, <1>3, <1>4, <1>5, <1>6 DEF Next

\* The Job of a run is new if a control worker created it when there was none.
NewlyMade(r) ==
    /\ kjob[r].state = "absent" /\ UNCHANGED pod
    /\ \E c \in Controllers : ControllerStep(c) /\ (r \in Pending(c) \/ Creates(c, r))

\* A Job disappears when its last Pod has, or by a background deletion.
JobStep(r) ==
    /\ kjob'[r].state = "pending" => kjob[r].state = "pending" \/ NewlyMade(r)
    /\ kjob'[r].state = "absent" =>
          kjob[r].state = "absent" \/ JobGone(r) \/ "background" \in Faults

\* A Job that does not change makes a legal step.
LEMMA JobUnmoved ==
  ASSUME NEW r, kjob'[r].state = kjob[r].state
  PROVE  JobStep(r)
  BY DEF JobStep

\* The steps of the control workers.
LEMMA ControllerJobs ==
  ASSUME TypeInv, NEW c \in Controllers, ControllerStep(c), NEW r \in Runs
  PROVE  JobStep(r)
<1>0. kjob \in [Runs -> [state : JobStates, deleting : BOOLEAN]]
  BY DEF TypeInv, TypeOK
<1>1. ASSUME NEW q, JobCreated(q), UNCHANGED pod, q \in Pending(c) \/ Creates(c, q)
      PROVE  JobStep(r)
  <2>1. \/ kjob'[r] = kjob[r]
        \/ q = r /\ kjob[r].state = "absent" /\ kjob'[r].state = "pending"
    BY <1>0, <1>1 DEF JobCreated, NewJob
  <2> QED
    BY <1>1, <2>1 DEF JobStep, NewlyMade
<1>2. ASSUME kjob' = kjob
      PROVE  JobStep(r)
  BY <1>2, JobUnmoved
<1>3. ASSUME NEW q \in Runs, DispatchJob(c, q) \/ DispatchJobFails(c, q)
      PROVE  JobStep(r)
  <2>1. q \in Pending(c) /\ UNCHANGED pod /\ (JobCreated(q) \/ kjob' = kjob)
    BY <1>3 DEF DispatchJob, DispatchJobFails, Pending
  <2> QED
    BY <1>1, <1>2, <2>1
<1>4. CASE RecreateJob(c) \/ RecreateJobFails(c)
  <2>1. Creates(c, ctl[c].run) /\ UNCHANGED pod /\ (JobCreated(ctl[c].run) \/ kjob' = kjob)
    BY <1>4 DEF RecreateJob, RecreateJobFails, Creates, ObserveUnchanged
  <2> QED
    BY <1>1, <1>2, <2>1
<1>5. CASE ObserveCleanup(c)
  <2>1. kjob' = kjob \/ kjob' = [kjob EXCEPT ![ctl[c].run].deleting = TRUE]
    BY <1>5 DEF ObserveCleanup
  <2>2. kjob'[r].state = kjob[r].state
    BY <1>0, <2>1
  <2> QED
    BY <2>2, JobUnmoved
<1>6. CASE \/ ReserveBegin(c) \/ ReserveCommit(c) \/ RecordDispatchError(c)
           \/ \E q \in Runs : ReconcileClaim(c, q)
           \/ ObserveJob(c) \/ ObserveFails(c) \/ ReconcileApply(c) \/ ControllerCrash(c)
  BY <1>2, <1>6 DEF ReserveBegin, ReserveCommit, RecordDispatchError, ReconcileClaim, ObserveJob,
     ObserveFails, ReconcileApply, ControllerCrash, cluster
<1> QED
  BY <1>3, <1>4, <1>5, <1>6 DEF ControllerStep

\* An executor ends a Job that is active at most.
LEMMA ExecutorJobs ==
  ASSUME TypeInv, NEW p \in Pods, PodStep(p) \/ PodKilled(p), NEW r \in Runs
  PROVE  JobStep(r)
<1>0. kjob \in [Runs -> [state : JobStates, deleting : BOOLEAN]]
  BY DEF TypeInv, TypeOK
<1>1. ASSUME NEW outcome \in {"failed", "complete"}, PodEnds(p, outcome)
      PROVE  JobStep(r)
  <2>1. kjob' = kjob \/ kjob' = [kjob EXCEPT ![pod[p].run].state = outcome]
    BY <1>1 DEF PodEnds
  <2>2. kjob'[r].state = kjob[r].state \/ kjob'[r].state \in {"failed", "complete"}
    BY <1>0, <1>1, <2>1
  <2> QED
    BY <2>2 DEF JobStep
<1>2. ASSUME kjob' = kjob
      PROVE  JobStep(r)
  BY <1>2, JobUnmoved
<1>3. \/ PodEnds(p, "failed") \/ PodEnds(p, "complete")
      \/ kjob' = kjob
  BY DEF PodStep, LoadContext, Heartbeat, HandlerReturns, HandlerRaises, PublishResult,
     PublishFails, RecordTerminal, PodSucceeds, PodKilled, cluster
<1> QED
  BY <1>1, <1>2, <1>3

\* Every step.
LEMMA AllJobs ==
  ASSUME TypeInv, [Next]_vars, NEW r \in Runs
  PROVE  JobStep(r)
<1>0. kjob \in [Runs -> [state : JobStates, deleting : BOOLEAN]]
  BY DEF TypeInv, TypeOK
<1>1. ASSUME kjob' = kjob
      PROVE  JobStep(r)
  BY <1>1, JobUnmoved
<1>2. CASE ClusterStep
  <2>1. ASSUME NEW q \in Runs, NEW p \in Pods, StartPod(q, p)
        PROVE  JobStep(r)
    <3>1. kjob'[r].state = kjob[r].state \/ kjob'[r].state = "active"
      BY <1>0, <2>1 DEF StartPod
    <3> QED
      BY <3>1 DEF JobStep
  <2>2. ASSUME NEW q \in Runs, JobGone(q)
        PROVE  JobStep(r)
    <3>1. kjob'[r].state = kjob[r].state \/ (q = r /\ kjob'[r].state = "absent")
      BY <1>0, <2>2 DEF JobGone, NoJob
    <3> QED
      BY <2>2, <3>1 DEF JobStep
  <2>3. ASSUME NEW q \in Runs, JobDeadline(q) \/ JobExpires(q)
        PROVE  JobStep(r)
    <3>1. kjob'[r].state = kjob[r].state \/ kjob'[r].state = "failed"
      BY <1>0, <2>3 DEF JobDeadline, JobExpires
    <3> QED
      BY <3>1 DEF JobStep
  <2>4. ASSUME NEW q \in Runs, JobRemoved(q)
        PROVE  JobStep(r)
    <3>1. \/ kjob'[r].state = kjob[r].state
          \/ "background" \in Faults /\ kjob'[r].state = "absent"
      BY <1>0, <2>4 DEF JobRemoved, NoJob
    <3> QED
      BY <3>1 DEF JobStep
  <2>5. ASSUME NEW p \in Pods, PodRemoved(p)
        PROVE  JobStep(r)
    BY <1>1, <2>5 DEF PodRemoved
  <2> QED
    BY <1>2, <2>1, <2>2, <2>3, <2>4, <2>5, ExecutorJobs DEF ClusterStep
<1>3. CASE ApiStep \/ (\E q \in Runs : LeaseExpires(q)) \/ UNCHANGED vars
  BY <1>1, <1>3 DEF ApiStep, CancelMission, DeleteMission, CreateStageRun, AdminValidate,
     AdminPublish, LeaseExpires, cluster, vars
<1> QED
  BY <1>2, <1>3, ControllerJobs, ExecutorJobs DEF Next

\* What the only control worker is about to create has no compute.
LEMMA NothingBeforeNext ==
  ASSUME "lost_create" \notin Faults, \A c, d \in Controllers : c = d,
         TypeInv, EvidenceInv, DispatchInv, [Next]_vars,
         NEW c \in Controllers, NothingBefore(c)
  PROVE  NothingBefore(c)'
<1>0. /\ ctl \in [Controllers -> ControllerState] /\ Pending(c) \in SUBSET Runs
      /\ ctl[c].phase = "creating" => ctl[c].run \in Runs
      /\ FailuresRecordedTruly
  BY DEF TypeInv, TypeOK, Pending, ControllerState, EvidenceInv, MemorySound, Reconciling,
     FailuresRecordedTruly
<1>1. ASSUME NEW r \in Runs, NoCompute(r), ~(ControllerStep(c) /\ Creates(c, r))
      PROVE  NoCompute(r)'
  BY <1>0, <1>1, AllComputes
<1>2. ASSUME NEW r \in Runs, DispatchJob(c, r)
      PROVE  r \notin Pending(c)'
  <2>1. ctl'[c] = NextInBatch(c, r)
    BY <1>0, <1>2 DEF DispatchJob
  <2> QED
    BY <2>1, NextInBatchFields DEF Pending
<1>3. ASSUME NEW r \in Pending(c), r \in Pending(c)'
      PROVE  NoCompute(r)'
  <2>1. ~Creates(c, r)
    BY <1>0, <1>2, <1>3 DEF Creates, Pending
  <2> QED
    BY <1>0, <1>1, <1>3, <2>1 DEF NothingBefore
<1>4. ASSUME ctl'[c] = ctl[c], ctl[c].phase = "creating"
      PROVE  NoCompute(ctl[c].run)'
  <2>0. PICK r \in Runs : r = ctl[c].run
    BY <1>0, <1>4
  <2>1. ~ControllerStep(c)
    <3>1. ASSUME ControllerStep(c)
          PROVE  ctl'[c].phase # "creating"
      <4>1. \/ RecreateJob(c) \/ RecreateJobFails(c) \/ ControllerCrash(c)
        BY <1>4, <3>1 DEF ControllerStep, ReserveBegin, ReserveCommit, DispatchJob, DispatchJobFails,
           RecordDispatchError, ReconcileClaim, ObserveCleanup, ObserveJob, ObserveFails, ReconcileApply
      <4>2. CASE ControllerCrash(c)
        BY <1>0, <4>2 DEF ControllerCrash, Idle
      <4>3. CASE \E seen : Seen(c, seen)
        BY <1>0, <4>3 DEF Seen, ControllerState
      <4> QED
        BY <4>1, <4>2, <4>3 DEF RecreateJob, RecreateJobFails
    <3> QED
      BY <1>4, <3>1
  <2> QED
    BY <1>1, <1>4, <2>0, <2>1 DEF NothingBefore
<1>5. CASE ctl'[c] = ctl[c]
  BY <1>3, <1>4, <1>5 DEF NothingBefore, Pending
<1>6. ASSUME ControllerStep(c), Pending(c)' \subseteq Pending(c), ctl'[c].phase # "creating"
      PROVE  NothingBefore(c)'
  BY <1>3, <1>6 DEF NothingBefore
<1>7. ASSUME NEW r, ctl'[c] = NextInBatch(c, r), ctl[c].phase \in {"dispatching", "recording"}
      PROVE  Pending(c)' \subseteq Pending(c) /\ ctl'[c].phase # "creating"
  BY <1>7, NextInBatchFields DEF Pending
<1>8. ASSUME ctl'[c].phase \in {"idle", "reserving", "observing", "applying"}
      PROVE  Pending(c)' \subseteq Pending(c) /\ ctl'[c].phase # "creating"
  BY <1>8 DEF Pending
<1>9. CASE ControllerStep(c)
  <2>1. CASE ReserveCommit(c)
    <3>1. PICK batch \in SUBSET Candidates :
             \/ ctl' = [ctl EXCEPT ![c] = Idle]
             \/ ctl' = [ctl EXCEPT ![c] = [Idle EXCEPT !.phase = "dispatching", !.batch = batch]]
      BY <2>1 DEF ReserveCommit, Selections
    <3>2. \/ ctl'[c].phase = "idle"
          \/ ctl'[c].phase = "dispatching" /\ ctl'[c].batch = batch
      <4>1. \/ ctl'[c] = Idle
            \/ ctl'[c] = [Idle EXCEPT !.phase = "dispatching", !.batch = batch]
        BY <1>0, <3>1
      <4>2. /\ Idle.phase = "idle"
            /\ [Idle EXCEPT !.phase = "dispatching", !.batch = batch].phase = "dispatching"
            /\ [Idle EXCEPT !.phase = "dispatching", !.batch = batch].batch = batch
        BY DEF Idle
      <4> QED
        BY <4>1, <4>2
    <3>3. \A r \in Candidates : r \in Runs /\ NoCompute(r)
      BY DEF Candidates, DispatchInv, Undispatched, Known, EvidenceInv, Exists
    <3>4. \A r \in Candidates : NoCompute(r)'
      BY <2>1, <3>3 DEF ReserveCommit, cluster, NoCompute, PodsOf
    <3> QED
      BY <3>2, <3>4 DEF NothingBefore, Pending
  <2>2. ASSUME NEW r \in Runs, DispatchJob(c, r)
        PROVE  NothingBefore(c)'
    BY <1>0, <1>6, <1>7, <1>9, <2>2 DEF DispatchJob
  <2>3. ASSUME NEW r \in Runs, DispatchJobFails(c, r)
        PROVE  NothingBefore(c)'
    <3>1. ctl'[c].phase = "recording" /\ ctl'[c].batch = ctl[c].batch
      BY <1>0, <2>3 DEF DispatchJobFails, ControllerState
    <3>2. Pending(c)' = Pending(c)
      BY <2>3, <3>1 DEF DispatchJobFails, Pending
    <3> QED
      BY <1>6, <1>9, <3>1, <3>2
  <2>4. CASE RecordDispatchError(c)
    <3>1. \/ ctl'[c] = Idle
          \/ ctl'[c] = NextInBatch(c, ctl[c].run) /\ ctl[c].phase = "recording"
      BY <1>0, <2>4 DEF RecordDispatchError
    <3> QED
      BY <1>6, <1>7, <1>8, <1>9, <3>1 DEF Idle
  <2>5. CASE ObserveJob(c)
    <3>1. CASE \E seen : Seen(c, seen)
      <4>1. ctl'[c].phase = "applying"
        BY <1>0, <3>1 DEF Seen, ControllerState
      <4> QED
        BY <1>6, <1>8, <1>9, <4>1
    <3>2. CASE kjob[ctl[c].run].state = "absent" /\ Recreatable(c) /\ ctl' = [ctl EXCEPT ![c].phase = "creating"]
      <4>1. ctl'[c].phase = "creating" /\ ctl'[c].run = ctl[c].run
        BY <1>0, <3>2 DEF ControllerState
      <4>2. NoCompute(ctl[c].run)'
        BY <2>5, <3>2, <4>1 DEF ObserveJob, ObserveUnchanged, Recreatable, NoCompute, PodsOf
      <4> QED
        BY <4>1, <4>2 DEF NothingBefore, Pending
    <3> QED
      BY <2>5, <3>1, <3>2 DEF ObserveJob
  <2>6. CASE ObserveCleanup(c) \/ ObserveFails(c) \/ RecreateJob(c) \/ RecreateJobFails(c)
    <3>1. \E seen : Seen(c, seen)
      BY <2>6 DEF ObserveCleanup, ObserveFails, RecreateJob, RecreateJobFails
    <3>2. ctl'[c].phase = "applying"
      BY <1>0, <3>1 DEF Seen, ControllerState
    <3> QED
      BY <1>6, <1>8, <1>9, <3>2
  <2>7. CASE ReserveBegin(c) \/ ReconcileApply(c) \/ ControllerCrash(c)
    <3>1. ctl'[c] = Idle \/ ctl'[c] = [Idle EXCEPT !.phase = "reserving", !.batch = ReservedRuns]
      BY <1>0, <2>7 DEF ReserveBegin, ReconcileApply, ControllerCrash
    <3>2. /\ Idle.phase = "idle"
          /\ [Idle EXCEPT !.phase = "reserving", !.batch = ReservedRuns].phase = "reserving"
      BY DEF Idle
    <3> QED
      BY <1>6, <1>8, <1>9, <3>1, <3>2
  <2>8. ASSUME NEW r \in Runs, ReconcileClaim(c, r)
        PROVE  NothingBefore(c)'
    <3>1. ctl'[c].phase = "observing"
      BY <1>0, <2>8 DEF ReconcileClaim, Idle
    <3> QED
      BY <1>6, <1>8, <1>9, <3>1
  <2> QED
    BY <1>9, <2>1, <2>2, <2>3, <2>4, <2>5, <2>6, <2>7, <2>8 DEF ControllerStep
<1> QED
  BY <1>5, <1>9, MemoryOwned

\* No second Pod is started for a run.
LEMMA OnePodNext ==
  ASSUME OrphansSeen, TypeInv, ExecutionInv, [Next]_vars
  PROVE  OnePod'
<1>0. pod \in [Pods -> [run : Runs \cup {NoRun}, phase : PodPhases, owned : BOOLEAN]]
  BY DEF TypeInv, TypeOK
<1>1. ASSUME NEW r \in Runs, NEW p \in Pods, StartPod(r, p)
      PROVE  /\ PodsOf(r) = {} /\ kjob'[r].state = "active"
             /\ \A q \in Pods : q # p => pod'[q] = pod[q]
  BY <1>0, <1>1 DEF ExecutionInv, OnePod, StartPod, NewJob, TypeInv, TypeOK
<1>2. ASSUME NEW p \in Pods, NEW q \in Pods, pod'[p].run \in Runs, pod'[p].run = pod'[q].run
      PROVE  p = q
  <2>1. CASE StartPod(pod'[p].run, p)
    BY <1>1, <1>2, <2>1 DEF PodsOf
  <2>2. CASE StartPod(pod'[q].run, q)
    BY <1>1, <1>2, <2>2 DEF PodsOf
  <2>3. CASE pod'[p].run = pod[p].run /\ pod'[q].run = pod[q].run
    BY <1>2, <2>3 DEF ExecutionInv, OnePod
  <2> QED
    BY <1>2, <2>1, <2>2, <2>3, PodOrigin
<1>3. ASSUME NEW r \in Runs, kjob'[r].state = "pending", NEW p \in Pods, pod'[p].run = r
      PROVE  FALSE
  <2>1. ~StartPod(r, p)
    BY <1>1, <1>3
  <2>2. pod[p].run = r
    BY <1>3, <2>1, PodOrigin
  <2>3. kjob[r].state # "pending"
    BY <2>2 DEF ExecutionInv, OnePod, PodsOf
  <2>4. NewlyMade(r)
    BY <1>3, <2>3, AllJobs DEF JobStep
  <2>5. CASE "background" \notin Faults
    BY <2>2, <2>4, <2>5 DEF ExecutionInv, PodsOwned, NewlyMade
  <2>6. CASE "background" \in Faults
    BY <2>2, <2>4, <2>6 DEF ExecutionInv, NothingBefore, NewlyMade, Creates, NoCompute, PodsOf
  <2> QED
    BY <2>5, <2>6
<1> QED
  BY <1>2, <1>3 DEF OnePod, PodsOf

\* Without background deletions every Pod keeps its Job.
LEMMA PodsOwnedNext ==
  ASSUME "background" \notin Faults, TypeInv, PodsOwned, [Next]_vars
  PROVE  PodsOwned'
<1> SUFFICES ASSUME NEW p \in Pods, pod'[p].run \in Runs
             PROVE  pod'[p].owned /\ kjob'[pod'[p].run].state \notin {"absent", "pending"}
  BY DEF PodsOwned
<1>0. /\ pod \in [Pods -> [run : Runs \cup {NoRun}, phase : PodPhases, owned : BOOLEAN]]
      /\ kjob \in [Runs -> [state : JobStates, deleting : BOOLEAN]]
  BY DEF TypeInv, TypeOK
<1>1. CASE StartPod(pod'[p].run, p)
  BY <1>0, <1>1 DEF StartPod
<1>2. CASE pod'[p].run = pod[p].run /\ pod'[p].owned = pod[p].owned
  <2>1. pod[p].owned /\ kjob[pod[p].run].state \notin {"absent", "pending"}
    BY <1>2 DEF PodsOwned
  <2>2. ~JobGone(pod[p].run)
    BY <1>2, <2>1 DEF JobGone, PodsOf
  <2> QED
    BY <1>2, <2>1, <2>2, AllJobs DEF JobStep, NewlyMade
<1> QED
  BY <1>1, <1>2, PodOrigin

\* The invariant of executions is inductive in the stage machinery ...
LEMMA ExecutionSteps ==
  ASSUME OrphansSeen, TypeInv, EvidenceInv, ExecutionInv, [Next]_vars
  PROVE  ExecutionInv'
<1>1. "background" \notin Faults => PodsOwned'
  BY PodsOwnedNext DEF ExecutionInv
<1>2. ASSUME "background" \in Faults
      PROVE  DispatchInv' /\ \A c \in Controllers : NothingBefore(c)'
  <2>1. "lost_create" \notin Faults /\ FailuresRecordedTruly /\ \A c, d \in Controllers : c = d
    BY <1>2 DEF OrphansSeen, FailuresRecordedTruly
  <2> QED
    BY <1>2, <2>1, DispatchSteps, NothingBeforeNext DEF ExecutionInv
<1> QED
  BY <1>1, <1>2, OnePodNext DEF ExecutionInv

\* ... and beside deletions.
LEMMA ExecutionNext ==
  ASSUME OrphansSeen, DeletionInv, ExecutionInv, [DeletionNext]_allVars
  PROVE  ExecutionInv'
<1>1. CASE [Next]_vars
  BY <1>1, ExecutionSteps DEF DeletionInv
<1>2. ASSUME NEW w \in Workers, WorkerStep(w)
      PROVE  ExecutionInv'
  <2>1. UNCHANGED <<ctl, kjob, pod>>
    BY <1>2, RetentionSteps DEF DeletionInv, cluster
  <2>2. "background" \in Faults => DispatchInv'
    BY DispatchNext DEF OrphansSeen, FailuresRecordedTruly, ExecutionInv
  <2> QED
    BY <2>1, <2>2 DEF ExecutionInv, OnePod, PodsOwned, NothingBefore, Pending, NoCompute, PodsOf
<1> QED
  BY <1>1, <1>2, Steps

\* Initially nothing executes.
LEMMA ExecutionInit == Init => ExecutionInv
<1> SUFFICES ASSUME Init
             PROVE  ExecutionInv
  OBVIOUS
<1>1. /\ \A r \in Runs : kjob[r].state = "absent"
      /\ \A c \in Controllers : ctl[c].phase = "idle"
      /\ \A p \in Pods : pod[p].run \notin Runs
  BY ConstantsAssumption DEF Init, NoJob, Idle, NoPod
<1> QED
  BY <1>1, DispatchInit DEF ExecutionInv, OnePod, PodsOwned, NothingBefore, Pending

(* Two Pods never execute one stage run, across crashes, retried dispatches, *)
(* recreated Jobs and overlapping control workers, unless Pods are orphaned  *)
(* where a control worker does not see them (pods_for_job).                  *)
THEOREM ExecutionCorrect ==
  ASSUME OrphansSeen
  PROVE  DeletionSpec => []OneExecution
<1>1. DeletionInit => ExecutionInv
  BY ExecutionInit DEF DeletionInit
<1>2. DeletionInv /\ ExecutionInv /\ [DeletionNext]_allVars => ExecutionInv'
  BY ExecutionNext
<1>3. DeletionInv /\ ExecutionInv => OneExecution
  <2> SUFFICES ASSUME DeletionInv, ExecutionInv, NEW p \in Pods, NEW q \in Pods,
                      Writing(p), pod[p].run = pod[q].run
               PROVE  p = q
    BY DEF OneExecution
  <2>1. pod[p].run \in Runs
    BY DEF DeletionInv, TypeInv, PodsHaveRuns, Writing
  <2> QED
    BY <2>1 DEF ExecutionInv, OnePod
<1> QED
  BY <1>1, <1>2, <1>3, DeletionInvariance, PTL DEF DeletionSpec

-----------------------------------------------------------------------------
(* A success stays. *)

\* Nobody publishes by hand, and a publication that failed was not committed.
PublicationsRecordedTruly == AdminRuns = {} /\ "lost_commit" \notin Faults

\* A succeeded run has nobody left who would record a failure: not its Pod, and
\* not the control worker that dispatched it.
SuccessInv ==
    /\ \A r \in Runs : ~adminRequest[r]
    /\ \A r \in Runs : run[r].status = "succeeded" /\ ~RunHalted(r) =>
         \A p \in PodsOf(r) : pod[p].phase \in {"starting", "published", "done"}
    /\ "request_error" \in Faults =>
         \A c \in Controllers : \A r \in Pending(c) : run[r].status # "succeeded"

\* The Pod publishes its run.
Publishes(p, r) ==
    /\ pod[p].run = r /\ pod[p].phase = "publishing" /\ MoveTo(p, "published")
    /\ run[r].status = "running" /\ Exists(r)

\* How a run succeeds, and that it stays so.
SuccessStep(q) ==
    /\ run'[q].status = "succeeded" =>
         run[q].status = "succeeded" \/ \E p \in Pods : Publishes(p, q)
    /\ run[q].status = "succeeded" /\ ~RunHalted(q) => run'[q].status = "succeeded"

\* A step that leaves the status alone.
LEMMA SuccessAlone ==
  ASSUME NEW q, run'[q].status = run[q].status
  PROVE  SuccessStep(q)
  BY DEF SuccessStep

\* A step that records another status of a run that has not succeeded.
LEMMA SuccessElsewhere ==
  ASSUME TypeInv, NEW r, NEW status, status # "succeeded",
         run[r].status # "succeeded" \/ RunHalted(r),
         run' = [run EXCEPT ![r].status = status], NEW q \in Runs
  PROVE  SuccessStep(q)
<1>1. CASE q = r
  <2>1. run'[q].status = status
    BY <1>1 DEF TypeInv, TypeOK, StageRunRow
  <2> QED
    BY <1>1, <2>1 DEF SuccessStep
<1>2. CASE q # r
  BY <1>2, SuccessAlone DEF TypeInv, TypeOK
<1> QED
  BY <1>1, <1>2

\* The API and the clock.
LEMMA ApiSuccess ==
  ASSUME TypeInv, SuccessInv, ApiStep \/ (\E r \in Runs : LeaseExpires(r)), NEW q \in Runs
  PROVE  SuccessStep(q)
<1>0. run \in [Runs -> StageRunRow]
  BY DEF TypeInv, TypeOK
<1>1. ASSUME NEW m \in Missions, CancelMission(m)
      PROVE  SuccessStep(q)
  BY <1>1, SuccessAlone DEF CancelMission
<1>2. ASSUME NEW m \in Missions, DeleteMission(m)
      PROVE  SuccessStep(q)
  <2>1. \/ run'[q] = run[q]
        \/ run[q].status \in ActiveStatuses /\ run'[q] = [run[q] EXCEPT !.status = "cancelled"]
    BY <1>2 DEF DeleteMission, CancelActiveRuns
  <2> QED
    BY <1>0, <2>1 DEF SuccessStep, StageRunRow, ActiveStatuses
<1>3. ASSUME NEW r \in Runs, CreateStageRun(r)
      PROVE  SuccessStep(q)
  <2>1. PICK upstream : run' = [run EXCEPT ![r] = NewRun("queued", upstream)]
    BY <1>3 DEF CreateStageRun
  <2> QED
    BY <1>0, <1>3, <2>1 DEF CreateStageRun, Exists, NewRun, SuccessStep
<1>4. ASSUME NEW r \in Runs, AdminValidate(r) \/ AdminPublish(r)
      PROVE  SuccessStep(q)
  BY <1>4, SuccessAlone DEF AdminValidate, AdminPublish, SuccessInv, database
<1>5. ASSUME NEW r \in Runs, LeaseExpires(r)
      PROVE  SuccessStep(q)
  <2>1. run'[q].status = run[q].status
    BY <1>0, <1>5 DEF LeaseExpires, StageRunRow
  <2> QED
    BY <2>1, SuccessAlone
<1> QED
  BY <1>1, <1>2, <1>3, <1>4, <1>5 DEF ApiStep

\* A publication.
LEMMA PublishSuccess ==
  ASSUME TypeInv, NEW r \in Runs, PublishArtifact(r), NEW q \in Runs, q # r
  PROVE  /\ run[q].status = "succeeded" => run'[q].status = "succeeded"
         /\ run'[q].status = "succeeded" => run[q].status = "succeeded"
<1> DEFINE rows == [run EXCEPT ![r].status = "succeeded"]
<1>1. rows \in [Runs -> StageRunRow]
  BY SetStatusType, StatusNames DEF TypeInv, TypeOK
<1>2. rows[q] = run[q]
  BY DEF TypeInv, TypeOK
<1> HIDE DEF rows
<1>3. run' = ReleaseReady(rows, Append(artifacts, r), MissionOf[r])
  BY DEF PublishArtifact, rows
<1>4. \/ run'[q] = rows[q]
      \/ rows[q].status = "blocked" /\ run'[q].status = "queued"
  BY <1>1, <1>3 DEF ReleaseReady, ReadyForRelease, StageRunRow
<1> QED
  BY <1>2, <1>4

\* The executors: those of a succeeded run have nothing more to record.
LEMMA PodSuccess ==
  ASSUME TypeInv, SuccessInv, PublicationsRecordedTruly, NEW p \in Pods, PodStep(p), NEW q \in Runs
  PROVE  SuccessStep(q)
<1> DEFINE r == pod[p].run
<1>0. /\ pod[p].phase # "none" => r \in Runs
      /\ pod[p].phase \notin {"starting", "published", "done"} /\ r \in Runs =>
           run[r].status # "succeeded" \/ RunHalted(r)
  BY DEF TypeInv, PodsHaveRuns, SuccessInv, PodsOf
<1>same. ASSUME run' = run
         PROVE  SuccessStep(q)
  BY <1>same, SuccessAlone
<1>1. CASE LoadContext(p)
  <2>1. CASE Loadable(r)
    BY <1>1, <2>1, SuccessElsewhere DEF LoadContext, Loadable, ActiveStatuses
  <2>2. CASE ~Loadable(r)
    BY <1>1, <2>2, <1>same DEF LoadContext
  <2> QED
    BY <2>1, <2>2
<1>2. CASE Heartbeat(p)
  <2>1. run[r].status # "succeeded" \/ RunHalted(r)
    BY <1>2 DEF Heartbeat, StopRequested
  <2> QED
    BY <1>2, <2>1, SuccessElsewhere DEF Heartbeat
<1>3. CASE HandlerReturns(p)
  <2>1. CASE run' = run
    BY <2>1, <1>same
  <2>2. CASE StopRequested(r) /\ run' = [run EXCEPT ![r].status = "cancelled"]
    BY <2>2, SuccessElsewhere DEF StopRequested
  <2> QED
    BY <1>3, <2>1, <2>2 DEF HandlerReturns
<1>4. CASE HandlerRaises(p) \/ PublishFails(p) \/ PodSucceeds(p)
  BY <1>4, <1>same DEF HandlerRaises, PublishFails, PodSucceeds
<1>5. CASE PublishResult(p)
  <2>1. r \in Runs
    BY <1>0, <1>5 DEF PublishResult
  <2>2. CASE PublishArtifact(r) /\ Publishes(p, r)
    <3>1. CASE q = r
      BY <2>2, <3>1 DEF SuccessStep, Publishes
    <3>2. CASE q # r
      BY <2>1, <2>2, <3>2, PublishSuccess DEF SuccessStep
    <3> QED
      BY <3>1, <3>2
  <2> QED
    BY <1>5, <1>same, <2>2 DEF PublishResult, Publishes, PublicationsRecordedTruly
<1>6. CASE RecordTerminal(p)
  <2>1. r \in Runs /\ (run[r].status # "succeeded" \/ RunHalted(r))
    BY <1>0, <1>6 DEF RecordTerminal
  <2>2. CASE run' = run
    BY <2>2, <1>same
  <2>3. CASE \E status \in {"cancelled", "failed"} : run' = [run EXCEPT ![r].status = status]
    BY <2>1, <2>3, SuccessElsewhere
  <2> QED
    BY <1>6, <2>2, <2>3 DEF RecordTerminal
<1> QED
  BY <1>1, <1>2, <1>3, <1>4, <1>5, <1>6 DEF PodStep

\* An observation is applied to a succeeded run only for its cleanup, and sets
\* its status only if its mission was cancelled.
LEMMA AppliedSuccess ==
  ASSUME NEW row \in StageRunRow, NEW c,
         ctl[c].seen # "error" => (ctl[c].cleanup <=> ctl[c].seen \in {"clean", "unclean"})
  PROVE  /\ AppliedTo(row, c).status = "succeeded" => row.status = "succeeded"
         /\ row.status = "succeeded" /\ ctl[c].cleanup /\ ctl[c].mstatus # "cancelled" =>
              AppliedTo(row, c).status = "succeeded"
<1>1. CASE ctl[c].seen \in {"missing", "missing_error"}
  BY <1>1 DEF AppliedTo, StageRunRow
<1>2. CASE ctl[c].seen \in {"clean", "unclean"}
  BY <1>2 DEF AppliedTo, StageRunRow, ActiveStatuses
<1>3. CASE ctl[c].seen \in {"failed", "complete", "active"}
  BY <1>3 DEF AppliedTo, StageRunRow
<1>4. CASE ctl[c].seen \notin {"missing", "missing_error", "clean", "unclean",
                               "failed", "complete", "active"}
  BY <1>4 DEF AppliedTo
<1> QED
  BY <1>1, <1>2, <1>3, <1>4

\* The control workers.
LEMMA ControllerSuccess ==
  ASSUME TypeInv, EvidenceInv, DispatchInv, SuccessInv,
         NEW c \in Controllers, ControllerStep(c), NEW q \in Runs
  PROVE  SuccessStep(q)
<1>0. run \in [Runs -> StageRunRow]
  BY DEF TypeInv, TypeOK
<1>same. ASSUME run'[q] = run[q]
         PROVE  SuccessStep(q)
  BY <1>same, SuccessAlone
<1>1. CASE ReserveCommit(c)
  <2> DEFINE unplanned == {r \in Candidates \cap InvalidRuns : StageOf[r] = "detection"}
  <2>1. PICK selection \in Selections(ctl[c].batch, Candidates \ unplanned) :
            run' = [r \in Runs |->
                      IF r \in unplanned \cup (selection \cap InvalidRuns)
                      THEN [run[r] EXCEPT !.status = "failed"]
                      ELSE IF r \in selection \ InvalidRuns
                      THEN [run[r] EXCEPT !.dispatched = TRUE, !.jobName = TRUE,
                                          !.attempts = @ + 1]
                      ELSE run[r]]
    BY <1>1 DEF ReserveCommit
  <2>2. \/ run'[q] = run[q]
        \/ q \in Candidates /\ run'[q] = [run[q] EXCEPT !.status = "failed"]
        \/ run'[q] = [run[q] EXCEPT !.dispatched = TRUE, !.jobName = TRUE, !.attempts = @ + 1]
    BY <2>1 DEF Selections
  <2>3. run[q] \in StageRunRow
    BY <1>0
  <2>4. CASE q \in Candidates /\ run'[q] = [run[q] EXCEPT !.status = "failed"]
    BY <2>3, <2>4 DEF SuccessStep, Candidates, StageRunRow
  <2>5. CASE run'[q] = [run[q] EXCEPT !.dispatched = TRUE, !.jobName = TRUE, !.attempts = @ + 1]
    <3>1. run'[q].status = run[q].status
      BY <2>3, <2>5 DEF StageRunRow
    <3> QED
      BY <3>1, SuccessAlone
  <2> QED
    BY <1>same, <2>2, <2>4, <2>5
<1>2. CASE RecordDispatchError(c)
  <2> DEFINE r == ctl[c].run
  <2>1. run[r].status # "succeeded"
    BY <1>2 DEF RecordDispatchError, DispatchInv, Handling, SuccessInv
  <2>2. CASE run' = run
    BY <2>2, <1>same
  <2>3. CASE run' = [run EXCEPT ![r].status = "failed"]
    BY <2>1, <2>3, SuccessElsewhere
  <2>4. CASE run' = [run EXCEPT ![r].dispatched = FALSE]
    <3>1. run'[q].status = run[q].status
      BY <1>0, <2>4 DEF StageRunRow
    <3> QED
      BY <3>1, SuccessAlone
  <2> QED
    BY <1>2, <2>2, <2>3, <2>4 DEF RecordDispatchError
<1>3. ASSUME NEW r \in Runs, ReconcileClaim(c, r)
      PROVE  SuccessStep(q)
  <2>1. run'[q].status = run[q].status
    BY <1>0, <1>3 DEF ReconcileClaim, StageRunRow
  <2> QED
    BY <2>1, SuccessAlone
<1>4. CASE ReconcileApply(c)
  <2> DEFINE r == ctl[c].run
             released == [run[r] EXCEPT !.token = NoController, !.leaseLive = FALSE]
  <2>1. r \in Runs /\ MemorySound(c) /\ Reconciling(c) /\ ctl[c].phase = "applying"
    BY <1>4 DEF ReconcileApply, EvidenceInv, MemorySound, Reconciling
  <2>0. run[r] \in StageRunRow
    BY <1>0, <2>1
  <2>2. released \in StageRunRow /\ released.status = run[r].status
    BY <2>0, LeaseType DEF StageRunRow
  <2>3. \/ run' = run
        \/ run' = [run EXCEPT ![r] = released]
        \/ SnapshotHolds(c) /\ run' = [run EXCEPT ![r] = AppliedTo(released, c)]
    BY <1>4 DEF ReconcileApply
  <2> HIDE DEF released
  <2>4. CASE run'[q] = run[q]
    BY <2>4, <1>same
  <2>5. CASE q = r /\ run'[q] = released
    BY <2>2, <2>5, SuccessAlone
  <2>6. CASE q = r /\ SnapshotHolds(c) /\ run'[q] = AppliedTo(released, c)
    <3>1. run[q].status = "succeeded" => ctl[c].cleanup
      BY <2>1, <2>6 DEF SnapshotHolds, MemorySound, ActiveStatuses
    <3>2. ~RunHalted(q) => ctl[c].mstatus # "cancelled"
      BY <2>6 DEF SnapshotHolds, RunHalted, Halted, HaltedStatuses
    <3> QED
      BY <2>1, <2>2, <2>6, <3>1, <3>2, AppliedSuccess DEF SuccessStep, MemorySound
  <2> QED
    BY <1>0, <2>1, <2>3, <2>4, <2>5, <2>6
<1>5. CASE \/ ReserveBegin(c) \/ ControllerCrash(c)
           \/ \E r \in Runs : DispatchJob(c, r) \/ DispatchJobFails(c, r)
           \/ ObserveCleanup(c) \/ ObserveJob(c) \/ ObserveFails(c)
           \/ RecreateJob(c) \/ RecreateJobFails(c)
  BY <1>5, <1>same DEF ReserveBegin, ControllerCrash, DispatchJob, DispatchJobFails, ObserveCleanup,
     ObserveJob, ObserveFails, RecreateJob, RecreateJobFails, ObserveUnchanged, database
<1> QED
  BY <1>1, <1>2, <1>3, <1>4, <1>5 DEF ControllerStep

\* Every step.
LEMMA AllSuccesses ==
  ASSUME PublicationsRecordedTruly, TypeInv, EvidenceInv, DispatchInv, SuccessInv, [Next]_vars, NEW q \in Runs
  PROVE  SuccessStep(q)
<1>1. CASE ClusterStep
  BY <1>1, SuccessAlone DEF ClusterStep, StartPod, PodKilled, PodRemoved, JobGone, JobDeadline,
     JobExpires, JobRemoved, ClusterUnchanged, database
<1>2. CASE UNCHANGED vars
  BY <1>2, SuccessAlone DEF vars
<1> QED
  BY <1>1, <1>2, ApiSuccess, ControllerSuccess, PodSuccess DEF Next

\* A Pod that has nothing to record gets a context only from an active run.
LEMMA QuietPods ==
  ASSUME TypeInv, [Next]_vars, NEW p \in Pods, pod'[p].run = pod[p].run, pod[p].run \in Runs,
         pod[p].phase \in {"starting", "published", "done"}, ~Loadable(pod[p].run)
  PROVE  pod'[p].phase \in {"starting", "published", "done"}
<1>0. pod \in [Pods -> [run : Runs \cup {NoRun}, phase : PodPhases, owned : BOOLEAN]]
  BY DEF TypeInv, TypeOK
<1>1. ASSUME NEW q \in Pods, NEW outcome, PodEnds(q, outcome)
      PROVE  pod'[p].phase \in {"starting", "published", "done"}
  BY <1>0, <1>1 DEF PodEnds, MoveTo
<1>2. ASSUME NEW q \in Pods, q # p, NEW phase, MoveTo(q, phase)
      PROVE  pod'[p].phase \in {"starting", "published", "done"}
  BY <1>0, <1>2 DEF MoveTo
<1>3. ASSUME NEW q \in Pods, PodStep(q) \/ PodKilled(q)
      PROVE  pod'[p].phase \in {"starting", "published", "done"}
  <2>1. CASE q = p
    <3>1. \/ \E outcome : PodEnds(p, outcome)
          \/ pod' = pod
      BY <1>3, <2>1 DEF PodStep, LoadContext, Heartbeat, HandlerReturns, HandlerRaises, PublishResult,
         PublishFails, RecordTerminal, PodSucceeds, PodKilled, cluster
    <3> QED
      BY <1>1, <3>1
  <2>2. CASE q # p
    <3>1. (\E phase : MoveTo(q, phase)) \/ pod' = pod
      BY <1>3 DEF PodStep, LoadContext, Heartbeat, HandlerReturns, HandlerRaises, PublishResult,
         PublishFails, RecordTerminal, PodSucceeds, PodEnds, PodKilled, cluster
    <3> QED
      BY <1>2, <2>2, <3>1
  <2> QED
    BY <2>1, <2>2
<1>4. CASE ClusterStep
  <2>1. ASSUME NEW r \in Runs, NEW q \in Pods, StartPod(r, q)
        PROVE  pod'[p].phase \in {"starting", "published", "done"}
    BY <1>0, <2>1 DEF StartPod
  <2>2. ASSUME NEW r \in Runs, JobGone(r) \/ JobDeadline(r) \/ JobExpires(r)
        PROVE  pod' = pod
    BY <2>2 DEF JobGone, JobDeadline, JobExpires
  <2>3. ASSUME NEW r \in Runs, JobRemoved(r)
        PROVE  pod'[p].phase = pod[p].phase
    BY <1>0, <2>3 DEF JobRemoved
  <2>4. ASSUME NEW q \in Pods, PodRemoved(q)
        PROVE  pod'[p] = pod[p] \/ pod'[p] = NoPod
    BY <1>0, <2>4 DEF PodRemoved
  <2>5. NoPod.run \notin Runs
    BY ConstantsAssumption DEF NoPod
  <2> QED
    BY <1>3, <1>4, <2>1, <2>2, <2>3, <2>4, <2>5 DEF ClusterStep
<1>5. ASSUME NEW c \in Controllers, ControllerStep(c)
      PROVE  pod' = pod
  BY <1>5 DEF ControllerStep, ReserveBegin, ReserveCommit, DispatchJob, DispatchJobFails,
     RecordDispatchError, ReconcileClaim, ObserveCleanup, ObserveJob, ObserveFails,
     RecreateJob, RecreateJobFails, ReconcileApply, ControllerCrash, ObserveUnchanged, cluster
<1>6. ASSUME ApiStep \/ (\E r \in Runs : LeaseExpires(r)) \/ UNCHANGED vars
      PROVE  pod' = pod
  BY <1>6 DEF ApiStep, CancelMission, DeleteMission, CreateStageRun, AdminValidate, AdminPublish,
     LeaseExpires, cluster, vars
<1> QED
  BY <1>3, <1>4, <1>5, <1>6 DEF Next

\* A run is added to the Jobs that a control worker is about to create when it
\* is reserved only.
LEMMA PendingStep ==
  ASSUME TypeInv, [Next]_vars, NEW c \in Controllers, NEW r \in Pending(c)', r \notin Pending(c)
  PROVE  ReserveCommit(c) /\ r \in Candidates \ InvalidRuns
<1>0. ctl \in [Controllers -> ControllerState]
  BY DEF TypeInv, TypeOK
<1>1. ControllerStep(c)
  BY MemoryOwned DEF Pending
<1>2. ASSUME ctl'[c].phase \notin {"dispatching", "recording"}
      PROVE  FALSE
  BY <1>2 DEF Pending
<1>3. ASSUME NEW q, ctl'[c] = NextInBatch(c, q), ctl[c].phase \in {"dispatching", "recording"}
      PROVE  FALSE
  BY <1>3, NextInBatchFields DEF Pending
<1>4. ASSUME NEW q \in Runs, DispatchJobFails(c, q)
      PROVE  FALSE
  <2>1. ctl'[c].batch = ctl[c].batch
    BY <1>0, <1>4 DEF DispatchJobFails, ControllerState
  <2> QED
    BY <1>4, <2>1 DEF DispatchJobFails, Pending
<1>5. ASSUME NEW seen, Seen(c, seen)
      PROVE  FALSE
  <2>1. ctl'[c].phase = "applying"
    BY <1>0, <1>5 DEF Seen, ControllerState
  <2> QED
    BY <1>2, <2>1
<1>6. ASSUME ctl' = [ctl EXCEPT ![c].phase = "creating"]
      PROVE  FALSE
  <2>1. ctl'[c].phase = "creating"
    BY <1>0, <1>6 DEF ControllerState
  <2> QED
    BY <1>2, <2>1
<1>7. CASE ReserveBegin(c) \/ ReconcileApply(c) \/ ControllerCrash(c)
  <2>1. ctl'[c] = Idle \/ ctl'[c] = [Idle EXCEPT !.phase = "reserving", !.batch = ReservedRuns]
    BY <1>0, <1>7 DEF ReserveBegin, ReconcileApply, ControllerCrash
  <2>2. /\ Idle.phase = "idle"
        /\ [Idle EXCEPT !.phase = "reserving", !.batch = ReservedRuns].phase = "reserving"
    BY DEF Idle
  <2> QED
    BY <1>2, <2>1, <2>2
<1>claim. ASSUME NEW q \in Runs, ReconcileClaim(c, q)
          PROVE  FALSE
  <2>1. ctl'[c].phase = "observing"
    BY <1>0, <1>claim DEF ReconcileClaim, Idle
  <2> QED
    BY <1>2, <2>1
<1>8. CASE (\E q \in Runs : DispatchJob(c, q)) \/ RecordDispatchError(c)
  <2>1. \/ ctl'[c] = Idle
        \/ ctl[c].phase \in {"dispatching", "recording"} /\ \E q : ctl'[c] = NextInBatch(c, q)
    BY <1>0, <1>8 DEF DispatchJob, RecordDispatchError
  <2> QED
    BY <1>2, <1>3, <2>1 DEF Idle
<1>9. CASE ObserveCleanup(c) \/ ObserveJob(c) \/ ObserveFails(c) \/ RecreateJob(c) \/ RecreateJobFails(c)
  BY <1>5, <1>6, <1>9 DEF ObserveCleanup, ObserveJob, ObserveFails, RecreateJob, RecreateJobFails
<1>10. CASE ReserveCommit(c)
  <2>1. PICK batch \in SUBSET (Candidates \ InvalidRuns) :
           ctl' = [ctl EXCEPT ![c] = IF batch = {} THEN Idle
                                     ELSE [Idle EXCEPT !.phase = "dispatching", !.batch = batch]]
    BY <1>10 DEF ReserveCommit, Selections
  <2>2. CASE batch = {}
    BY <1>0, <1>2, <2>1, <2>2 DEF Idle
  <2>3. CASE batch # {}
    <3>1. ctl'[c].batch = batch
      BY <1>0, <2>1, <2>3 DEF Idle
    <3> QED
      BY <1>10, <3>1 DEF Pending
  <2> QED
    BY <2>2, <2>3
<1> QED
  BY <1>1, <1>4, <1>7, <1>8, <1>9, <1>10, <1>claim DEF ControllerStep

\* The invariant of successes is inductive.
LEMMA SuccessNext ==
  ASSUME OrphansSeen, FailuresRecordedTruly, PublicationsRecordedTruly,
         TypeInv, EvidenceInv, DispatchInv, ExecutionInv, SuccessInv, [Next]_vars
  PROVE  SuccessInv'
<1>0. \A q \in Runs : SuccessStep(q)
  BY AllSuccesses
<1>1. ASSUME NEW r \in Runs, RunHalted(r)
      PROVE  RunHalted(r)'
  BY <1>1, MissionStep, ConstantsAssumption DEF RunHalted, Halted, HaltedStatuses
<1>2. \A r \in Runs : ~adminRequest'[r]
  <2>1. UNCHANGED adminRequest
    <3>1. ASSUME NEW r \in Runs, AdminValidate(r) \/ AdminPublish(r)
          PROVE  FALSE
      BY <3>1 DEF AdminValidate, AdminPublish, SuccessInv, PublicationsRecordedTruly
    <3>2. CASE ApiStep \/ (\E r \in Runs : LeaseExpires(r)) \/ UNCHANGED vars
      BY <3>1, <3>2 DEF ApiStep, CancelMission, DeleteMission, CreateStageRun, LeaseExpires, vars
    <3>3. ASSUME NEW c \in Controllers, ControllerStep(c)
          PROVE  UNCHANGED adminRequest
      BY <3>3 DEF ControllerStep, ReserveBegin, ReserveCommit, DispatchJob, DispatchJobFails,
         RecordDispatchError, ReconcileClaim, ObserveCleanup, ObserveJob, ObserveFails,
         RecreateJob, RecreateJobFails, ReconcileApply, ControllerCrash, ObserveUnchanged
    <3>4. ASSUME NEW p \in Pods, PodStep(p)
          PROVE  UNCHANGED adminRequest
      BY <3>4 DEF PodStep, LoadContext, Heartbeat, HandlerReturns, HandlerRaises, PublishResult,
         PublishFails, RecordTerminal, PodSucceeds, PodUnchanged
    <3>5. CASE ClusterStep
      BY <3>5 DEF ClusterStep, StartPod, PodKilled, PodRemoved, JobGone, JobDeadline,
         JobExpires, JobRemoved, ClusterUnchanged
    <3> QED
      BY <3>2, <3>3, <3>4, <3>5 DEF Next
  <2> QED
    BY <2>1 DEF SuccessInv
<1>3. ASSUME NEW r \in Runs, run'[r].status = "succeeded", ~RunHalted(r)',
             NEW p \in Pods, pod'[p].run = r
      PROVE  pod'[p].phase \in {"starting", "published", "done"}
  <2>0. pod \in [Pods -> [run : Runs \cup {NoRun}, phase : PodPhases, owned : BOOLEAN]]
    BY DEF TypeInv, TypeOK
  <2>1. CASE StartPod(r, p)
    BY <2>0, <2>1 DEF StartPod
  <2>2. CASE pod[p].run = r /\ run[r].status = "succeeded"
    <3>1. pod[p].phase \in {"starting", "published", "done"} /\ ~Loadable(r)
      BY <1>1, <1>3, <2>2 DEF SuccessInv, PodsOf, Loadable, ActiveStatuses
    <3> QED
      BY <1>3, <2>2, <3>1, QuietPods
  <2>3. ASSUME pod[p].run = r, NEW q \in Pods, Publishes(q, r)
        PROVE  pod'[p].phase = "published"
    <3>1. q = p
      BY <1>3, <2>3 DEF ExecutionInv, OnePod, Publishes
    <3> QED
      BY <2>0, <2>3, <3>1 DEF Publishes, MoveTo
  <2> QED
    BY <1>0, <1>3, <2>1, <2>2, <2>3, PodOrigin DEF SuccessStep
<1>4. ASSUME "request_error" \in Faults, NEW c \in Controllers, NEW r \in Pending(c)',
             run'[r].status = "succeeded"
      PROVE  FALSE
  <2>1. CASE r \notin Pending(c)
    <3>1. ReserveCommit(c) /\ r \in Candidates
      BY <1>4, <2>1, PendingStep
    <3>2. r \in Runs /\ run[r].status # "succeeded" /\ ~\E p \in Pods : Publishes(p, r)
      <4>1. UNCHANGED pod
        BY <3>1 DEF ReserveCommit, cluster
      <4>2. ASSUME NEW p \in Pods, Publishes(p, r)
            PROVE  FALSE
        BY <4>1, <4>2 DEF Publishes, MoveTo, TypeInv, TypeOK
      <4> QED
        BY <3>1, <4>2 DEF Candidates
    <3> QED
      BY <1>0, <1>4, <3>2 DEF SuccessStep
  <2>2. CASE r \in Pending(c)
    <3>1. r \in Runs /\ run[r].status # "succeeded"
      BY <1>4, <2>2 DEF SuccessInv, Pending, TypeInv, TypeOK, ControllerState
    <3>2. PICK p \in Pods : Publishes(p, r)
      BY <1>0, <1>4, <3>1 DEF SuccessStep
    <3>3. Known(r)
      BY <3>1, <3>2 DEF Publishes, EvidenceInv, Known
    <3> QED
      BY <1>4, <2>2, <3>2, <3>3 DEF DispatchInv, Handling, NoCompute, PodsOf, Publishes
  <2> QED
    BY <2>1, <2>2
<1> QED
  BY <1>2, <1>3, <1>4 DEF SuccessInv, PodsOf

\* Initially no run has succeeded.
LEMMA SuccessInit == Init => SuccessInv
<1> SUFFICES ASSUME Init
             PROVE  SuccessInv
  OBVIOUS
<1>1. /\ \A r \in Runs : ~adminRequest[r]
      /\ \A c \in Controllers : Pending(c) = {}
      /\ \A p \in Pods : pod[p].run \notin Runs
  BY ConstantsAssumption DEF Init, Idle, NoPod, Pending
<1> QED
  BY <1>1 DEF SuccessInv, PodsOf

(* The status of a succeeded run does not change unless its mission was      *)
(* halted: neither its executor, nor a reconciliation that began before, nor *)
(* a dispatch that was recorded late overwrites it (_apply_job_status,       *)
(* _record_dispatch_error, _mark_terminal), if no reply is lost on the way   *)
(* and nobody publishes by hand.                                             *)
THEOREM SuccessCorrect ==
  ASSUME OrphansSeen, FailuresRecordedTruly, PublicationsRecordedTruly
  PROVE  Spec => SuccessfulAttemptKept
<1> DEFINE I == TypeInv /\ EvidenceInv /\ DispatchInv /\ ExecutionInv /\ SuccessInv
<1>1. Init => I
  BY TypeInit, EvidenceInit, DispatchInit, ExecutionInit, SuccessInit
<1>2. I /\ [Next]_vars => I'
  BY TypeNext, EvidenceNext, DispatchSteps, ExecutionSteps, SuccessNext
<1>3. I /\ [Next]_vars =>
        [\A r \in Runs : run[r].status = "succeeded" /\ ~RunHalted(r) =>
           run'[r].status \in {"succeeded", "absent"}]_vars
  BY AllSuccesses DEF SuccessStep
<1> HIDE DEF I
<1> QED
  BY <1>1, <1>2, <1>3, PTL DEF Spec, SuccessfulAttemptKept
===============================================================================
