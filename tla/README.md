# A TLA+ development of DroneAI

DroneAI turns drone imagery into orthophotos, detections and Gaussian scenes.
A *mission* is a small DAG of *stages*; every stage is executed by a bounded
Kubernetes Job, and everything the program must remember is in PostgreSQL and
in an S3 object store. This directory models the parts of the program where
processes, requests, Pods, browsers and crashes meet: what runs, when and how
often; how images come in and data goes out; when data may be deleted; and how
the streaming viewer follows a camera with bounded memory and requests.

## 1. Inventory

| Component | State | Operations | Interacts through |
|---|---|---|---|
| Stage DAG, scheduler (`shared/stage_contracts.py`, `stage_scheduler.py`, `phase_dag.py`) | none; a fixed graph | initial runs of a mission; fair selection under limits | called by launch and by the orchestrator |
| Stage orchestrator (`app4-dashboard/api/stage_orchestrator.py`, `kubernetes_jobs.py`) | `mission_stage_runs` rows (status, executor, job name, attempts, lease and token, cleanup evidence); an advisory lock | reserve, dispatch, record a dispatch error, reconcile | transactions on the rows; HTTP requests to the cluster outside of them |
| Stage executor (`shared/stage_execution.py`, `stage_artifacts.py`) | one Pod: a loaded context, a heartbeat thread | load, heartbeat, run the handler, publish, record a terminal status | the same rows; object storage |
| Stage and mission API (`routers/mission_stages.py`, `routers/missions.py`) | mission and run rows | cancel, delete, retry a stage, publish by hand | the same rows |
| Deletion and retention (`retention.py`, `organization_saas.py`) | mission rows, object prefix, usage ledger; a claimed candidate in memory | claim, drain, delete objects, complete, fail | cleanup evidence written by the orchestrator |
| Control leadership (`control_leadership.py`, `control_worker.py`, `control_runtime.py`) | a session lock, threads | elect, start loops, stop with a bounded join | decides who runs the loops above |
| Outbox (`inbox_outbox.py`) | `outbox_events` rows with leases | enqueue, leased batches, record an outcome, dead-letter, replay | API transactions, Kafka, leadership |
| Status inbox (`realtime.py`, `kafka_reliability.py`, `mission_state.py`) | `inbox_events`, consumer offsets, `service_states` | process once, retry, dead-letter, commit | Kafka, mission rows |
| Dataset uploads (`dataset_upload*.py`, `routers/datasets.py`) | sessions, files, catalogue, quota and ledger | create, complete, finalise, abort, expire, reconcile, delete | object storage, usage ledger |
| Detection fan-out (`detection_shard*.py`) | shard plan, receipts | plan, Indexed Job, receipts, finalizer | the run row, a second Job name |
| Workspaces and immutable storage (`stage_workspace.py`, `artifact_manifest.py`, `colmap_worker/stage_executor.py`, `collect_cas.py`) | retained local directories and their locks, blobs, manifests | restore, publish, keep, take over, collect | Pods, the run and artifact rows |
| Streaming viewer (`frontend/app/lib/gstile`) | resident cut, arena, requests in flight, memory cache | follow the camera, commit a group, fetch with retry and fallback | the HTTP object server, a Worker |
| Analyses, rate limiting, identity, GCP workspace, numeric pipelines, deployment | see `PROJECT.json` | | |

What makes it hard: the reconciler keeps no transaction open while it talks to
Kubernetes, so everything it writes rests on an observation that may be out of
date; a request that failed may have been carried out; two replicas may run the
loops at once; a Pod may outlive its Job, its run and its mission; deletion must
wait for evidence that all of them are gone; the object store and the database
have no common transaction; several Pods may have one retained directory before
them; and in the viewer, every `await` lets the camera move on. The properties
each component owes:

- scheduler: the envelope of concurrency, the order of the DAG;
- orchestrator: one execution per run, no revival of a finished run, sound
  cleanup evidence, every active run settles, halted compute stops;
- executor and API: exact lineage, a success that stays;
- retention: objects outlive their writers, no mission is stranded half
  deleted, the ledger gives the reason, deletions end;
- leadership: overlap is limited, and leadership comes back;
- outbox and inbox: delivered at least once, applied once, in order, and nothing
  skipped;
- uploads: quota is never over-reserved nor leaked, a ready dataset is whole;
- fan-out: the envelope of Pods, all of the raster, receipts that do not change,
  cleanup of both Jobs, an end;
- workspaces: an artifact can be restored for ever, inputs are exact, work is
  kept until it is published;
- viewer: the arena shows the cut, no hole opens, the loop rests on what the
  camera selected, requests keep their slots and are answered.

The hazards behind these are listed with their lines in `PROJECT.json`.

## 2. Modules

| Module | Models | Composed with |
|---|---|---|
| `StageContracts` | the graph, ancestors, independence | used by `StageJobs`, `StageScheduler` |
| `StageScheduler` | pure: owners' turns, limits and units of one selection | checked against `StageJobs` |
| `StageJobs` | API, control workers, executors and cluster around the run rows | |
| `MissionDeletion` | retention workers | all of `StageJobs` |
| `ControlLeadership` | election, health, loops that outlive their term | |
| `AtLeastOnce` | abstract: what an outbox promises | |
| `OutboxDelivery` | the outbox loop | all of `ControlLeadership`; implements `AtLeastOnce` |
| `StatusInbox` | consumers, receipts, dead letters, the row of the mission under events and users | |
| `DatasetUploads` | sessions, store, catalogue, quota, reconciler, deletion | |
| `DetectionSharding` | pure: tiles of an axis, shards of a plan | used by `DetectionFanOut` |
| `DetectionFanOut` | both phases of a fanned-out run | |
| `ArtifactWorkspaces` | restoration, publication, retained directories, collection | |
| `LodViewer` | the level-of-detail loop and the arena | |
| `RangeScheduler` | requests, pools and memory cache of the viewer | |
| `StageJobsProofs` | theorems about the stage machinery, alone and composed with retention |
| `OutboxProofs`, `StatusInboxProofs`, `DatasetUploadsProofs` | theorems about delivery and uploads |
| `DetectionFanOutProofs` | theorems about planning and about the fan-out built on it |
| `ArtifactWorkspacesProofs` | theorems about directories, publications and collection |
| `RangeSchedulerProofs` | theorems about the pools and the memory cache of the viewer |
| `LodViewerProofs` | theorems about its level-of-detail loop: tree, planned cuts, arena |
| `MC...` | instances for TLC | |

**One action is one transaction, one request, or one uninterrupted task.** In the
control plane and the executors, transactions lock the rows they decide on
(`FOR UPDATE`), so each is atomic; a request to Kubernetes, Kafka or the object
store made outside a transaction is an action of its own. In the viewer an
action is what runs between two `await`s. What the code does in memory between
two such points is part of the action that ends there.

### The stage machinery (`StageJobs`, `MissionDeletion`)

- `run[r]` is a `mission_stage_runs` row. `dispatched` is
  `executor = "kubernetes-job"`, `jobName` says that `job_name` is set (it is a
  function of the run), `token`, `leaseLive` and `cleaned` are the provenance keys
  `reconcile_token`, `reconcile_lease_until` (not passed yet) and
  `cleanup_confirmed_at`. Status "absent" is a row that does not exist.
- `mission[m]` holds `status` and `current_step`. The statuses that change
  nothing for the machinery (processing, success, ...) are one, "pending".
- `artifacts` is the sequence of published artifacts; a position is an identity
  and an age. Rows of a deleted mission keep their positions, nothing reads them.
- `ctl[c]` is what a control worker's loop holds in memory between a claim, a
  request and the transaction that applies it. The code claims up to twenty rows
  in one transaction and then handles them one by one; the model claims one row
  at a time, and since anything may happen between a claim and an observation,
  the rows of a batch behave as rows claimed early.
- `kjob[r]`, `pod[p]` are the cluster: a Job per run name, with foreground
  deletion under way or not, and Pods that may be owned or orphaned.
- `worker[w]`, `objects[m]`, `ledger[m]` are a retention loop's candidate, the
  mission's object prefix and its closing usage event.
- `publish_stage_artifact` reads without a lock and is two actions
  (`AdminValidate`, `AdminPublish`). The reservation is two (`ReserveBegin`,
  `ReserveCommit`): it reads the active runs in one statement and locks the
  candidates in another.

Abstracted: ages, backoffs and lease lengths (they may pass at any time), the
units of a run (one each), owner and resource-class limits (`StageJobs` allows any
selection that is maximal under the two limits kept; the code's own is
`StageScheduler`, see below), names, manifests and payloads. `InvalidRuns` are the runs whose manifest or
fan-out plan is refused. `Faults` names what the environment may do.

`StageScheduler` translates `select_stage_candidates` as a fold over the owners'
turns. Two assumptions that TLC evaluates with `StageJobsLineage` compare it
with what it promises. `SelectionsMaximalAndFair`, for every queue of three ready
runs of two owners under limits that bind in turn: no envelope is exceeded, no run is
left out that would have fitted, no owner gets two runs more than another whose run
fitted, and of one owner the older run comes first although the queues rotate (what
was skipped once cannot fit later in the same cycle). `SchedulerSelects`: what it
selects, in any order of age, is one of the `Selections` of `StageJobs`, so the
abstraction used there, and in its proofs, includes the code's choice.

### Leadership, outbox and inbox

- `leaderLock` is the session-level advisory lock as the server sees it, `main[p]`
  the main thread of a replica, `loop[t]` a thread with its stop event. A lost
  connection frees the lock at once and is noticed at the next health check; the
  bounded join lets a loop go on (`EndLoop` comes later).
- `outbox[e]` is an `outbox_events` row, `dispatch[t]` the batch a loop holds and
  the outcomes it has not recorded. The lease owner is a process (`hostname:pid`):
  two loops of one process cannot tell their leases apart, and the model does not
  either.
- In `StatusInbox` a message is an offset of `Log`, copies included; `pod[p]` is a
  consumer thread between poll, handler, dead letter and commit; the handler's
  transaction is split where the receipt is inserted, which reads `row`, and at the
  commit, which writes the service states whole and of the other columns those that
  differ from what was read (the ORM's flush). `row` holds the columns of the mission
  and the status of its latest stage runs; `user` what the API and the retention loop
  have done to it. No program of the repository publishes status events any more:
  they are external, and any order of them is allowed.
  Refused dead letters (`refused`) and a start at the end of the topic (`skipped`)
  are history the properties need.

### Uploads

One dataset name, hence one prefix. `session`, `file`, `dataset` and `ledger` are
rows; `multipart`, `object` and `manifest` the store. A transition locks the row
of its session for as long as it talks to the store, so it is one step; what can
come apart is the effect on the store and a commit that is lost. `request`
and `deleter` are the two operations that look at the prefix or the store in one
step and act in another.

### Detection fan-out

The row of one run, its two Jobs (`kjob["shard"]`, `kjob["finalizer"]`), Pods as
records, receipts per shard, and the units held by other runs (`others`). The
raster is chosen from `Rasters`; its plan comes from `DetectionSharding`, whose
functions are the ones the theorems are about. Contents of results are values:
`Varying` ones stand for inference that does not repeat itself.

### Workspaces

`dir` is the directory of a run on the bound work root, `file` its files with what
the verification cache vouches for, `holder` the lock; `pod[p]` is where
a Pod has got to in `stage_executor.py`: restoring file by file, computing in
place, uploading blob by blob, writing the manifest, leaving, committing. A
content is its own digest, and a manifest its value, as the checksum in an
artifact row is. A blob past its grace is deleted if nothing referred to it when the
collector looked. `made` and `beside` are history the properties need.

### Viewer

- `LodViewer`: `chosen` is the cut the loop is after, `sync` the group under way
  (its cut, what is still loading), `arena` the slots of the resident nodes: each a
  sequence of places with the records copied there. A camera is the cut it selects
  (`Cuts`); the tile fetch is one step that succeeds or fails.
- `RangeScheduler`: `request[k]` is the entry of `#inFlight` for a range, with the
  `await` it is at; `disk` and `net` are the pools, `probation` and `protected` the
  two segments of the memory cache. Consumers come and go for ever; grace timers
  and retry delays may pass at any time.

## 3. Runs

Small instances, chosen so that the event a property is about can happen. All
runs finish in under three minutes with two TLC workers.

| Run | Bounds | Distinct states | Shows |
|---|---|---|---|
| `StageJobsRaces` | 1 run, 2 control workers, 1 Pod, 2 attempts, 1 crash, hand publication, six faults | 5.4 M | `CleanupEvidenceSound`, `TerminalNeverRevives` |
| `StageJobsLineage` | three histories of 2 missions and 10 runs, of which 3 are live; 2 workers, 1 Pod, both envelopes 2; kills, deadlines, TTL, failed requests, foreground deletions | 0.7 M | `ExactLineage`, `ConcurrencyRespected`, `SuccessfulAttemptKept` |
| `DeletionSafety` | 1 mission, 1 run, 1 control and 2 retention workers, 2 Pods, 1 crash, hand publication, all faults but a lost create | 0.4 M | `DeletionWaitsForCompute`, `NoStrandedMission`, `OneExecution` |
| `Convergence` | 1 mission, 1 run, 1 control and 1 retention worker, 2 attempts, 1 crash, fair | | `RunsSettle`, `HaltedComputeStops`, `RequestedDeletionCompletes`, `LedgerNamesTheReason` |
| `Outbox` | 2 replicas, 2 loops, 2 events, batches of 2, 2 attempts, 1 failure, fair | 0.3 M | `UnstoppedLoopsLead`, `DeliversAtLeastOnce` (refinement), `DeliverySettles`, `LeadershipRecovers` |
| `StatusInbox` | 2 pods, which read every event twice, a poison message, 2 services, 2 stages, 2 attempts, 1 failure, a cancellation and a deletion, fair | 0.4 M | `AppliedOnce`, `NothingSkipped`, `StatusInOrder`, `StatusSettles` |
| `Uploads` | 2 sessions of one name, 2 deletions, quota 1 or 2, 2 failures, fair | 0.2 M | `QuotaRespected`, `LedgerBalanced`, `CatalogWhole`, `NothingLeaks`, `UploadsSettle` |
| `FanOut` | 2 control workers, at most 2 shards of 2 tiles, 2 units, 3 attempts, 2 of five accidents | 3.9 M | `PodsWithinEnvelope`, `WholeRaster`, `FailureHasCause`, `CleanupCoversBothPhases`, `ReceiptsKept` |
| `FanOutConvergence` | the same with any 1 of ten accidents, fair | 0.2 M | `FanOutSettles` |
| `Workspaces` | 4 runs (source, dependent, retry that takes over, overlay), 2 Pods at a time, 3 started, 2 paths, 2 contents | 1.2 M | `ArtifactsRestorable`, `ExactInputs`, `WorkKeptUntilPublished` |
| `Viewer` | a tree of 7 nodes, 10 cuts, budget 5, groups of 3, 2 interactions, 2 failures, fair | 0.15 M | `ArenaShowsTheCut`, `CoverageKept`, `ViewerSettles` |
| `Ranges` | 3 ranges (one compressed), 2 visible consumers and 1 of the halo, 2 bytes of memory, 1 slot each, 1 retry, fair | 0.14 M | `ResourcesConserved`, `VisibleAnswered` |

Why the bounds are enough:

- `MaximumDispatchAttempts` is 2 where retries matter (a first dispatch, a last
  one, and the boundary between them), 3 in the fan-out because the shard phase
  consumes some before the finalizer, and 1 elsewhere. `MaxCrashes` is 1, enough to
  lose a worker between any two of its steps and start again beside what it left.
  A stale observation needs one worker that observes and one that acts. A Pod slot
  is free again once its Pod is removed, so one slot gives a run any number of
  executions in sequence and two slots give a pair at once.
- `StageJobsLineage` starts in the middle of a history (`MCStageLineage`): the earlier
  runs of both missions are over and cleaned up, and another mission has an
  artifact of every stage in question. "release": two attempts of one stage are
  queued, either may fail, be halted or publish first while its dependant is blocked.
  "retry": the stage has an artifact, another attempt of it may publish, and a retry of its
  dependant is created at any time, so it chooses among one or two artifacts beside that of
  the other mission. (A blocked run never has several to choose from: the first one
  releases it.) "reservation": a rasterization and a viewer of one mission, which are
  independent, and a run of the other mission wait for two workers and two places, so
  the global envelope leaves one out; in "release" and "retry" it is the dependency that
  does.
  The bounds of that run, its state constraint `Bounds`: in "release" and "reservation" two workers reserve and
  dispatch beside each other and nobody reconciles, in "retry" one worker is busy
  at a time with both; the other mission is not halted; in "release" no further
  retry is created. Two workers that reconcile beside each other are the matter of
  `StageJobsRaces`; a reconciliation can only take a run out of the reserved ones, as
  the records of Pods and workers do here.
- `DeletionSafety` has one control worker. With two, `OneExecution` still holds
  without background deletions; with them it does not (known deviations).
- Two replicas and two loop threads give a stray loop of an ended term beside a
  current one, in one process or in two; a batch of two events leaves one
  unpublished when the lease of both runs out.
- Two upload sessions are the smallest contention for a quota and a name, and two
  deletions may name one dataset twice. Failures are spent in any step.
- `SmallRasters` holds a raster of two shards, the second one short and with the
  tile that moved to the edge, and every small raster whose plan is refused.
  Two accidents in one history are what a stale observation of the failed phase
  needs.
- `Workspaces` with `MaxStarts` 4 and no hand publication (4.4 M states), and with
  hand publication of every run (6.5 M), was checked apart and passes.
- The tree of `Viewer` is binary with four leaves of unequal size; ten cuts cover refinement, coarsening, both at once and a branch that
  leaves the view, under a budget that forces several groups and an arena so full
  that free space is split.
- One slot of each pool makes every second request queue. `Ranges` with two halo
  consumers (0.5 M states) was checked apart and passes.

Each module states a type invariant. Those of `StageJobs`, `MissionDeletion`,
`OutboxDelivery`, `StatusInbox`, `DatasetUploads`, `DetectionFanOut` and
`ArtifactWorkspaces` are proved with the theorems below; the others (`LodTypeOK`, ...) were checked
while the modules were written and are part of no run, which keep to what can go
wrong in the code. The unique indexes of the upload tables are `OneName`, proved in
`DatasetUploadsProofs`.

Symmetry is used in the runs without liveness properties only: control workers,
Pods, retention workers and contents are interchangeable there.

Deadlock is checked in the runs of `StageJobs` and `MissionDeletion`, where some
loop or lease can always step. The other systems do stop: every event settled,
every session ended, the viewer at rest or disposed.

### Fairness

- The control and retention loops poll for ever (`run_stage_orchestrator`,
  `run_retention_cleanup`) and catch every exception, so steps in progress are
  weakly fair. Reservation and claims are strongly fair: a loop that is idle again
  and again scans all due rows, oldest heartbeat first. `SF` on an observation
  says that a request that is tried again and again succeeds at last. Crashes are
  finite (`MaxCrashes`).
- `LeaseExpires` is fair: clocks advance. Executors are fair except in their
  heartbeat, whose thread nothing depends on; a handler ends because the Job has
  a deadline.
- The cluster starts a Pod when there is room and finishes deletions it
  accepted. It never has to delete a Job by itself, nor to kill a Pod that nobody
  doomed. In the fan-out it starts one Pod of each Job, not each Pod.
- Leadership: the health check and the release run for ever; a free lock is taken
  by some follower, not by each. A stray loop ends its batch. The outbox orders its
  claim by due time, so a due event is strongly fair.
- A consumer thread, a request's own continuation, and the upload reconciler (which
  visits every session that is due) are weakly fair. Clients never are.
- Viewer: a tile load ends, a timer fires, a continuation runs; no camera and no
  consumer owes a step. In `RangeScheduler` all continuations of a request are one
  fair action: it may be granted or served by any of them.

## 4. Proofs

Checked by TLAPS for every value of the constants. The last column is what a theorem
assumes of the constants beyond the assumptions of its module.

| Theorem | Statement | Hypothesis |
|---|---|---|
| `TypeCorrect` | `Spec => []TypeOK` (`StageJobs`) | |
| `EvidenceCorrect` | `Spec => []EvidenceInv /\ []CleanupEvidenceSound` | |
| `TerminalCorrect` | `Spec => TerminalNeverRevives` | |
| `ConcurrencyCorrect` | `Spec => []ConcurrencyRespected` | |
| `LineageCorrect` | `Spec => []ExactLineage` | |
| `EvidenceBesideDeletion` | `DeletionSpec => []DeletionTypeOK /\ []CleanupEvidenceSound` | |
| `DeletionWaits` | `DeletionSpec => []DeletionWaitsForCompute` | `FailuresRecordedTruly` |
| `DeletionInSight` | `DeletionSpec => []NoStrandedMission` | `~LateCancel` |
| `LedgerReason` | `DeletionSpec => []LedgerNamesTheReason` | `OneRetentionLoop` |
| `ExecutionCorrect` | `DeletionSpec => []OneExecution` | `OrphansSeen` |
| `SuccessCorrect` | `Spec => SuccessfulAttemptKept` | `OrphansSeen`, `FailuresRecordedTruly`, `PublicationsRecordedTruly` |
| `OverlapCorrect` | `OutboxSpec => []OutboxTypeOK /\ []UnstoppedLoopsLead` | |
| `DeliveryCorrect` | `OutboxSpec => DeliversAtLeastOnce`, the refinement of `AtLeastOnce` | |
| `AppliedOnceCorrect` | `Spec => []AppliedOnce` (`StatusInbox`) | |
| `NothingSkippedCorrect` | `Spec => []NothingSkipped` | |
| `StatusInOrderCorrect` | `Spec => []StatusInOrder` | |
| `UploadsCorrect` | `Spec => [](UploadTypeOK /\ LifeInv)` (`DatasetUploads`) | |
| `QuotaCorrect` | `Spec => []QuotaRespected` | |
| `LedgerCorrect` | `Spec => []LedgerBalanced` | |
| `CatalogCorrect` | `Spec => []CatalogWhole` | |
| `NoLeaks` | `Spec => []NothingLeaks` | |
| `TilesCover` | every pixel of an axis lies in a tile, and no tile leaves the axis | |
| `ShardsPartition` | every tile of a plan belongs to exactly one shard | |
| `RasterCovered` | the tiles of a plan take exactly the pixels of the raster | |
| `FanOutTypeCorrect` | `Spec => []FanOutTypeOK` (`DetectionFanOut`) | |
| `ReceiptsCorrect` | `Spec => ReceiptsKept` | |
| `CleanupCorrect` | `Spec => []CleanupCoversBothPhases` | |
| `WholeRasterCorrect` | `Spec => []WholeRaster` | |
| `EnvelopeCorrect` | `Spec => []PodsWithinEnvelope` | |
| `FailureCorrect` | `Spec => []FailureHasCause` | `MaximumDispatchAttempts >= 2` |
| `WorkspacesTyped` | `Spec => []WorkspaceTypeOK` (`ArtifactWorkspaces`) | |
| `RestorableCorrect` | `Spec => []ArtifactsRestorable` | |
| `InputsCorrect` | `Spec => []ExactInputs` | |
| `WorkKeptCorrect` | `Spec => []WorkKeptUntilPublished` | |
| `RangesTyped` | `Spec => []RangeTypeOK` (`RangeScheduler`) | |
| `ResourcesCorrect` | `Spec => []ResourcesConserved` | |
| `ArenaCorrect` | `Spec => []ArenaShowsTheCut` (`LodViewer`) | |
| `CoverageCorrect` | `Spec => CoverageKept` | |

Every theorem about a specification also rests on the `ASSUME` of its module, which TLC
evaluates on every run: the shapes of the constants and

- `StageJobs`: finitely many runs, and a launch that contains the stages its stages
  depend on, which `validate_stage_selection` guarantees (the launch route has no field
  to name artifacts of earlier missions);
- `DatasetUploads`: finitely many sessions, which the sum of the reservations needs;
- `StatusInbox`: at least one service; `DetectionFanOut`: at least one control worker;
- planning: what `build_tile_starts` and `build_detection_shard_plan` accept;
- `ArtifactWorkspaces`: an overlay, which only detection publishes, has an upstream
  that is not itself an overlay, and neither takes over a directory nor has its own
  taken over; and `None` is not one of the values it stands beside;
- `LodViewer`: a tree whose nodes all hang from the root, none of them empty, a root
  that fits in the budgets (the code refuses any other), and cameras that select an antichain.

The other hypotheses name events after which the promise does not hold; section 5
describes each of them with the setting in which TLC shows it.

- `FailuresRecordedTruly`: no reply to the creation of a Job is lost, and several control
  workers overlap only where no request fails. Then a run whose dispatch is recorded
  as failed has no Job.
- `OrphansSeen`: either no Job is deleted in the background, or there is one control
  worker and no create reply is lost.
- `PublicationsRecordedTruly`: nobody publishes by hand, and a publication that
  reports an error was not committed.
- `~LateCancel`: no cancel is accepted while a deletion is under way.
- `OneRetentionLoop`: retention loops do not overlap. Only the leader runs one, but
  the bounded join of an ended term can leave a second one for a while.
- `MaximumDispatchAttempts >= 2`: with a single attempt, a control worker that dies
  between the reservation and the request uses it up, and the run fails though
  nothing in it did. The code's default is three.

### The stage machinery

*Evidence.* That no Pod writes for a run whose cleanup is confirmed is not
inductive: the evidence is written from a control worker's memory, after the
observation it rests on. `MemorySound` says what such a memory guarantees: a
snapshot taken for cleanup is of a run that is *retired* (terminal, or in a
mission that is no longer live), retirement is permanent, a retired run's context
cannot be loaded, so the absence of Pods that was observed is still true, as far
as it matters, when it is applied. `CleanupEvidenceSound` and `MemorySound`
together are inductive. The theorem covers all faults, a lost create too.

*Revival.* Every step that makes a run active starts from "absent", "blocked",
"queued" or "running", except the two that write what a worker remembers
(`ReconcileApply`) or what a request validated (`AdminPublish`, which writes a
terminal status). For the first, `MemorySound` says that a memory that is not for
cleanup was of an active run, and `SnapshotHolds` that the row still has the
status remembered.

*Concurrency.* `LockInv` says that a worker in "reserving" holds the advisory
lock, so there is at most one, and that the set it read contains every run that
is reserved now: others may leave the reserved set in the meantime, only the
holder adds to it. What `Admissible` guarantees of the set read then holds of
the smaller set present at the commit. `FiniteSetTheorems` gives the monotonicity
of `Cardinality`.

*Lineage.* A run is bound to artifacts in the transaction that queues it, and only
then. `LineageInv` says that whoever may still write a status of a run holds it from a
time when it was no longer blocked (a Pod that loaded it, a control worker with it in
hand, a request that validated it): so no late record takes a blocked run past the
binding. That a stage has at most one newest artifact, which the binding takes, is a
lemma about sequences, kept by `Append`.

*Deletion.* `EvidenceInv` holds of the composition too: a retention worker touches the
rows of the stage machinery only by removing those of a drained mission. To wait for
compute, a deletion must not take a run for undispatched that has a Job.
`DispatchInv` says that a run that is not marked dispatched has no compute, and that the
workers that have one in hand hold it marked (`Handling`); the claim then finds a
mission quiescent only when nobody writes for it, and it stays so, for a claimed
mission is not live (`ClaimInv`). `SightInv` says that a claimed mission is one that the
next claim finds, or it is gone. `ReasonInv` follows the reason of a deletion through
the step of the mission and the memory of the one worker, until somebody crashes.

*Execution.* `ExecutionInv` says that a run has one Pod at most, and that a Job whose Pod
has yet to start has none (`OnePod`). Without background deletions a Pod has its Job (`PodsOwned`), so the name of
the Job excludes a second one. With them, the worker that is about to create a Job has
seen no compute of that name, and nobody else has created any since (`NothingBefore`).

*Success.* A failure is recorded by a Pod, by the reconciliation of an active
snapshot, or by the worker whose request failed. `SuccessInv` says that a run that
succeeded has none of the first and no such worker: its one Pod has published, and a
dispatch recorded as failed never had a Pod.

### Delivery

*Outbox.* A loop records a success for an event only after the topic had it,
so the refinement needs an invariant over the loops' memories: an outcome that
counts as a success is of an event in the topic, a settled row stays settled
because every transition out of "publishing" checks the lease owner or the status,
and a batch holds requested events only. Each step of `OutboxDelivery` is then a
step of `AtLeastOnce` for one event, or a stutter; claims, leases, elections and
crashes stutter.

*Inbox.* `InboxInv` places each busy consumer at a message. `Accounted` says that what a
consumer has behind it was handled, skipped or given up, which is what a commit
publishes; `Exclusive` that at most one transaction has inserted the receipt of an
event, which is then not applied yet: `AppliedOnce` follows, and is inductive with it.
Order needs more, and needs it only while no event that could be handled was passed
over: what the transaction under way has read is current (`Fresh`), the states in the
row are the last applied (`Current`), and an event is applied after those before it
(`Ordered`), because the consumer that polls it has them behind it.

### Uploads

`LifeInv` ties the stages of a session, its files, its dataset and its ledger entries
together, with the two unique indexes. The quota follows, since a reservation is
checked under the lock of the policy and nothing else adds to the usage; so does the
ledger, whose entries are then in bijection with sessions (three sets of them, whose
cardinalities add up). The catalogue needs `WholeInv`: while no session was created
beside another command on its name, a session that is active or has a ready dataset has the name to
itself (`Alone`), so the objects of its completed files are its own (`Sound`).
`LeakInv` says from which session each object and each multipart upload comes, and in
which states of its file it may be there.

### Fan-out

*Planning.* `TilesCover` splits on how the last tile reached the edge: exactly,
moved there (then the overlap it gives up leaves no gap), or added. Division is
reduced to its defining inequality. `ShardsPartition` is the same inequality for
shards, and `RasterCovered` the product of the two axes.

*Form.* `FormInv` adds to the types that the Job of a run has the name of its phase
(`NameInv`) and what a worker may remember of it (`MemoryInv`). Receipts are kept because
every writer compares first. What is recorded, aggregated and published belongs to the
plan (`PartsInv`), and what is aggregated is all of it: `WholeRasterCorrect` then is
about the plan, and cites the planning theorems.

*Cleanup.* The worker looks at one Job name after the other. `EvidenceInv` says that a
cleanup is of a run that is over, where nobody begins to write, and that Pods still writing
have a name it has not looked at yet, or has found unclean.

*Envelope.* Reservations are counted in the database, Pods are started by the
cluster from the Job it has, and the number of units may differ: a run takes what is
left, gives it back, and takes one unit for its finalizer. `EnvelopeInv` says that, as
long as neither a create reply is lost nor a takeover meets a failed request, everybody
means the same parallelism for a Job (`UnitsAgree`: the row, the cluster and
every worker that may create it), and nothing is left of a reservation that was given back
(`NothingLeft`), since then there was only one worker to create it (`Alone`).

*Causes.* A run fails when its attempts run out, so the proof bounds what the
accidents of control workers can use up, in each phase. `CauseInv` says, of an
installation where only workers crashed, were replaced or overran their lease: a Job
is created once, is not deleted and does not fail (`JobsSound`); its Pods belong to the
phase the row names and work on what is not done (`PodsSound`, `DoneSound`); the row
and the Jobs agree on the phase (`PhaseSound`); and a phase has used one attempt, or
two and has its Job (`AttemptsSound`), the second being that of a reserver that died
before the request. The memory of the holder of the reconcile token is true
(`MayApply`), and nobody else applies anything. That the creation of a Job meets no
conflict comes from `EnvelopeInv`. Behind a success nothing is left that could fail
(`Uneventful`).

### Workspaces

`PodInv` says which directory a Pod works in, under which lock, and that a Pod which
still works on a run is the only one, so nobody else changes that directory. `CacheInv` says that what the
verification cache vouches for is what is there, although a Pod may die between any two
writes: this makes the inputs exact. `OutputInv` follows a publication: what was sent so
far is in the store, under the name of its content, then the manifest names just
that, and the row takes the manifest. A row written without a Pod beside is
`Final`: manifest and content stay as they are. The blobs stay because
a collection runs only while no Pod or run is active, and wants no blob that a
manifest object names (`CollectInv`, `ManifestInv`).

### Viewer

*Pools.* The places of the requests say who holds a slot and who queues (`PoolsSound`), so
each step is looked at twice: what it does to the sets of requests at a place, and what the
pool operation does to the counter and the queue. An enqueue or a promotion in place
keeps demand in front (`InOrder`), which is a fact about inserting at the first prediction.
*Memory.* A range in flight is not in memory (`MemorySound`), so what is admitted is new
there, and what moves between the two segments is in one of them at a time: the bytes
of a step then add up, and the oldest entries that must go for the rest to fit
always exist, for nothing is larger than what it has to fit in. `Attended` says that what is
awaited is in flight with no grace period running, so an expiry abandons nobody.

*Level of detail.* `LodInv` says of the arena what `ArenaShowsTheCut` does (`Placed`,
`Drawn`), of the cut chosen that it is one, and of the group under way (`Planned`) that its
slots are placed, that what it does not load keeps the slot it has, and that it shows what
the arena and the cut chosen both show. Three lemmas carry the steps. `NextCutFits`: a
transition ends with a cut within the limit that covers what was shown and is wanted;
every single merge and split preserves that (`CoarsenFits`, `RefineFits`), and since a split takes
the nodes of the merged cut one by one, those still ahead must have stayed. `PlanIs`: the
free places suffice for what is added, and nothing is placed twice. `WrittenIs`: the copy
puts each record in its place and touches no slot that stays. The tree is only known by
its parents: that it has no cycle, and that of two nodes on a way to the root one is above
the other, follows from the set above a node being the least that is closed under the
parent. The folds and the sums are reasoned about without induction over data: the
function a fold is chosen as is shown to exist (`FoldExists`) by the least number for
which it would not, and the size of a cut is the cardinality of the set of its records.

### Only model-checked

- Liveness and `ENABLED`, beyond the prover: `RunsSettle`, `HaltedComputeStops`,
  `RequestedDeletionCompletes`, `DeliverySettles`, `LeadershipRecovers`, `StatusSettles`,
  `UploadsSettle`, `FanOutSettles`, `ViewerSettles`, `VisibleAnswered`.
- What `StageScheduler` selects: a recursive computation over data, compared with its
  promise for all small queues.

## 5. Known deviations

Where the code, so modelled, does less than a document or a comment of the
repository says, or than one would expect. In each the passing runs leave out the
event that triggers it or the property excuses it, which says exactly how far the
promise holds; the setting named reproduces it with TLC.

Stage machinery and deletion:

- *A retained mission may stay for ever.* `docs/OPERATIONS.md:373-375` says an expired
  terminal mission is claimed and removed. Cancelling a mission leaves its stage runs
  as they are, and one that was queued and never dispatched is neither a scheduling
  candidate nor has it a Job to reconcile: it stays queued, and the check of
  `retention.py:74` fails for ever. Check `RetentionCompletes` with
  `Expiring = {m1}` in `Convergence`.
- *A success overwritten as a failure.* The commit of a publication is reported as an
  error and the executor marks its succeeded run failed
  (`stage_execution.py:570`). Add "lost_commit" to `StageJobsLineage`:
  `SuccessfulAttemptKept`.
- *A hand publication after a halt* releases the dependants of a cancelled mission, since
  it reads no mission status (`AdminPublish`; no property states it), and
  two of them, or one beside a Pod, publish a run twice (`mission_stages.py:420` reads
  without a lock). A Pod that fails beside one overwrites the success: set
  `AdminRuns = {r4}` in `StageJobsLineage`: `SuccessfulAttemptKept`.
- *A lost create reply.* The row goes back to the queue without its executor while
  the Job exists: a deletion does not wait for it (`DeletionWaitsForCompute` in
  `DeletionSafety` with "lost_create"), a run that was loaded before its executor
  was cleared is selected by neither the scheduler nor the reconciler
  (`RunsSettle`), and with a background deletion two Pods execute it
  (`OneExecution`).
- *The same without a lost reply*, where two control workers overlap: one reserves a run,
  the other reconciles it and creates its Job, and then the request of the first
  fails. Recording that clears `executor` under a working Pod
  (`_record_dispatch_error` looks at nothing but the number of attempts), and a deletion
  does not wait for it; with its attempts exhausted, the run is recorded as failed
  whatever the Pod has done. Set `Controllers = {c1, c2}` in `DeletionSafety` with
  "request_error": `DeletionWaitsForCompute`. It is why two theorems assume
  `FailuresRecordedTruly`.
- *The reason in the ledger.* A second retention loop that claims a mission between
  the drain and the completion of the first takes its step (`DELETION_DRAINED`) for a
  retention's. `LedgerNamesTheReason` needs one retention loop at a time (`Convergence`
  has one).
- *Two workers that overlap for longer than a lease* may both find the Job and its Pods
  absent before either creates it again, and a background deletion of the first new
  Job lets the second be created beside an orphaned Pod. It takes a lease of 300 s
  that runs out during requests of 5 s.
- *A cancel accepted during a deletion* (`cancellation.py:134`) takes the mission out of
  the retention loop's sight: `NoStrandedMission` with `LateCancel = TRUE`.
- *The ledger after a crash.* A requested deletion whose worker died after its claim is
  closed as a retention deletion: `LedgerNamesTheReason` without its last disjunct.

Detection fan-out:

- *A dispatch that is not recorded.* `docs/contracts/organization-saas-policy-v1.md:77-78`
  says every dispatch attempt writes a `stage_scheduled` event; the finalizer's
  attempts restart at zero (`stage_orchestrator.py:1133`) and its events collide with
  those of the shard phase. `EveryDispatchRecorded` states it.
- *The envelope.* `docs/contracts/versioned-stage-dag-v1.md:311-314` says tenants can
  never create more simultaneous Pods than the envelope. A failed shard Job frees its
  units while sibling Pods run on until the cleanup; a Job whose creation lost its
  reply, or that another worker had observed before its failure was recorded, keeps
  the parallelism of a reservation given back since. `PodsWithinEnvelope` covers a run
  while it is reserved.

Delivery and uploads:

- *A skipped status message.* `kafka_reliability.py:251-253` and `DOCUMENTATION.md:337-338`
  promise that an offset stays uncommitted when the dead-letter topic refuses a
  message. The exception leaves `process_message`, the loop goes on behind it
  (`realtime.py:378`), and the next commit covers it. `NothingSkipped` excuses
  `refused`.
- *A late status event and a deletion.* `apply_mission_state` writes the step, and when
  the event says so the status, of a mission whose deletion was requested
  (`mission_state.py:126-137`): the retention loop no longer finds it by either. An
  event that looked the mission up before it was deleted creates it again
  (`database.py:377-399`). `DeletionStands` states the opposite; check it in
  `StatusInbox`.
- *A status event and a stage run.* `project_status_to_stage_run`
  (`phase_dag.py:228-247`) gives a run the status of the event whatever status the
  run has, and takes the runs before it to have succeeded. `TerminalNeverRevives`,
  the theorem too, is about the stage machinery without such events.
- *A refused image stays.* `docs/DATASET_UPLOAD_HEADERS.md:11-12` leaves its removal to
  the cleanup, which only looks at multipart uploads and completed files.
  `NothingLeaks` excuses it.
- *A completion intent without an upload*, which the provider dropped, is left to an
  operator (`docs/OPERATIONS.md:395`). `UploadsSettle` excuses it. A session created
  beside an unfinished deletion of the same name may lose its files; `CatalogWhole`
  excuses it.

Workspaces:

- *A publication by hand beside a working Pod*: the Pod overwrites the manifest object
  the artifact row names, whose key is that of the run; a detection laid over that
  artifact is affected with it. `ArtifactsRestorable` excuses these runs (`beside`) and
  what is laid over them; without the second excuse `Workspaces` with `MaxStarts = 4`
  shows it.
- *Work lost before the commit.* `docs/contracts/versioned-stage-dag-v1.md:203-204` says
  failed executions retain their workspace; it is removed after the upload and before
  the artifact row is committed. `WorkKeptUntilPublished` promises it until the
  manifest is uploaded.
- *GCP bundles* are referred to by the parameters of a run, which the collection does
  not read (`collect_cas.py:43-52`). Run parameters are left out of the model.

Viewer:

- *A forgotten interaction.* `playcanvas-backend.ts:1926` says that a group is
  committed and then the latest camera is selected again; the commit assigns
  `#lodReschedule` (2350) over one noted meanwhile (1899), so the loop may rest on the
  cut of an earlier camera until the next interaction. `LatestCameraSelected` states it.
- *A join too late.* A consumer that joins a request already aborted, which is still in
  a disk read or a decode, is answered with the abort ("Superseded GSTile range"), and
  the loop does not take that up again. `VisibleAnswered` counts it as an answer.
- *A corrupt disk entry* is put in the memory cache before its digest is verified, and
  `evictPersistent` removes only the disk copy: the tile fails until it leaves memory.

## 6. Not modelled

- Parts of modelled components: several rows per reconciliation batch, the repair of
  resource classes, the limits of an organization's plan, progress reports, analyses
  in the deletion, the replacement of an unassigned consumer, the pruning of old rows,
  part URLs and listings, facade missions and older attempts named by a status event,
  stage output reservations and request quotas, copies between prefixes, the choice of
  a cut from a camera, the planning of the prefetch, the decode pool, the disk cache's
  own bookkeeping.
- Components: analyses and rate limiting (planned); identity, tenancy and audit
  (decisions of single requests); the GCP workspace (single transactions with a
  revision check, and numeric code); deployment.
- The largest share of the repository's lines is numeric: reconstruction,
  orthophoto and Gaussian generation, tiling, the native viewer, parameter
  catalogues, the user interface. For the protocols above, such a program is a
  handler that returns or raises; what it computes over reals and images is out
  of a model checker's reach.

## 7. Plan

Modules still to come, in this order:

1. `StageRun`: the abstract life of one run (blocked, queued, running, one terminal
   status), with `StageJobs` and `DetectionFanOut` shown to implement it.
2. The candidates of consecutive scheduling cycles (`scheduler_checked_at`), with
   `StageScheduler` as their step: no owner is starved from cycle to cycle.
3. The viewer's decode pool, prefetch planning and disk cache, composed with
   `RangeScheduler`.
4. Analyses, with their part in a deletion; the token buckets of rate limiting.
