---------------------------- MODULE DetectionFanOut ----------------------------
(***************************************************************************)
(* The two phases of one fanned-out detection run: an Indexed Job whose    *)
(* Pods each infer one shard and record one durable receipt, then, under a *)
(* second Job name, a finalizer that aggregates the receipts and publishes.*)
(* Control workers reserve, dispatch and reconcile both Jobs of the same   *)
(* stage-run row; their loops may overlap. One action is one transaction   *)
(* or one Kubernetes request. The other runs of the installation appear as *)
(* the resource units they hold.                                           *)
(***************************************************************************)
EXTENDS Integers, Sequences, FiniteSets, DetectionSharding

CONSTANTS
    Controllers,
    Rasters,        \* [width, height, tile, overlap] of the upstream product
    TilesPerShard,
    MaximumShards,
    Parallelism,    \* detection_shard_parallelism
    GlobalActive,   \* resource units of the installation
    MaximumDispatchAttempts,
    Results,        \* contents inference may produce for a shard
    Varying,        \* those that differ from a first inference
    Faults, MaxFaults,   \* which accidents may happen, and how many of them
    NoController, NoResult

Shards == 0..MaximumShards - 1

FaultKinds ==
    {"crash",          \* a control worker dies
     "takeover",       \* another one is elected while its tick is under way
     "overrun",        \* a reconciliation takes longer than its lease
     "request_error",  \* a Kubernetes request fails without effect
     "lost_create",    \* a Job is created although its caller sees an error
     "pod_killed",     \* out of memory, node loss
     "pod_error",      \* the handler raises
     "varying",        \* inference repeated on a shard gives another content
     "ttl",            \* ttlSecondsAfterFinished
     "background"}     \* somebody deletes a Job, orphaning its Pods

ASSUME FanOutAssumption ==
    /\ Controllers # {} /\ NoController \notin Controllers /\ NoResult \notin Results
    /\ Varying \subseteq Results /\ Results \ Varying # {}
    /\ Faults \subseteq FaultKinds /\ MaxFaults \in Nat
    /\ {TilesPerShard, MaximumShards, Parallelism, GlobalActive,
        MaximumDispatchAttempts} \subseteq Nat \ {0}
    \* A plan of one shard is an ordinary stage run (module StageJobs).
    /\ \A raster \in Rasters :
           /\ TilingAccepted(raster.width, raster.tile, raster.overlap)
           /\ TilingAccepted(raster.height, raster.tile, raster.overlap)
           /\ ShardCount(raster, TilesPerShard) > 1

VARIABLES
    raster,     \* fixed when the upstream product was published
    halted,     \* the mission is cancelled
    run,        \* the stage-run row
    receipts,   \* detection_shard_receipts of the run's plan
    artifact,   \* what the finalizer published: the receipts it aggregated
    ledger,     \* keys of the run's stage_scheduled usage events
    others,     \* resource units held by other runs
    leader,     \* the elected control worker
    working,    \* those whose tick may go on: the leader and one it replaced
    ctl,        \* what each control worker holds in memory
    kjob,       \* the Jobs of the two names
    pods,
    reservations, accidents   \* history: reservations made, faults so far

database == <<raster, halted, run, receipts, artifact, ledger, others>>
cluster  == <<kjob, pods>>
control  == <<leader, working, ctl>>
history  == <<reservations, accidents>>
vars == <<database, control, cluster, history>>

ActiveStatuses   == {"queued", "running"}
TerminalStatuses == {"succeeded", "failed", "cancelled"}

Kinds == {"shards", "finalizer"}   \* a Job name of the run, and its phase

RunRow ==
    [status    : ActiveStatuses \cup TerminalStatuses,
     phase     : Kinds \cup {"unplanned"},
     dispatched: BOOLEAN,                      \* executor is set
     jobName   : Kinds \cup {"none"},
     shardJob  : BOOLEAN,                      \* detection_shard_job_name
     units     : 0..Parallelism,               \* effective parallelism
     attempts  : Nat,                          \* dispatch_attempts
     token     : Controllers \cup {NoController},
     leaseLive : BOOLEAN,
     cleaned   : BOOLEAN]

ControllerPhases == {"idle", "dispatching", "recording", "observing",
                     "creating", "applying"}
Observations == {"none", "missing", "missing_error", "error", "clean", "unclean",
                 "active", "complete", "failed", "other"}

ControllerState ==
    [phase : ControllerPhases, kind : Kinds \cup {"none"}, units : 0..Parallelism,
     status : ActiveStatuses \cup TerminalStatuses, halted : BOOLEAN,
     attempts : Nat, cleanup : BOOLEAN, names : SUBSET Kinds, seen : Observations]

Idle == [phase |-> "idle", kind |-> "none", units |-> 0, status |-> "queued",
         halted |-> FALSE, attempts |-> 0, cleanup |-> FALSE, names |-> {},
         seen |-> "none"]

JobStates == {"absent", "active", "complete", "failed"}
NoJob == [state |-> "absent", units |-> 0, incarnation |-> 0, done |-> {},
          deleting |-> FALSE]

PodPhases == {"starting", "executing", "aggregated", "recorded", "failing"}
PodState ==
    [kind : Kinds, index : Shards, incarnation : Nat, phase : PodPhases,
     content : [Shards -> Results \cup {NoResult}]]

NoReceipts == [shard \in Shards |-> NoResult]
Planned    == ShardCount(raster, TilesPerShard)
PlanShards == 0..Planned - 1

Init ==
    /\ raster \in Rasters
    /\ halted = FALSE
    /\ run = [status |-> "queued", phase |-> "unplanned", dispatched |-> FALSE,
              jobName |-> "none", shardJob |-> FALSE, units |-> 0, attempts |-> 0,
              token |-> NoController, leaseLive |-> FALSE, cleaned |-> FALSE]
    /\ receipts = NoReceipts
    /\ artifact = NoReceipts
    /\ ledger = {}
    /\ others = 0
    /\ leader = (CHOOSE c \in Controllers : TRUE) /\ working = {leader}
    /\ ctl = [c \in Controllers |-> Idle]
    /\ kjob = [k \in Kinds |-> NoJob]
    /\ pods = {}
    /\ reservations = 0
    /\ accidents = {}

Accident(kind) ==
    /\ kind \in Faults \ accidents
    /\ Cardinality(accidents) < MaxFaults
    /\ accidents' = accidents \cup {kind}
    /\ UNCHANGED reservations

-----------------------------------------------------------------------------
(* The rest of the installation. *)

AtMost(a, b) == IF a < b THEN a ELSE b

\* _active_resource_units: a finalizer is one unit of CPU, a shard Job as many
\* units as Pods it may run at once.
OneUnitEach ==
    IF run.dispatched /\ run.status \in ActiveStatuses THEN 1 ELSE 0
UnitsHeld ==
    IF ~run.dispatched \/ run.status \notin ActiveStatuses THEN 0
    ELSE IF run.phase = "shards" THEN run.units ELSE 1

ReserveOther ==
    /\ others + UnitsHeld < GlobalActive
    /\ others' = others + 1
    /\ UNCHANGED <<raster, halted, run, receipts, artifact, ledger, control, cluster, history>>

ReleaseOther ==
    /\ others > 0
    /\ others' = others - 1
    /\ UNCHANGED <<raster, halted, run, receipts, artifact, ledger, control, cluster, history>>

CancelMission ==
    /\ ~halted
    /\ halted' = TRUE
    /\ UNCHANGED <<raster, run, receipts, artifact, ledger, others, control, cluster, history>>

-----------------------------------------------------------------------------
(* Control worker: reserve and dispatch. *)

Refused == Planned > MaximumShards
KindOfPhase == run.phase
NextKind == IF run.phase = "finalizer" THEN "finalizer" ELSE "shards"

RequestedUnits == IF NextKind = "finalizer" THEN 1 ELSE AtMost(Parallelism, Planned)

\* reserve_ready_jobs for this run: plan it once, grant what is left of the
\* units it asks for, account for the attempt.
Reserve(c) ==
    LET granted == AtMost(RequestedUnits, GlobalActive - others) IN
    /\ c \in working /\ ctl[c].phase = "idle"
    /\ run.status = "queued" /\ ~run.dispatched /\ ~halted
    /\ run.attempts < MaximumDispatchAttempts
    /\ IF Refused
       THEN /\ run' = [run EXCEPT !.status = "failed"]
            /\ UNCHANGED <<ledger, ctl, reservations>>
       ELSE /\ granted > 0
            /\ run' = [run EXCEPT !.phase = NextKind, !.dispatched = TRUE,
                                  !.jobName = NextKind, !.units = granted,
                                  !.attempts = @ + 1]
            /\ ledger' = ledger \cup {run.attempts + 1}
            /\ reservations' = reservations + 1
            /\ ctl' = [ctl EXCEPT ![c] = [Idle EXCEPT !.phase = "dispatching",
                                                      !.kind = NextKind, !.units = granted]]
    /\ UNCHANGED <<raster, halted, receipts, artifact, others, leader, working, cluster, accidents>>

\* POST of a Job, whose manifest holds the granted parallelism: 201, or a 409
\* whose Job is the expected one.
Created(kind, units) ==
    IF kjob[kind].state = "absent"
    THEN [kjob EXCEPT ![kind] = [NoJob EXCEPT !.state = "active", !.units = units,
                                              !.incarnation = kjob[kind].incarnation + 1]]
    ELSE kjob
Conflicting(kind, units) ==
    kjob[kind].state # "absent" /\ kjob[kind].units # units

Dispatch(c) ==
    /\ ctl[c].phase = "dispatching"
    /\ kjob' = Created(ctl[c].kind, ctl[c].units)
    /\ ctl' = [ctl EXCEPT ![c] = IF Conflicting(ctl[c].kind, ctl[c].units)
                                 THEN [@ EXCEPT !.phase = "recording"] ELSE Idle]
    /\ UNCHANGED <<database, leader, working, pods, history>>

DispatchFails(c) ==
    /\ ctl[c].phase = "dispatching"
    /\ \/ Accident("request_error") /\ UNCHANGED kjob
       \/ Accident("lost_create") /\ kjob' = Created(ctl[c].kind, ctl[c].units)
    /\ ctl' = [ctl EXCEPT ![c].phase = "recording"]
    /\ UNCHANGED <<database, leader, working, pods>>

RecordDispatchError(c) ==
    /\ ctl[c].phase = "recording"
    /\ run' = IF run.attempts >= MaximumDispatchAttempts
              THEN [run EXCEPT !.status = "failed"]
              ELSE [run EXCEPT !.dispatched = FALSE]
    /\ ctl' = [ctl EXCEPT ![c] = Idle]
    /\ UNCHANGED <<raster, halted, receipts, artifact, ledger, others, leader, working, cluster, history>>

-----------------------------------------------------------------------------
(* Control worker: reconcile. *)

\* _cleanup_job_names: a run of two phases has two Jobs to see gone.
CurrentJobName   == {run.jobName} \ {"none"}
CleanupJobNames  == CurrentJobName \cup (IF run.shardJob THEN {"shards"} ELSE {})

ReconcileClaim(c) ==
    LET cleanup == run.status \notin ActiveStatuses \/ halted IN
    /\ c = leader /\ ctl[c].phase = "idle"
    /\ run.dispatched /\ run.jobName # "none" /\ ~run.cleaned /\ ~run.leaseLive
    /\ run' = [run EXCEPT !.token = c, !.leaseLive = TRUE]
    /\ ctl' = [ctl EXCEPT ![c] =
                 [Idle EXCEPT !.phase = "observing", !.kind = run.jobName,
                              !.units = run.units, !.status = run.status,
                              !.halted = halted, !.attempts = run.attempts,
                              !.cleanup = cleanup,
                              !.names = IF cleanup THEN CleanupJobNames ELSE {}]]
    /\ UNCHANGED <<raster, halted, receipts, artifact, ledger, others, leader, working, cluster, history>>

PodsOf(kind) == {p \in pods : p.kind = kind}
Seen(c, observation) ==
    ctl' = [ctl EXCEPT ![c].phase = "applying", ![c].seen = observation]

\* _observe_cleanup, one name per request: a Job that is there is deleted in
\* the foreground; only absence of every Job and Pod is evidence.
ObserveCleanup(c) ==
    /\ ctl[c].phase = "observing" /\ ctl[c].cleanup
    /\ \E kind \in ctl[c].names :
        LET gone == kjob[kind].state = "absent" /\ PodsOf(kind) = {}
            seen == IF gone /\ ctl[c].seen # "unclean" THEN "clean" ELSE "unclean"
            left == ctl[c].names \ {kind}
        IN /\ ctl' = [ctl EXCEPT ![c].names = left, ![c].seen = seen,
                                 ![c].phase = IF left = {} THEN "applying" ELSE @]
           /\ kjob' = IF kjob[kind].state = "absent" THEN kjob
                      ELSE [kjob EXCEPT ![kind].deleting = TRUE]
    /\ UNCHANGED <<database, leader, working, pods, history>>

ObserveJob(c) ==
    LET kind == ctl[c].kind IN
    /\ ctl[c].phase = "observing" /\ ~ctl[c].cleanup
    /\ IF kjob[kind].state # "absent"
       THEN Seen(c, IF kjob[kind].state = "active" /\ PodsOf(kind) = {} THEN "other"
                    ELSE kjob[kind].state)
       ELSE IF PodsOf(kind) = {} /\ ctl[c].attempts < MaximumDispatchAttempts
       THEN ctl' = [ctl EXCEPT ![c].phase = "creating"]
       ELSE Seen(c, "missing_error")
    /\ UNCHANGED <<database, leader, working, cluster, history>>

ObserveFails(c) ==
    /\ ctl[c].phase = "observing"
    /\ Accident("request_error")
    /\ Seen(c, "error")
    /\ UNCHANGED <<database, leader, working, cluster>>

RecreateJob(c) ==
    /\ ctl[c].phase = "creating"
    /\ kjob' = Created(ctl[c].kind, ctl[c].units)
    /\ Seen(c, IF Conflicting(ctl[c].kind, ctl[c].units) THEN "missing_error" ELSE "missing")
    /\ UNCHANGED <<database, leader, working, pods, history>>

RecreateJobFails(c) ==
    /\ ctl[c].phase = "creating"
    /\ \/ Accident("request_error") /\ UNCHANGED kjob
       \/ Accident("lost_create") /\ kjob' = Created(ctl[c].kind, ctl[c].units)
    /\ Seen(c, "missing_error")
    /\ UNCHANGED <<database, leader, working, pods>>

ReceiptsComplete == \A shard \in PlanShards : receipts[shard] # NoResult

PhaseEndsReserved(row) ==
    [row EXCEPT !.phase = "finalizer", !.shardJob = TRUE, !.jobName = "none",
                !.attempts = 0, !.status = "queued"]

\* _apply_job_status for a complete Job: the end of the shards puts the run
\* back in the queue for its finalizer; a finalizer that leaves its run active
\* published nothing.
PhaseEnds(row) ==
    IF row.phase = "shards" /\ row.status = "running" /\ ReceiptsComplete
    THEN [row EXCEPT !.phase = "finalizer", !.shardJob = TRUE, !.dispatched = FALSE,
                     !.jobName = "none", !.attempts = 0, !.status = "queued"]
    ELSE [row EXCEPT !.status = "failed"]

AppliedTo(row, c) ==
    LET lost  == row.attempts + 1
        limit == MaximumDispatchAttempts
        active == row.status \in ActiveStatuses
    IN CASE ctl[c].seen \in {"missing", "missing_error"} ->
              [row EXCEPT !.attempts = lost,
                          !.status = IF \/ lost > limit
                                        \/ ctl[c].seen = "missing_error" /\ lost >= limit
                                     THEN "failed" ELSE @]
         [] ctl[c].seen \in {"clean", "unclean"} ->
              [row EXCEPT !.cleaned = @ \/ ctl[c].seen = "clean",
                          !.status = IF active \/ halted THEN "cancelled" ELSE @]
         [] ctl[c].seen = "failed"   -> [row EXCEPT !.status = "failed"]
         [] ctl[c].seen = "complete" -> PhaseEnds(row)
         [] ctl[c].seen = "active"   -> [row EXCEPT !.status = "running"]
         [] OTHER -> row

\* The observation is applied only by the holder of the token, to the status,
\* mission and Job name it was made for.
TokenHeld(c) == run.token = c
SnapshotIgnored(c) == TRUE
SnapshotHolds(c) ==
    /\ run.status = ctl[c].status /\ halted = ctl[c].halted
    /\ run.jobName = ctl[c].kind

ReconcileApply(c) ==
    LET released == [run EXCEPT !.token = NoController, !.leaseLive = FALSE] IN
    /\ ctl[c].phase = "applying"
    /\ run' = IF ~TokenHeld(c) THEN run
              ELSE IF SnapshotHolds(c) THEN AppliedTo(released, c) ELSE released
    /\ ctl' = [ctl EXCEPT ![c] = Idle]
    /\ UNCHANGED <<raster, halted, receipts, artifact, ledger, others, leader, working, cluster, history>>

Reconciling(c) == ctl[c].phase \in {"observing", "creating", "applying"}

\* Leadership moves while a tick is under way: the tick goes on to its end,
\* reservation and dispatch included, but begins no further reconciliation.
TakeOver(c) ==
    /\ c # leader /\ ctl[leader].phase # "idle"
    /\ Accident("takeover")
    /\ leader' = c
    /\ working' = working \cup {c}
    /\ UNCHANGED <<database, ctl, cluster>>

TickEnds(c) ==
    /\ c \in working \ {leader} /\ ctl[c].phase = "idle"
    /\ working' = working \ {c}
    /\ UNCHANGED <<database, leader, ctl, cluster, history>>

\* A lease outlives a dead worker, and expires under a live one only when its
\* requests take longer than the lease.
LeaseExpires ==
    /\ run.leaseLive
    /\ \/ /\ run.token \in Controllers => ~Reconciling(run.token)
          /\ UNCHANGED history
       \/ Accident("overrun")
    /\ run' = [run EXCEPT !.leaseLive = FALSE]
    /\ UNCHANGED <<raster, halted, receipts, artifact, ledger, others, control, cluster>>

ControllerCrash(c) ==
    /\ ctl[c].phase # "idle"
    /\ Accident("crash")
    /\ ctl' = [ctl EXCEPT ![c] = Idle]
    /\ UNCHANGED <<database, leader, working, cluster>>

-----------------------------------------------------------------------------
(* The Pods. *)

Becomes(p, phase) == pods' = (pods \ {p}) \cup {[p EXCEPT !.phase = phase]}

Owned(p) == kjob[p.kind].incarnation = p.incarnation /\ kjob[p.kind].state = "active"

\* The main process ends: an index of the Job is done, or, with backoffLimit 0,
\* the Job has failed.
PodExits(p, succeeded) ==
    LET job  == kjob[p.kind]
        done == job.done \cup {p.index}
        all  == IF p.kind = "shards" THEN PlanShards ELSE {0}
    IN /\ pods' = pods \ {p}
       /\ kjob' = IF ~Owned(p) THEN kjob
                  ELSE IF ~succeeded THEN [kjob EXCEPT ![p.kind].state = "failed"]
                  ELSE [kjob EXCEPT ![p.kind].done = done,
                                    ![p.kind].state = IF done = all THEN "complete" ELSE @]

PodUnchanged == UNCHANGED <<raster, halted, ledger, others, control, history>>

\* load_stage_execution_context: claim the run, or exit without touching it.
LoadContext(p) ==
    /\ p.phase = "starting"
    /\ IF run.dispatched /\ run.status \in ActiveStatuses /\ ~halted
       THEN /\ run' = [run EXCEPT !.status = "running"]
            /\ Becomes(p, "executing")
            /\ UNCHANGED kjob
       ELSE PodExits(p, FALSE) /\ UNCHANGED run
    /\ UNCHANGED <<receipts, artifact>> /\ PodUnchanged

StopRequested == halted \/ run.status = "cancelled"

\* A heartbeat, or the check around a publication, finds the run cancelled:
\* StageExecutionCancelled ends the Pod and marks the run.
StopsWhenCancelled(p) ==
    /\ \/ p.phase \in {"executing", "aggregated"}
       \/ p.phase = "recorded" /\ p.kind = "shards"
    /\ StopRequested
    /\ run' = [run EXCEPT !.status = "cancelled"]
    /\ PodExits(p, FALSE)
    /\ UNCHANGED <<receipts, artifact>> /\ PodUnchanged

\* The heartbeat thread of a finalizer that has published.
LateHeartbeat(p) ==
    /\ p.phase = "recorded" /\ p.kind = "finalizer"
    /\ StopRequested
    /\ run' = [run EXCEPT !.status = "cancelled"]
    /\ UNCHANGED <<receipts, artifact, cluster>> /\ PodUnchanged

\* record_detection_shard_receipt, under the lock of the run: the first receipt
\* of an index is kept, an identical one reused, a different one refused.
ReceiptReplaced(shard, content) == TRUE
ReceiptAccepted(shard, content) == receipts[shard] \in {NoResult, content}

Inferred(shard, content) ==
    IF receipts[shard] \notin {NoResult, content} THEN Accident("varying")
    ELSE UNCHANGED history

RecordReceipt(p) ==
    /\ p.phase = "executing" /\ p.kind = "shards"
    /\ \E content \in Results :
        /\ content \in Varying => receipts[p.index] # NoResult
        /\ Inferred(p.index, content)
        /\ IF /\ run.status = "running" /\ run.dispatched
              /\ ReceiptAccepted(p.index, content)
           THEN /\ receipts' = [receipts EXCEPT ![p.index] = content]
                /\ Becomes(p, "recorded")
           ELSE Becomes(p, "failing") /\ UNCHANGED receipts
    /\ UNCHANGED <<raster, halted, run, artifact, ledger, others, control, kjob>>

\* run_detection_finalizer reads the complete ordered receipts and aggregates.
Aggregate(p) ==
    /\ p.phase = "executing" /\ p.kind = "finalizer"
    /\ IF run.status = "running" /\ run.dispatched /\ ReceiptsComplete
       THEN pods' = (pods \ {p}) \cup {[p EXCEPT !.phase = "aggregated", !.content = receipts]}
       ELSE Becomes(p, "failing")
    /\ UNCHANGED <<run, receipts, artifact, kjob>> /\ PodUnchanged

\* _publish_result.
Publish(p) ==
    /\ p.phase = "aggregated" /\ ~StopRequested
    /\ IF run.status = "running"
       THEN /\ artifact' = p.content
            /\ run' = [run EXCEPT !.status = "succeeded"]
            /\ Becomes(p, "recorded")
       ELSE Becomes(p, "failing") /\ UNCHANGED <<run, artifact>>
    /\ UNCHANGED <<receipts, kjob>> /\ PodUnchanged

PodSucceeds(p) ==
    /\ p.phase = "recorded"
    /\ p.kind = "shards" => ~StopRequested
    /\ PodExits(p, TRUE)
    /\ UNCHANGED <<run, receipts, artifact>> /\ PodUnchanged

HandlerRaises(p) ==
    /\ p.phase \in {"executing", "aggregated"}
    /\ Accident("pod_error")
    /\ Becomes(p, "failing")
    /\ UNCHANGED <<database, control, kjob>>

\* _mark_terminal, whatever the run's status is.
MarkFailed(p) ==
    /\ p.phase = "failing"
    /\ run' = [run EXCEPT !.status = IF StopRequested THEN "cancelled" ELSE "failed"]
    /\ PodExits(p, FALSE)
    /\ UNCHANGED <<receipts, artifact>> /\ PodUnchanged

-----------------------------------------------------------------------------
(* The cluster. *)

ClusterUnchanged == UNCHANGED <<database, control>>

\* The Job controller starts a missing index, within the Job's parallelism.
StartPod(kind, index) ==
    LET job == kjob[kind]
        own == {p \in PodsOf(kind) : p.incarnation = job.incarnation}
    IN /\ job.state = "active" /\ ~job.deleting
       /\ index \in (IF kind = "shards" THEN PlanShards ELSE {0}) \ job.done
       /\ \A p \in own : p.index # index
       /\ Cardinality(own) < job.units
       /\ pods' = pods \cup {[kind |-> kind, index |-> index, incarnation |-> job.incarnation,
                              phase |-> "starting", content |-> NoReceipts]}
       /\ UNCHANGED kjob
       /\ ClusterUnchanged /\ UNCHANGED history

PodKilled(p) ==
    /\ Accident("pod_killed")
    /\ PodExits(p, FALSE)
    /\ ClusterUnchanged

\* Pods of a failed, deleted or vanished Job are terminated in time.
PodTerminated(p) ==
    /\ ~Owned(p) \/ kjob[p.kind].deleting
    /\ pods' = pods \ {p}
    /\ UNCHANGED kjob /\ ClusterUnchanged /\ UNCHANGED history

JobRemoved(kind) ==
    /\ kjob[kind].deleting /\ PodsOf(kind) = {}
    /\ kjob' = [kjob EXCEPT ![kind] = [NoJob EXCEPT !.incarnation = kjob[kind].incarnation]]
    /\ UNCHANGED pods /\ ClusterUnchanged /\ UNCHANGED history

JobVanishes(kind) ==
    /\ \/ kjob[kind].state # "absent" /\ Accident("background")
       \/ kjob[kind].state \in {"complete", "failed"} /\ Accident("ttl")
    /\ kjob' = [kjob EXCEPT ![kind] = [NoJob EXCEPT !.incarnation = kjob[kind].incarnation]]
    /\ UNCHANGED pods /\ ClusterUnchanged

-----------------------------------------------------------------------------
ControllerStep(c) ==
    \/ Reserve(c) \/ Dispatch(c) \/ DispatchFails(c) \/ RecordDispatchError(c)
    \/ ReconcileClaim(c) \/ ObserveCleanup(c) \/ ObserveJob(c) \/ ObserveFails(c)
    \/ RecreateJob(c) \/ RecreateJobFails(c) \/ ReconcileApply(c) \/ ControllerCrash(c)
    \/ TakeOver(c) \/ TickEnds(c)

PodStep(p) ==
    \/ LoadContext(p) \/ StopsWhenCancelled(p) \/ LateHeartbeat(p) \/ RecordReceipt(p)
    \/ Aggregate(p) \/ Publish(p) \/ PodSucceeds(p) \/ HandlerRaises(p) \/ MarkFailed(p)
    \/ PodKilled(p) \/ PodTerminated(p)

ClusterStep(kind) ==
    \/ \E index \in Shards : StartPod(kind, index)
    \/ JobRemoved(kind) \/ JobVanishes(kind)

Next ==
    \/ ReserveOther \/ ReleaseOther \/ CancelMission \/ LeaseExpires
    \/ \E c \in Controllers : ControllerStep(c)
    \/ \E p \in pods : PodStep(p)
    \/ \E kind \in Kinds : ClusterStep(kind)

Spec == Init /\ [][Next]_vars

\* The loops poll for ever, Pods progress or are terminated, other runs end and
\* release their units. Reservation competes with other runs for the units.
Fairness ==
    /\ WF_vars(LeaseExpires)
    /\ WF_vars(ReleaseOther)
    /\ \A c \in Controllers :
        /\ SF_vars(Reserve(c))
        /\ WF_vars(Dispatch(c) \/ RecordDispatchError(c) \/ ObserveCleanup(c)
                   \/ ObserveJob(c) \/ RecreateJob(c) \/ ReconcileApply(c) \/ TickEnds(c))
        /\ SF_vars(ReconcileClaim(c))
    /\ WF_vars(\E p \in pods : LoadContext(p) \/ StopsWhenCancelled(p) \/ RecordReceipt(p)
                    \/ Aggregate(p) \/ Publish(p) \/ PodSucceeds(p) \/ MarkFailed(p)
                    \/ PodTerminated(p))
    /\ \A kind \in Kinds : WF_vars(JobRemoved(kind)
                                   \/ \E index \in Shards : StartPod(kind, index))

FairSpec == Spec /\ Fairness

-----------------------------------------------------------------------------
FanOutTypeOK ==
    /\ halted \in BOOLEAN
    /\ run \in RunRow
    /\ {run.attempts} \cup ledger \subseteq 0..MaximumDispatchAttempts + 1
    /\ receipts \in [Shards -> Results \cup {NoResult}]
    /\ artifact \in [Shards -> Results \cup {NoResult}]
    /\ others \in 0..GlobalActive
    /\ leader \in working /\ working \subseteq Controllers
    /\ ctl \in [Controllers -> ControllerState]
    /\ \A kind \in Kinds : /\ kjob[kind].state \in JobStates
                           /\ kjob[kind].units \in 0..Parallelism
                           /\ kjob[kind].done \subseteq Shards
    /\ pods \subseteq PodState
    /\ reservations \in Nat /\ accidents \subseteq Faults

\* While a run is reserved, the Pods of its current Job fit beside the units of
\* the other runs, although it asks for several units, gets what is left and
\* holds another number once its finalizer takes over. (A Job whose creation
\* lost its reply keeps the parallelism of a reservation given back since; so
\* does one that a second worker had observed before its failure was recorded.)
PodsWithinEnvelope ==
    /\ run.dispatched /\ run.status \in ActiveStatuses
    /\ "lost_create" \notin accidents /\ ~ {"takeover", "request_error"} \subseteq accidents
    =>
        others + Cardinality({p \in PodsOf(run.jobName) : Owned(p)}) <= GlobalActive

Published == artifact # NoReceipts
AggregatedShards == {shard \in Shards : artifact[shard] # NoResult}

\* The shards of a plan about to be made, and those of what is published, take
\* every pixel of the raster and none outside it; no tile is in two of them.
WholeRaster ==
  run.phase = "unplanned" \/ Published =>
    LET shards == IF Published THEN AggregatedShards ELSE PlanShards
        TilesOf(shard) == ShardTiles(raster, TilesPerShard, shard)
    IN /\ UNION {Pixels(Tile(raster, index)) : index \in UNION {TilesOf(s) : s \in shards}}
              = (0..raster.width - 1) \X (0..raster.height - 1)
       /\ \A s, t \in shards : s # t => TilesOf(s) \cap TilesOf(t) = {}

\* A receipt, once durable, is never replaced: neither by a repeated inference,
\* nor by a Pod of a Job created twice, nor while the finalizer aggregates it.
ReceiptsKept ==
    [][\A shard \in Shards : receipts[shard] # NoResult => receipts'[shard] = receipts[shard]]_vars

\* Workers that die, overlap or overrun their lease do not fail a run between
\* them: a failed run had a refused plan, or a Pod, a Job or a request that
\* failed.
FailureHasCause ==
    run.status = "failed" => Refused \/ accidents \ {"crash", "takeover", "overrun"} # {}

\* Cleanup is confirmed for the Jobs of both phases: no Pod of either holds the
\* run's context afterwards.
CleanupCoversBothPhases ==
    run.cleaned => \A p \in pods : p.phase \notin {"executing", "aggregated"}

\* Both phases end: a run that is queued or running in a live mission reaches a
\* terminal status, unless a dispatch request failed or lost its reply.
FanOutSettles ==
    run.status \in ActiveStatuses ~>
        \/ run.status \in TerminalStatuses \/ halted
        \/ accidents \cap {"request_error", "lost_create"} # {}

\* Every reservation leaves its own stage_scheduled event in the usage ledger.
EveryDispatchRecorded == Cardinality(ledger) = reservations
=============================================================================
