--------------------------- MODULE OutboxDelivery ---------------------------
(***************************************************************************)
(* The transactional outbox: an API transaction that cancels a mission     *)
(* records the cancel event beside it; the outbox loop of the leading      *)
(* control worker leases the due rows in one transaction, publishes them   *)
(* one by one outside any transaction, and records each outcome in a       *)
(* transaction of its own.                                                 *)
(*                                                                         *)
(* Leases are taken in the name of a process (hostname:pid), so two loops  *)
(* of one process, one of them left over from an earlier term, hold them   *)
(* under the same name. Whether an unconfirmed message reached the topic   *)
(* is not known to the publisher. Copies of a message are not counted.     *)
(***************************************************************************)
EXTENDS ControlLeadership

CONSTANTS
    Events,
    BatchSize,      \* rows claimed at once
    MaxAttempts     \* RetryPolicy.max_attempts

ASSUME OutboxAssumption == BatchSize \in Nat \ {0} /\ MaxAttempts \in Nat \ {0}

VARIABLES
    outbox,         \* a row for every event
    topic,          \* the events that reached the topic
    dispatch        \* what each loop thread holds in memory

outboxVars == <<leadership, outbox, topic, dispatch>>

RowStatuses == {"absent", "pending", "publishing", "failed", "published", "dead"}
OutboxRow ==
    [status   : RowStatuses,
     attempts : 0..MaxAttempts,
     lockedBy : Replicas \cup {NoReplica},
     leaseLive: BOOLEAN]             \* locked_at is after the lease cutoff
Row(status, attempts) ==
    [status |-> status, attempts |-> attempts, lockedBy |-> NoReplica, leaseLive |-> FALSE]

\* The batch still to publish, and the outcomes of the last publication that
\* are not recorded yet.
DispatchState == [batch : SUBSET Events, confirmed : SUBSET Events, refused : SUBSET Events]
NoWork == [batch |-> {}, confirmed |-> {}, refused |-> {}]
Unrecorded(t) == dispatch[t].confirmed \cup dispatch[t].refused

OutboxTypeOK ==
    /\ LeadershipTypeOK
    /\ outbox \in [Events -> OutboxRow]
    /\ topic \in SUBSET Events
    /\ dispatch \in [Loops -> DispatchState]

OutboxInit ==
    /\ LeadershipInit
    /\ outbox = [e \in Events |-> Row("absent", 0)]
    /\ topic = {}
    /\ dispatch = [t \in Loops |-> NoWork]

\* A cancel or delete request: the identity of the event is a function of the
\* mission and its generation, a row that exists is left alone.
EnqueueOutbox(e) ==
    /\ outbox[e].status = "absent"
    /\ outbox' = [outbox EXCEPT ![e] = Row("pending", 0)]
    /\ UNCHANGED <<leadership, topic, dispatch>>

\* Administration of dead events.
ReplayDead(e) ==
    /\ outbox[e].status = "dead"
    /\ outbox' = [outbox EXCEPT ![e] = Row("pending", 0)]
    /\ UNCHANGED <<leadership, topic, dispatch>>

RetryDue == {e \in Events : outbox[e].status \in {"pending", "failed"}}

\* available_at may pass, and locked_at grow old, at any time.
Claimable ==
    RetryDue \cup {e \in Events : outbox[e].status = "publishing" /\ ~outbox[e].leaseLive}

LeaseRunsOut(e) ==
    /\ outbox[e].status = "publishing" /\ outbox[e].leaseLive
    /\ outbox' = [outbox EXCEPT ![e].leaseLive = FALSE]
    /\ UNCHANGED <<leadership, topic, dispatch>>

\* The first transaction of a batch. Rows that another transaction has locked
\* are skipped, so that any part of what is claimable may be claimed.
ClaimBatch(t) ==
    /\ Running(t) /\ ~loop[t].stop
    /\ dispatch[t] = NoWork
    /\ \E batch \in SUBSET Claimable :
        /\ batch # {} /\ Cardinality(batch) <= BatchSize
        /\ outbox' = [e \in Events |->
             IF e \in batch
             THEN [outbox[e] EXCEPT !.status = "publishing", !.leaseLive = TRUE,
                                    !.lockedBy = loop[t].replica]
             ELSE outbox[e]]
        /\ dispatch' = [dispatch EXCEPT ![t].batch = batch]
    /\ UNCHANGED <<leadership, topic>>

\* publish_json: produce, then wait for the delivery callback. An error may be
\* a message refused or a confirmation that came too late.
Publish(t, e) ==
    /\ Unrecorded(t) = {} /\ e \in dispatch[t].batch
    /\ \/ /\ topic' = topic \cup {e}
          /\ dispatch' = [dispatch EXCEPT ![t].batch = @ \ {e}, ![t].confirmed = {e}]
       \/ /\ topic' \in {topic, topic \cup {e}}
          /\ dispatch' = [dispatch EXCEPT ![t].batch = @ \ {e}, ![t].refused = {e}]
    /\ UNCHANGED <<leadership, outbox>>

ClaimIgnored(t, e) == TRUE
ClaimStillHeld(t, e) ==
    outbox[e].status = "publishing" /\ outbox[e].lockedBy = loop[t].replica

AfterRefusalOneMore(e) ==
    Row(IF outbox[e].attempts + 1 > MaxAttempts THEN "dead" ELSE "failed",
        outbox[e].attempts + 1)

AfterRefusal(e) ==
    Row(IF outbox[e].attempts + 1 >= MaxAttempts THEN "dead" ELSE "failed",
        outbox[e].attempts + 1)

RecordOutcome(t, e) ==
    /\ e \in Unrecorded(t)
    /\ dispatch' = [dispatch EXCEPT ![t].confirmed = {}, ![t].refused = {}]
    /\ outbox' = IF ~ClaimStillHeld(t, e) THEN outbox
                 ELSE IF e \in dispatch[t].confirmed
                 THEN [outbox EXCEPT ![e] = Row("published", @.attempts + 1)]
                 ELSE [outbox EXCEPT ![e] = AfterRefusal(e)]
    /\ UNCHANGED <<leadership, topic>>

\* The database fails in that transaction: the rest of the batch is dropped.
DropBatch(t) ==
    /\ Unrecorded(t) # {}
    /\ Fail
    /\ dispatch' = [dispatch EXCEPT ![t] = NoWork]
    /\ UNCHANGED <<leaderLock, main, loop, outbox, topic>>

LoopStep(t) ==
    \/ ClaimBatch(t)
    \/ \E e \in Events : Publish(t, e) \/ RecordOutcome(t, e)

ReplicaStep ==
    \/ \E p \in Replicas :
        /\ \/ \E t \in Loops : AcquireLeadership(p, t)
           \/ LoseConnection(p) \/ NoticeLoss(p) \/ RequestTermination(p)
        /\ UNCHANGED dispatch
    \/ \E p \in Replicas :
        /\ ReleaseLeadership(p) \/ CrashReplica(p)
        /\ dispatch' = [t \in Loops |-> IF loop'[t] = NoLoop THEN NoWork ELSE dispatch[t]]
    \/ \E t \in Loops :
        /\ dispatch[t] = NoWork
        /\ EndLoop(t)
        /\ UNCHANGED dispatch

OutboxNext ==
    \/ ReplicaStep /\ UNCHANGED <<outbox, topic>>
    \/ \E t \in Loops : LoopStep(t) \/ DropBatch(t)
    \/ \E e \in Events : EnqueueOutbox(e) \/ ReplayDead(e) \/ LeaseRunsOut(e)

OutboxSpec == OutboxInit /\ [][OutboxNext]_outboxVars

\* Loops run, clocks advance, and the leading loop scans its rows again and
\* again, oldest first.
OutboxFairness ==
    /\ LeadershipFairness
    /\ \A t \in Loops :
         /\ WF_outboxVars(\E e \in Events : Publish(t, e) \/ RecordOutcome(t, e))
         /\ WF_outboxVars(dispatch[t] = NoWork /\ EndLoop(t) /\ UNCHANGED <<outbox, topic, dispatch>>)
    /\ \A e \in Events :
         /\ WF_outboxVars(LeaseRunsOut(e))
         /\ SF_outboxVars(\E t \in Loops : ClaimBatch(t) /\ e \in dispatch'[t].batch)

OutboxFairSpec == OutboxSpec /\ OutboxFairness
-----------------------------------------------------------------------------
Settled == {e \in Events : outbox[e].status = "published"}

\* The outbox implements at-least-once delivery, across overlapping loops,
\* leases that run out under their holder, lost confirmations and crashes.
Delivery == INSTANCE AtLeastOnce WITH
    requested <- {e \in Events : outbox[e].status # "absent"},
    delivered <- topic,
    settled   <- Settled,
    abandoned <- {e \in Events : outbox[e].status = "dead"}

DeliversAtLeastOnce == Delivery!Spec

\* Every requested event is published or given up, whoever crashed.
DeliverySettles ==
    \A e \in Events : outbox[e].status = "pending" ~> outbox[e].status \in {"published", "dead"}
=============================================================================
