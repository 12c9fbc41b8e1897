---------------------------- MODULE OutboxProofs ----------------------------
(***************************************************************************)
(* OutboxDelivery implements AtLeastOnce and bounds the overlap of its     *)
(* loops, for any number of replicas, loops and events, any batch size and *)
(* any retry budget.                                                       *)
(***************************************************************************)
EXTENDS OutboxDelivery, TLAPS

\* The retry budget of an event that is neither published nor dead is not used
\* up. What a loop holds in memory was requested, and what it believes to be
\* confirmed was delivered, whatever has become of its claims.
BudgetLeft ==
    \A e \in Events : outbox[e].status \notin {"published", "dead"}
                      => outbox[e].attempts < MaxAttempts
MemorySound ==
    /\ \A e \in topic : outbox[e].status # "absent"
    /\ \A t \in Loops : \A e \in dispatch[t].batch \cup Unrecorded(t) :
           outbox[e].status # "absent"
    /\ \A t \in Loops : dispatch[t].confirmed \subseteq topic

DeliveryInv == OutboxTypeOK /\ UnstoppedLoopsLead /\ BudgetLeft /\ MemorySound

USE LeadershipAssumption, OutboxAssumption

\* The initial rows are absent, with their budget to spend.
LEMMA InitDelivery == OutboxInit => DeliveryInv /\ Delivery!Init
<1> SUFFICES ASSUME OutboxInit PROVE DeliveryInv /\ Delivery!Init
  OBVIOUS
<1> USE DEF OutboxInit, LeadershipInit
<1>1. OutboxTypeOK
  BY DEF OutboxTypeOK, LeadershipTypeOK, OutboxRow, Row, RowStatuses, NoWork,
         DispatchState, MainPhases, NoLoop
<1>2. UnstoppedLoopsLead
  BY DEF UnstoppedLoopsLead, NoLoop, Running
<1>3. BudgetLeft
  BY DEF BudgetLeft, Row
<1>4. MemorySound
  BY DEF MemorySound, NoWork, Unrecorded
<1>5. Delivery!Init
  BY DEF Delivery!Init, Settled, Row
<1> QED BY <1>1, <1>2, <1>3, <1>4, <1>5 DEF DeliveryInv

\* Elections, losses, terminations and crashes keep the types of the leadership
\* and leave every unstopped loop to a replica that leads.
LEMMA LeadershipStep ==
  ASSUME LeadershipTypeOK, UnstoppedLoopsLead,
         \/ \E p \in Replicas :
              \/ \E t \in Loops : AcquireLeadership(p, t)
              \/ LoseConnection(p) \/ NoticeLoss(p) \/ RequestTermination(p)
              \/ ReleaseLeadership(p) \/ CrashReplica(p)
         \/ \E t \in Loops : EndLoop(t)
  PROVE  LeadershipTypeOK' /\ UnstoppedLoopsLead'
<1> USE DEF LeadershipTypeOK, UnstoppedLoopsLead, Running, MainPhases
<1>1. ASSUME NEW p \in Replicas, NEW t \in Loops, AcquireLeadership(p, t)
      PROVE  LeadershipTypeOK' /\ UnstoppedLoopsLead'
  BY <1>1 DEF AcquireLeadership, NewLoop
<1>2. ASSUME NEW p \in Replicas, LoseConnection(p)
      PROVE  LeadershipTypeOK' /\ UnstoppedLoopsLead'
  BY <1>2 DEF LoseConnection, Fail
<1>3. ASSUME NEW p \in Replicas, NoticeLoss(p)
      PROVE  LeadershipTypeOK' /\ UnstoppedLoopsLead'
  <2>1. main' = [main EXCEPT ![p] = "stopping"] /\ UNCHANGED <<leaderLock, failures>>
    BY <1>3 DEF NoticeLoss
  <2>2. loop' = LoopsStopped(p)
    BY <1>3 DEF NoticeLoss
  <2>3. loop' \in [Loops -> [replica : Replicas \cup {NoReplica}, stop : BOOLEAN]]
    BY <2>2 DEF LoopsStopped
  <2>4. LeadershipTypeOK'
    BY <2>1, <2>3
  <2>5. \A u \in Loops : /\ loop'[u].replica = loop[u].replica
                         /\ ~loop'[u].stop => ~loop[u].stop /\ loop[u].replica # p
    BY <2>2 DEF LoopsStopped
  <2>6. \A q \in Replicas \ {p} : main'[q] = main[q]
    BY <2>1
  <2>7. UnstoppedLoopsLead'
    BY <2>5, <2>6
  <2> QED BY <2>4, <2>7
<1>4. ASSUME NEW p \in Replicas, RequestTermination(p)
      PROVE  LeadershipTypeOK' /\ UnstoppedLoopsLead'
  <2>1. failures' \in 0..MaxFailures /\ UNCHANGED leaderLock
    BY <1>4 DEF RequestTermination, Fail
  <2>2. main' \in [Replicas -> MainPhases]
    BY <1>4 DEF RequestTermination
  <2>3. loop' = LoopsStopped(p)
    BY <1>4 DEF RequestTermination
  <2>4. loop' \in [Loops -> [replica : Replicas \cup {NoReplica}, stop : BOOLEAN]]
    BY <2>3 DEF LoopsStopped
  <2>5. LeadershipTypeOK'
    BY <2>1, <2>2, <2>4
  <2>6. UnstoppedLoopsLead'
    BY <1>4 DEF RequestTermination, LoopsStopped
  <2> QED BY <2>5, <2>6
<1>5. ASSUME NEW p \in Replicas, ReleaseLeadership(p)
      PROVE  LeadershipTypeOK' /\ UnstoppedLoopsLead'
  <2>1. loop' \in {loop, LoopsKilled(p)}
    BY <1>5 DEF ReleaseLeadership
  <2>2. \A u \in Loops : loop'[u] \in {loop[u], NoLoop}
    BY <2>1 DEF LoopsKilled
  <2>3. LeadershipTypeOK'
    BY <1>5, <2>1 DEF ReleaseLeadership, LoopsKilled, NoLoop
  <2>4. main[p] # "leading" /\ \A q \in Replicas \ {p} : main'[q] = main[q]
    BY <1>5 DEF ReleaseLeadership
  <2>5. UnstoppedLoopsLead'
    BY <2>2, <2>3, <2>4 DEF NoLoop
  <2> QED BY <2>3, <2>5
<1>6. ASSUME NEW p \in Replicas, CrashReplica(p)
      PROVE  LeadershipTypeOK' /\ UnstoppedLoopsLead'
  BY <1>6 DEF CrashReplica, LoopsKilled, NoLoop, Fail
<1>7. ASSUME NEW t \in Loops, EndLoop(t)
      PROVE  LeadershipTypeOK' /\ UnstoppedLoopsLead'
  BY <1>7 DEF EndLoop, NoLoop
<1> QED BY <1>1, <1>2, <1>3, <1>4, <1>5, <1>6, <1>7

\* What a step of a replica may do to the memory of the loops: nothing, or
\* forget it. The rows and the topic stay as they are.
LEMMA ReplicaStepDelivery ==
  ASSUME DeliveryInv, ReplicaStep, UNCHANGED <<outbox, topic>>
  PROVE  DeliveryInv'
<1> USE DEF DeliveryInv
<1>1. LeadershipTypeOK' /\ UnstoppedLoopsLead'
  BY LeadershipStep DEF ReplicaStep, OutboxTypeOK
<1>2. NoWork \in DispatchState
  BY DEF NoWork, DispatchState
<1>3. dispatch' \in [Loops -> DispatchState]
  BY <1>2 DEF ReplicaStep, OutboxTypeOK
<1>4. \A t \in Loops : dispatch'[t] \in {dispatch[t], NoWork}
  BY DEF ReplicaStep, OutboxTypeOK
<1>5. MemorySound'
  BY <1>4 DEF MemorySound, Unrecorded, NoWork
<1> QED BY <1>1, <1>3, <1>5 DEF OutboxTypeOK, BudgetLeft

\* A claim takes rows that are neither published nor dead and keeps them so.
LEMMA ClaimBatchDelivery ==
  ASSUME DeliveryInv, NEW t \in Loops, ClaimBatch(t)
  PROVE  DeliveryInv' /\ UNCHANGED Delivery!vars
<1> USE DEF DeliveryInv
<1>1. PICK batch \in SUBSET Claimable :
        /\ outbox' = [e \in Events |->
             IF e \in batch
             THEN [outbox[e] EXCEPT !.status = "publishing", !.leaseLive = TRUE,
                                    !.lockedBy = loop[t].replica]
             ELSE outbox[e]]
        /\ dispatch' = [dispatch EXCEPT ![t].batch = batch]
  BY DEF ClaimBatch
<1>2. batch \subseteq Events /\ UNCHANGED <<leadership, topic>>
  BY DEF Claimable, RetryDue, ClaimBatch
<1>3. \A e \in batch : outbox[e].status \in {"pending", "failed", "publishing"}
  BY DEF Claimable, RetryDue
<1>4. OutboxTypeOK'
  <2>0. loop[t].replica \in Replicas \cup {NoReplica}
    BY DEF OutboxTypeOK, LeadershipTypeOK
  <2>1. outbox' \in [Events -> OutboxRow]
    BY <1>1, <2>0 DEF OutboxTypeOK, OutboxRow, RowStatuses
  <2>2. dispatch' \in [Loops -> DispatchState]
    BY <1>1, <1>2 DEF OutboxTypeOK, DispatchState
  <2>3. LeadershipTypeOK'
    BY <1>2 DEF OutboxTypeOK, LeadershipTypeOK, leadership
  <2> QED BY <1>2, <2>1, <2>2, <2>3 DEF OutboxTypeOK
<1>5. \A e \in Events : /\ outbox'[e].attempts = outbox[e].attempts
                        /\ e \notin batch => outbox'[e].status = outbox[e].status
                        /\ e \in batch => outbox'[e].status = "publishing"
  BY <1>1 DEF OutboxTypeOK, OutboxRow
<1>6. BudgetLeft'
  BY <1>3, <1>5 DEF BudgetLeft
<1>7. MemorySound'
  <2>1. \A u \in Loops : dispatch'[u].batch \subseteq dispatch[u].batch \cup batch
    BY <1>1 DEF OutboxTypeOK, DispatchState
  <2>2. \A u \in Loops : /\ dispatch'[u].confirmed = dispatch[u].confirmed
                         /\ dispatch'[u].refused = dispatch[u].refused
    BY <1>1 DEF OutboxTypeOK, DispatchState
  <2>3. \A e \in Events : outbox[e].status # "absent" \/ e \in batch => outbox'[e].status # "absent"
    BY <1>5
  <2>4. topic \subseteq Events /\ \A u \in Loops : dispatch[u] \in DispatchState
    BY DEF OutboxTypeOK
  <2> QED BY <2>1, <2>2, <2>3, <2>4, <1>2 DEF MemorySound, Unrecorded, DispatchState
<1>8. UnstoppedLoopsLead'
  BY <1>2 DEF UnstoppedLoopsLead, leadership, Running
<1>9. UNCHANGED Delivery!vars
  BY <1>2, <1>3, <1>5 DEF Delivery!vars, Settled
<1> QED BY <1>4, <1>6, <1>7, <1>8, <1>9

\* A publication delivers what was requested, or nothing.
LEMMA PublishDelivery ==
  ASSUME DeliveryInv, NEW t \in Loops, NEW e \in Events, Publish(t, e)
  PROVE  DeliveryInv' /\ [Delivery!Next]_(Delivery!vars)
<1> USE DEF DeliveryInv
<1>1. /\ topic' \in {topic, topic \cup {e}} /\ UNCHANGED <<leadership, outbox>>
      /\ e \in dispatch[t].batch
  BY DEF Publish
<1>2. /\ dispatch' \in [Loops -> DispatchState]
      /\ \A u \in Loops \ {t} : dispatch'[u] = dispatch[u]
      /\ dispatch'[t].batch \cup dispatch'[t].confirmed \cup dispatch'[t].refused
           \subseteq dispatch[t].batch \cup Unrecorded(t)
      /\ dispatch'[t].confirmed \subseteq topic'
  BY <1>1 DEF Publish, OutboxTypeOK, DispatchState, Unrecorded
<1>3. outbox[e].status # "absent"
  BY <1>1 DEF MemorySound
<1>4. OutboxTypeOK'
  BY <1>1, <1>2 DEF OutboxTypeOK, LeadershipTypeOK, leadership
<1>5. MemorySound'
  BY <1>1, <1>2, <1>3 DEF MemorySound, Unrecorded
<1>6. UnstoppedLoopsLead' /\ BudgetLeft'
  BY <1>1 DEF UnstoppedLoopsLead, BudgetLeft, leadership, Running
<1>7. Delivery!Deliver(e) \/ UNCHANGED Delivery!vars
  BY <1>1, <1>3 DEF Delivery!Deliver, Delivery!vars, Settled
<1> QED BY <1>4, <1>5, <1>6, <1>7 DEF Delivery!Next

\* A recorded outcome settles what was delivered or abandons what the budget
\* gives up; the outcome of a claim that was lost changes no row.
LEMMA RecordDelivery ==
  ASSUME DeliveryInv, NEW t \in Loops, NEW e \in Events, RecordOutcome(t, e)
  PROVE  DeliveryInv' /\ [Delivery!Next]_(Delivery!vars)
<1> USE DEF DeliveryInv
<1>1. /\ UNCHANGED <<leadership, topic>> /\ e \in Unrecorded(t)
      /\ dispatch' = [dispatch EXCEPT ![t].confirmed = {}, ![t].refused = {}]
  BY DEF RecordOutcome
<1>2. /\ dispatch' \in [Loops -> DispatchState]
      /\ \A u \in Loops : /\ dispatch'[u].batch = dispatch[u].batch
                          /\ dispatch'[u].confirmed \subseteq dispatch[u].confirmed
                          /\ dispatch'[u].refused \subseteq dispatch[u].refused
  BY <1>1 DEF OutboxTypeOK, DispatchState
<1>3. outbox[e].status # "absent"
  BY <1>1 DEF MemorySound
<1>4. UnstoppedLoopsLead' /\ LeadershipTypeOK'
  BY <1>1 DEF UnstoppedLoopsLead, OutboxTypeOK, LeadershipTypeOK, leadership, Running
<1>5. CASE outbox' = outbox
  <2>1. DeliveryInv'
    BY <1>1, <1>2, <1>4, <1>5 DEF OutboxTypeOK, BudgetLeft, MemorySound, Unrecorded
  <2>2. UNCHANGED Delivery!vars
    BY <1>1, <1>5 DEF Delivery!vars, Settled
  <2> QED BY <2>1, <2>2
<1>6. CASE ClaimStillHeld(t, e)
  <2>1. outbox[e].attempts \in 0..MaxAttempts /\ outbox[e].attempts < MaxAttempts
    BY <1>6 DEF ClaimStillHeld, BudgetLeft, OutboxTypeOK, OutboxRow
  <2>2. PICK status \in {"published", "dead", "failed"} :
          /\ outbox' = [outbox EXCEPT ![e] = Row(status, outbox[e].attempts + 1)]
          /\ status = "published" => e \in dispatch[t].confirmed
          /\ status = "failed" => outbox[e].attempts + 1 < MaxAttempts
    <3>1. CASE e \in dispatch[t].confirmed
      BY <3>1, <1>6 DEF RecordOutcome
    <3>2. CASE e \notin dispatch[t].confirmed
      <4>1. outbox' = [outbox EXCEPT ![e] = AfterRefusal(e)]
        BY <3>2, <1>6 DEF RecordOutcome
      <4>2. CASE outbox[e].attempts + 1 >= MaxAttempts
        BY <4>1, <4>2, <2>1 DEF AfterRefusal
      <4>3. CASE outbox[e].attempts + 1 < MaxAttempts
        BY <4>1, <4>3, <2>1 DEF AfterRefusal
      <4> QED BY <4>2, <4>3, <2>1
    <3> QED BY <3>1, <3>2
  <2>3. OutboxTypeOK'
    BY <2>1, <2>2, <1>1, <1>2, <1>4 DEF OutboxTypeOK, OutboxRow, Row, RowStatuses
  <2>4. /\ \A f \in Events \ {e} : outbox'[f] = outbox[f]
        /\ outbox'[e].status = status /\ outbox'[e].attempts = outbox[e].attempts + 1
    BY <2>2 DEF OutboxTypeOK, Row
  <2>5. BudgetLeft'
    BY <2>2, <2>4 DEF BudgetLeft
  <2>6. MemorySound'
    <3>1. \A f \in Events : outbox[f].status # "absent" => outbox'[f].status # "absent"
      BY <2>4
    <3>2. topic \subseteq Events /\ \A u \in Loops : dispatch[u] \in DispatchState
      BY DEF OutboxTypeOK
    <3> QED BY <1>1, <1>2, <3>1, <3>2 DEF MemorySound, Unrecorded, DispatchState
  <2>7. CASE status = "published"
    <3>1. e \in topic
      BY <2>2, <2>7 DEF MemorySound
    <3>2. Delivery!Settle(e)
      BY <3>1, <2>4, <2>7, <1>1, <1>6 DEF Delivery!Settle, Settled, ClaimStillHeld
    <3> QED BY <3>2, <2>3, <2>5, <2>6, <1>4 DEF Delivery!Next
  <2>8. CASE status = "dead"
    <3>1. Delivery!Abandon(e)
      BY <1>3, <2>4, <2>8, <1>1, <1>6 DEF Delivery!Abandon, Settled, ClaimStillHeld
    <3> QED BY <3>1, <2>3, <2>5, <2>6, <1>4 DEF Delivery!Next
  <2>9. CASE status = "failed"
    <3>1. UNCHANGED Delivery!vars
      BY <2>4, <2>9, <1>1, <1>6 DEF Delivery!vars, Settled, ClaimStillHeld
    <3> QED BY <3>1, <2>3, <2>5, <2>6, <1>4
  <2> QED BY <2>7, <2>8, <2>9
<1> QED BY <1>5, <1>6 DEF RecordOutcome

\* A batch that is dropped is forgotten, its rows stay claimed.
LEMMA DropBatchDelivery ==
  ASSUME DeliveryInv, NEW t \in Loops, DropBatch(t)
  PROVE  DeliveryInv' /\ UNCHANGED Delivery!vars
<1> USE DEF DeliveryInv, DropBatch, Fail
<1>1. OutboxTypeOK'
  BY DEF OutboxTypeOK, LeadershipTypeOK, NoWork, DispatchState
<1>2. MemorySound'
  BY DEF OutboxTypeOK, MemorySound, Unrecorded, NoWork
<1>3. BudgetLeft' /\ UnstoppedLoopsLead'
  BY DEF BudgetLeft, UnstoppedLoopsLead, Running
<1>4. UNCHANGED Delivery!vars
  BY DEF Delivery!vars, Settled
<1> QED BY <1>1, <1>2, <1>3, <1>4

\* Requests, replays and the passing of leases concern one row.
LEMMA RowStepDelivery ==
  ASSUME DeliveryInv, NEW e \in Events, EnqueueOutbox(e) \/ ReplayDead(e) \/ LeaseRunsOut(e)
  PROVE  DeliveryInv' /\ [Delivery!Next]_(Delivery!vars)
<1> USE DEF DeliveryInv
<1>1. UNCHANGED <<leadership, topic, dispatch>>
  BY DEF EnqueueOutbox, ReplayDead, LeaseRunsOut
<1>2. PICK row \in OutboxRow :
        /\ outbox' = [outbox EXCEPT ![e] = row]
        /\ row.status # "absent"
        /\ row.status \notin {"published", "dead"} => row.attempts < MaxAttempts
  <2>1. CASE EnqueueOutbox(e) \/ ReplayDead(e)
    <3>1. outbox' = [outbox EXCEPT ![e] = Row("pending", 0)]
      BY <2>1 DEF EnqueueOutbox, ReplayDead
    <3>2. /\ Row("pending", 0) \in OutboxRow
          /\ Row("pending", 0).status = "pending" /\ Row("pending", 0).attempts = 0
      BY DEF Row, OutboxRow, RowStatuses
    <3>3. 0 < MaxAttempts
      OBVIOUS
    <3> QED BY <3>1, <3>2, <3>3
  <2>2. CASE LeaseRunsOut(e)
    <3>1. [outbox[e] EXCEPT !.leaseLive = FALSE] \in OutboxRow
      BY DEF OutboxTypeOK, OutboxRow
    <3>2. outbox[e].attempts < MaxAttempts
      BY <2>2 DEF LeaseRunsOut, BudgetLeft
    <3>3. [outbox[e] EXCEPT !.leaseLive = FALSE].status = outbox[e].status
          /\ [outbox[e] EXCEPT !.leaseLive = FALSE].attempts = outbox[e].attempts
      BY DEF OutboxTypeOK, OutboxRow
    <3> QED BY <2>2, <3>1, <3>2, <3>3 DEF LeaseRunsOut
  <2> QED BY <2>1, <2>2
<1>3. \A f \in Events \ {e} : outbox'[f] = outbox[f]
  BY <1>2 DEF OutboxTypeOK
<1>4. outbox'[e] = row
  BY <1>2 DEF OutboxTypeOK
<1>5. OutboxTypeOK'
  BY <1>1, <1>2 DEF OutboxTypeOK, LeadershipTypeOK, leadership
<1>6. BudgetLeft'
  BY <1>2, <1>3, <1>4 DEF BudgetLeft
<1>7. MemorySound'
  BY <1>1, <1>2, <1>3, <1>4 DEF MemorySound, Unrecorded, OutboxTypeOK, DispatchState
<1>8. UnstoppedLoopsLead'
  BY <1>1 DEF UnstoppedLoopsLead, leadership, Running
<1>9. Delivery!Request(e) \/ Delivery!Replay(e) \/ UNCHANGED Delivery!vars
  <2>1. CASE EnqueueOutbox(e)
    <3>1. Delivery!Request(e)
      BY <2>1, <1>1, <1>3 DEF EnqueueOutbox, Row, Delivery!Request, Settled, OutboxTypeOK
    <3> QED BY <3>1
  <2>2. CASE ReplayDead(e)
    <3>1. Delivery!Replay(e)
      BY <2>2, <1>1, <1>3 DEF ReplayDead, Row, Delivery!Replay, Settled, OutboxTypeOK
    <3> QED BY <3>1
  <2>3. CASE LeaseRunsOut(e)
    <3>1. \A f \in Events : outbox'[f].status = outbox[f].status
      BY <2>3 DEF LeaseRunsOut, OutboxTypeOK, OutboxRow
    <3> QED BY <3>1, <1>1 DEF Delivery!vars, Settled
  <2> QED BY <2>1, <2>2, <2>3
<1> QED BY <1>5, <1>6, <1>7, <1>8, <1>9 DEF Delivery!Next

\* Every step of the outbox keeps the invariant and is a step of AtLeastOnce,
\* or leaves its variables alone.
LEMMA NextDelivery ==
  ASSUME DeliveryInv, [OutboxNext]_outboxVars
  PROVE  DeliveryInv' /\ [Delivery!Next]_(Delivery!vars)
<1>1. CASE ReplicaStep /\ UNCHANGED <<outbox, topic>>
  <2>1. UNCHANGED Delivery!vars
    BY <1>1 DEF Delivery!vars, Settled
  <2> QED BY <1>1, <2>1, ReplicaStepDelivery
<1>2. CASE \E t \in Loops : LoopStep(t) \/ DropBatch(t)
  BY <1>2, ClaimBatchDelivery, PublishDelivery, RecordDelivery, DropBatchDelivery DEF LoopStep
<1>3. CASE \E e \in Events : EnqueueOutbox(e) \/ ReplayDead(e) \/ LeaseRunsOut(e)
  BY <1>3, RowStepDelivery
<1>4. CASE UNCHANGED outboxVars
  BY <1>4 DEF outboxVars, leadership, DeliveryInv, OutboxTypeOK, LeadershipTypeOK,
     UnstoppedLoopsLead, Running, BudgetLeft, MemorySound, Unrecorded, Delivery!vars, Settled
<1> QED BY <1>1, <1>2, <1>3, <1>4 DEF OutboxNext

\* The rows, the memories and the leadership keep their types, the retry budget
\* included; a loop that still claims work belongs to a replica that leads, and
\* to its present term: run_outbox_dispatcher under _run_elected_loops.
THEOREM OverlapCorrect == OutboxSpec => []OutboxTypeOK /\ []UnstoppedLoopsLead
<1>1. OutboxSpec => []DeliveryInv
  BY InitDelivery, NextDelivery, PTL DEF OutboxSpec
<1>2. DeliveryInv => OutboxTypeOK /\ UnstoppedLoopsLead
  BY DEF DeliveryInv
<1> QED BY <1>1, <1>2, PTL

\* dispatch_outbox_batch delivers at least once: no row is published that did
\* not reach the topic, and what is published stays so, whatever leases run
\* out, whichever confirmations are lost and however many loops overlap.
THEOREM DeliveryCorrect == OutboxSpec => DeliversAtLeastOnce
  BY InitDelivery, NextDelivery, PTL DEF OutboxSpec, DeliversAtLeastOnce, Delivery!Spec
=============================================================================
