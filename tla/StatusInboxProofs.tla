-------------------------- MODULE StatusInboxProofs --------------------------
(***************************************************************************)
(* Theorems about StatusInbox, for any number of pods, any topic and any   *)
(* retry budget.                                                           *)
(***************************************************************************)
EXTENDS StatusInbox, TLAPS

PodRows == [at : Steps, offset : 0..Len(Log), attempts : 0..MaxAttempts, row : Row]

\* The mission's row is well formed after an event is applied to it.
LEMMA AppliedRow ==
  ASSUME NEW e \in Events, NEW old \in Row
  PROVE  Applied(e, old) \in Row
<1> USE InboxAssumption
<1> DEFINE states == [old.states EXCEPT ![ServiceOf[e]] = e]
<1>1. states \in States
  BY DEF Row, States
<1>2. OverallStatus(states) \in TERMINAL_STATUSES \cup {"processing"}
  BY DEF OverallStatus, TERMINAL_STATUSES
<1>3. StatusAfter(e, old.status, OverallStatus(states)) \in MissionStatuses
  BY <1>2 DEF StatusAfter, MissionStatuses, Row
<1>4. Projected(e, old.runs) \in [DOMAIN Stages -> RunStatuses]
  <2>1. old.runs \in [DOMAIN Stages -> RunStatuses]
    BY DEF Row
  <2>2. ASSUME NEW target, NEW status \in RunStatuses
        PROVE  [i \in DOMAIN Stages |-> IF i < target /\ old.runs[i] \notin TerminalRuns \cup {"none"}
                                        THEN "succeeded"
                                        ELSE IF i = target THEN status ELSE old.runs[i]]
                 \in [DOMAIN Stages -> RunStatuses]
    BY <2>1 DEF RunStatuses, TerminalRuns
  <2>3. (CASE StatusOf[e] = "success" -> "succeeded" [] StatusOf[e] = "error" -> "failed"
           [] StatusOf[e] = "cancelled" -> "cancelled" [] OTHER -> "running") \in RunStatuses
    BY DEF RunStatuses, TerminalRuns
  <2> QED
    BY <2>1, <2>2, <2>3 DEF Projected
<1> QED
  BY <1>1, <1>3, <1>4 DEF Applied, Row, MissionSteps

\* The memory of a consumer that moves on is well formed.
LEMMA ConsumerType ==
  ASSUME NEW at \in Steps, NEW offset \in 0..Len(Log), NEW attempts \in 0..MaxAttempts
  PROVE  Consumer(at, offset, attempts) \in PodRows
  BY InboxAssumption DEF Consumer, PodRows, NoRow, Row, MissionStatuses, MissionSteps, States,
     NoStates, RunStatuses

\* So is that of a consumer whose attempt has failed.
LEMMA AttemptType ==
  ASSUME NEW p \in Pods, pod \in [Pods -> PodRows], AttemptFailed(p)
  PROVE  /\ pod' \in [Pods -> PodRows]
         /\ pod'[p].at \in {"resolving", "dead_lettering"}
         /\ pod'[p].offset = pod[p].offset
         /\ \A q \in Pods \ {p} : pod'[q] = pod[q]
<1> USE InboxAssumption
<1>1. pod[p].offset \in 0..Len(Log) /\ pod[p].attempts \in 0..MaxAttempts
  BY DEF PodRows
<1>2. PICK c \in PodRows : /\ pod' = [pod EXCEPT ![p] = c]
                           /\ c.at \in {"resolving", "dead_lettering"} /\ c.offset = pod[p].offset
  <2>1. CASE Exhausted(pod[p].attempts)
    <3>1. Consumer("dead_lettering", pod[p].offset, pod[p].attempts) \in PodRows
      BY <1>1, ConsumerType DEF Steps
    <3> QED
      BY <2>1, <3>1 DEF AttemptFailed, AfterLastAttempt, Consumer
  <2>2. CASE ~Exhausted(pod[p].attempts)
    <3>1. Consumer("resolving", pod[p].offset, pod[p].attempts + 1) \in PodRows
      <4>1. pod[p].attempts + 1 \in 0..MaxAttempts
        BY <1>1, <2>2 DEF Exhausted
      <4> QED
        BY <1>1, <4>1, ConsumerType DEF Steps
    <3> QED
      BY <2>2, <3>1 DEF AttemptFailed, Consumer
  <2> QED
    BY <2>1, <2>2
<1> QED
  BY <1>2

\* A consumer that goes to another step keeps what it holds.
LEMMA GoToType ==
  ASSUME NEW p \in Pods, pod \in [Pods -> PodRows], NEW step \in Steps, GoTo(p, step)
  PROVE  /\ pod' \in [Pods -> PodRows]
         /\ pod'[p].at = step /\ pod'[p].offset = pod[p].offset /\ pod'[p].row = pod[p].row
         /\ \A q \in Pods \ {p} : pod'[q] = pod[q]
<1>1. [pod[p] EXCEPT !.at = step] \in PodRows
  BY DEF PodRows
<1>2. pod' = [pod EXCEPT ![p] = [pod[p] EXCEPT !.at = step]]
  BY DEF GoTo
<1> QED
  BY <1>1, <1>2 DEF PodRows

-----------------------------------------------------------------------------
\* A consumer that is busy with a message has polled it.
Placed == \A p \in Pods : pod[p].at \notin {"stopped", "polling"} => pod[p].offset \in Offsets

InboxInv == InboxTypeOK /\ Placed

\* The topic has Len(Log) messages.
LEMMA Topic ==
  /\ Offsets = 1..Len(Log) /\ Len(Log) \in Nat
  /\ \A o \in Offsets : Log[o] \in Events
  BY InboxAssumption DEF Offsets, Events, Range

\* A step of a consumer keeps the types.
LEMMA PodTypes ==
  ASSUME InboxInv, NEW p \in Pods, PodStep(p) \/ Failure(p)
  PROVE  InboxInv'
<1> USE InboxAssumption, Topic
<1> USE DEF InboxTypeOK, InboxInv
<1>0. pod \in [Pods -> PodRows]
  BY DEF PodRows
<1>a. /\ pod[p].offset \in 0..Len(Log) /\ pod[p].attempts \in 0..MaxAttempts /\ pod[p].row \in Row
      /\ \A q \in Pods : pod[q].offset \in 0..Len(Log)
  BY <1>0 DEF PodRows
<1>b. Fail => failures' \in 0..MaxFailures
  BY DEF Fail
<1>1. CASE StartPod(p)
  <2>1. /\ StartOffset(p) \in 0..Len(Log) /\ 0 \in 0..MaxAttempts
    BY DEF StartOffset
  <2>2. Consumer("polling", StartOffset(p), 0) \in PodRows
    BY <2>1, ConsumerType DEF Steps
  <2>3. pod' \in [Pods -> PodRows] /\ Placed'
    BY <1>0, <1>1, <2>2 DEF StartPod, Placed, Consumer
  <2> QED
    BY <1>1, <2>3 DEF StartPod, PodRows, database, mission
<1>2. CASE Poll(p)
  <2>1. pod[p].offset + 1 \in 1..Len(Log) /\ 1 \in 0..MaxAttempts
    BY <1>2, <1>a DEF Poll
  <2>2. Consumer("resolving", pod[p].offset + 1, 1) \in PodRows
    BY <2>1, ConsumerType DEF Steps
  <2>3. pod' \in [Pods -> PodRows] /\ Placed'
    BY <1>0, <1>2, <2>1, <2>2 DEF Poll, Placed, Consumer
  <2> QED
    BY <1>2, <2>3 DEF Poll, PodRows, database, mission, history
<1>3. ASSUME AttemptFailed(p), pod[p].at \notin {"stopped", "polling"}
      PROVE  pod' \in [Pods -> PodRows] /\ Placed'
  BY <1>0, <1>3, AttemptType DEF Placed
<1>4. ASSUME NEW step \in Steps, GoTo(p, step), pod[p].at \notin {"stopped", "polling"}
      PROVE  pod' \in [Pods -> PodRows] /\ Placed'
  BY <1>0, <1>4, GoToType DEF Placed
<1>5. CASE ResolveAudience(p) \/ ReadReceipt(p) \/ RejectPoison(p) \/ Broadcast(p)
  <2>1. pod' \in [Pods -> PodRows] /\ Placed'
    BY <1>3, <1>4, <1>5 DEF ResolveAudience, ReadReceipt, RejectPoison, Broadcast, Steps
  <2> QED
    BY <1>5, <2>1 DEF ResolveAudience, ReadReceipt, RejectPoison, Broadcast, PodRows, database,
       mission, history
<1>6. CASE CommitOffset(p)
  <2>1. pod' \in [Pods -> PodRows] /\ Placed'
    BY <1>4, <1>6 DEF CommitOffset, Steps
  <2>2. committed' \in [Pods -> 0..Len(Log)]
    BY <1>6, <1>a DEF CommitOffset
  <2> QED
    BY <1>6, <2>1, <2>2 DEF CommitOffset, PodRows, database, mission, history
<1>7. CASE InsertReceipt(p)
  <2>1. /\ [pod[p] EXCEPT !.at = "broadcasting"] \in PodRows
        /\ [pod[p] EXCEPT !.at = "broadcasting"].offset = pod[p].offset
        /\ [pod[p] EXCEPT !.at = "applying", !.row = row] \in PodRows
        /\ [pod[p] EXCEPT !.at = "applying", !.row = row].offset = pod[p].offset
    BY <1>0 DEF PodRows, Steps
  <2>2. pod' \in [Pods -> PodRows] /\ Placed'
    BY <1>0, <1>7, <2>1 DEF InsertReceipt, Placed
  <2> QED
    BY <1>7, <2>2 DEF InsertReceipt, PodRows, database, mission, history
<1>8. CASE ApplyState(p)
  <2>1. EventOf(p) \in Events
    BY <1>8 DEF ApplyState, EventOf, Placed
  <2>2. Applied(EventOf(p), pod[p].row) \in Row
    BY <1>a, <2>1, AppliedRow
  <2>3. row' \in Row
    BY <1>8, <1>a, <2>2 DEF ApplyState, Row, Written
  <2>4. Consumer("broadcasting", pod[p].offset, pod[p].attempts) \in PodRows
    BY <1>a, ConsumerType DEF Steps
  <2>5. pod' \in [Pods -> PodRows] /\ Placed'
    BY <1>0, <1>8, <2>4 DEF ApplyState, Placed, Consumer
  <2>6. receipts' \subseteq Events /\ applied' \in Seq(Events)
    BY <1>8, <2>1 DEF ApplyState
  <2> QED
    BY <1>8, <2>3, <2>5, <2>6 DEF ApplyState, PodRows, history
<1>9. CASE ApplyRefused(p)
  <2>1. pod' \in [Pods -> PodRows] /\ Placed'
    BY <1>3, <1>9 DEF ApplyRefused
  <2> QED
    BY <1>9, <2>1 DEF ApplyRefused, PodRows, database, mission, history
<1>10. CASE PublishDeadLetter(p)
  <2>1. pod' \in [Pods -> PodRows] /\ Placed'
    BY <1>4, <1>10 DEF PublishDeadLetter, Steps
  <2>2. pod[p].offset \in Offsets /\ deadLetters' = deadLetters \cup {<<p, pod[p].offset>>}
    BY <1>10 DEF PublishDeadLetter, Placed
  <2>3. deadLetters' \subseteq Pods \X Offsets
    BY <2>2
  <2> QED
    BY <1>10, <2>1, <2>3 DEF PublishDeadLetter, PodRows, database, mission, history
<1>11. CASE StepFails(p)
  <2>1. pod' \in [Pods -> PodRows] /\ Placed'
    BY <1>3, <1>11 DEF StepFails
  <2>2. committed' \in [Pods -> 0..Len(Log)]
    BY <1>11, <1>a DEF StepFails
  <2> QED
    BY <1>11, <1>b, <2>1, <2>2 DEF StepFails, PodRows, database, mission, history
<1>12. CASE DeadLetterFails(p)
  <2>1. pod' \in [Pods -> PodRows] /\ Placed'
    BY <1>4, <1>12 DEF DeadLetterFails, Steps
  <2>2. <<p, pod[p].offset>> \in Pods \X Offsets
    BY <1>12 DEF DeadLetterFails, Placed
  <2>3. deadLetters' \subseteq Pods \X Offsets /\ refused' \subseteq Pods \X Offsets
    BY <1>12, <2>2 DEF DeadLetterFails
  <2>4. Fail
    BY <1>12 DEF DeadLetterFails
  <2> QED
    BY <1>12, <1>b, <2>1, <2>3, <2>4 DEF DeadLetterFails, PodRows, database, mission
<1>13. CASE CommitDeadFails(p)
  <2>1. pod' \in [Pods -> PodRows] /\ Placed'
    BY <1>4, <1>13 DEF CommitDeadFails, Steps
  <2> QED
    BY <1>13, <1>b, <2>1 DEF CommitDeadFails, PodRows, database, mission, history
<1>14. CASE CrashPod(p)
  <2>1. Consumer("stopped", 0, 0) \in PodRows
    BY ConsumerType DEF Steps
  <2>2. pod' \in [Pods -> PodRows] /\ Placed'
    BY <1>0, <1>14, <2>1 DEF CrashPod, Placed, Consumer
  <2> QED
    BY <1>14, <1>b, <2>2 DEF CrashPod, PodRows, database, mission, history
<1> QED
  BY <1>1, <1>2, <1>5, <1>6, <1>7, <1>8, <1>9, <1>10, <1>11, <1>12, <1>13, <1>14
     DEF PodStep, Failure

\* So does a step of the users or of the retention loop.
LEMMA UserTypes ==
  ASSUME InboxInv, UserStep
  PROVE  InboxInv'
<1> USE InboxAssumption DEF InboxTypeOK, InboxInv
<1>1. row' \in Row
  <2>1. CASE CancelMission
    BY <2>1 DEF CancelMission, Row, MissionStatuses, TERMINAL_STATUSES, MissionSteps
  <2>2. CASE DeleteMission
    <3>1. [i \in DOMAIN Stages |-> IF row.runs[i] \in {"queued", "running"} THEN "cancelled"
                                   ELSE row.runs[i]] \in [DOMAIN Stages -> RunStatuses]
      BY DEF Row, RunStatuses, TerminalRuns
    <3> QED
      BY <2>2, <3>1 DEF DeleteMission, Row, MissionStatuses, TERMINAL_STATUSES, MissionSteps
  <2>3. CASE ClaimMission
    BY <2>3 DEF ClaimMission, Row, MissionStatuses, MissionSteps
  <2>4. CASE CompleteDeletion
    BY <2>4 DEF CompleteDeletion, NoRow, NoStates, States, Row, MissionStatuses, MissionSteps,
       RunStatuses
  <2> QED
    BY <2>1, <2>2, <2>3, <2>4 DEF UserStep
<1>2. /\ UNCHANGED threads
      /\ user' \in {"none", "cancelled", "requested", "claimed", "deleted"}
  BY DEF UserStep, CancelMission, DeleteMission, ClaimMission, CompleteDeletion
<1> QED
  BY <1>1, <1>2 DEF threads, history, Placed

\* The types are inductive.
LEMMA InboxStep ==
  ASSUME InboxInv, [Next]_vars
  PROVE  InboxInv'
<1>1. CASE WriteStatus
  BY <1>1, InboxAssumption, Topic DEF WriteStatus, InboxInv, InboxTypeOK, Placed, database, mission
<1>2. CASE UNCHANGED vars
  BY <1>2 DEF vars, mission, InboxInv, InboxTypeOK, Placed
<1> QED
  BY <1>1, <1>2, PodTypes, UserTypes DEF Next

\* They hold when the pods have not started.
LEMMA InboxInit == Init => InboxInv
  BY InboxAssumption, Topic
     DEF Init, InboxInv, InboxTypeOK, Placed, Consumer, NoRow, Launched, NoStates, States, Row,
         MissionStatuses, MissionSteps, RunStatuses, Steps

-----------------------------------------------------------------------------
(* What a consumer has behind it: what its group committed, and what it has *)
(* read since it started.                                                   *)
Behind(p, o) ==
    \/ o <= committed[p]
    \/ /\ pod[p].at # "stopped"
       /\ o < pod[p].offset \/ (o = pod[p].offset /\ pod[p].at = "polling")

Settled(p, o) == Handled(o) \/ o \in skipped \/ GaveUp(p, o)

AccountedFor(p) ==
    /\ \A o \in Offsets : Behind(p, o) => Settled(p, o)
    /\ pod[p].at \in {"broadcasting", "committing"} => Handled(pod[p].offset)
    /\ pod[p].at = "committing_dead" => GaveUp(p, pod[p].offset)

Accounted == \A p \in Pods : AccountedFor(p)

(* At most one transaction has inserted the receipt of an event, and as long *)
(* as it has not committed the event is not applied.                         *)
Exclusive ==
    \A p \in Pods : pod[p].at = "applying" =>
        /\ EventOf(p) \notin receipts
        /\ \A q \in Pods \ {p} : pod[q].at = "applying" => EventOf(q) # EventOf(p)

OnceInv == Accounted /\ Exclusive /\ AppliedOnce

\* Nothing that is settled is unsettled again.
Monotone ==
    /\ receipts \subseteq receipts' /\ skipped \subseteq skipped'
    /\ deadLetters \subseteq deadLetters' /\ refused \subseteq refused'

\* Receipts, dead letters and what was given up or started after only grow.
LEMMA SettledStays ==
  ASSUME [Next]_vars
  PROVE  Monotone
  BY DEF Next, vars, WriteStatus, UserStep, CancelMission, DeleteMission, ClaimMission,
     CompleteDeletion, PodStep, Failure, StartPod, Poll, ResolveAudience, ReadReceipt,
     RejectPoison, InsertReceipt, ApplyState, ApplyRefused, Broadcast, CommitOffset,
     PublishDeadLetter, StepFails, DeadLetterFails, CommitDeadFails, CrashPod, database, mission,
     threads, history, Monotone

\* A step of one consumer leaves the position of the others alone.
Waits(q) == pod'[q] = pod[q] /\ committed'[q] = committed[q]

\* That is so for every step of a consumer.
LEMMA OthersWait ==
  ASSUME InboxInv, NEW p \in Pods, PodStep(p) \/ Failure(p), NEW q \in Pods \ {p}
  PROVE  Waits(q)
  BY DEF InboxInv, InboxTypeOK, PodStep, Failure, StartPod, Poll, ResolveAudience, ReadReceipt,
     RejectPoison, InsertReceipt, ApplyState, ApplyRefused, Broadcast, CommitOffset,
     PublishDeadLetter, StepFails, DeadLetterFails, CommitDeadFails, CrashPod, GoTo, AttemptFailed,
     Waits

\* What the position of the consumer that steps becomes.
Position(p) ==
    LET now == pod[p] next == pod'[p] IN
    \/ /\ next.at = "stopped" /\ committed'[p] = committed[p]
    \/ /\ next.at = "polling" /\ next.offset = StartOffset(p) /\ now.at = "stopped"
       /\ committed'[p] = committed[p]
       /\ \A o \in Offsets : committed[p] = 0 /\ o <= written => o \in skipped'
    \/ /\ now.at = "polling" /\ next.at = "resolving" /\ next.offset = now.offset + 1
       /\ committed'[p] = committed[p]
    \/ /\ now.at \notin {"stopped", "polling"} /\ next.offset = now.offset
       /\ \/ /\ next.at \in {"resolving", "reading", "inserting", "applying", "dead_lettering"}
             /\ committed'[p] = committed[p]
          \/ /\ next.at = "resolving" \/ next.at = "dead_lettering"
             /\ now.at = "committing" /\ committed'[p] = now.offset
          \/ /\ next.at \in {"broadcasting", "committing"} /\ committed'[p] = committed[p]
             /\ now.at = "broadcasting" \/ EventOf(p) \in receipts'
          \/ /\ next.at = "polling" /\ committed'[p] \in {committed[p], now.offset}
             /\ now.at \in {"committing", "committing_dead"}
          \/ /\ next.at \in {"polling", "committing_dead"} /\ committed'[p] = committed[p]
             /\ <<p, now.offset>> \in deadLetters' \cup refused'

\* Every step of a consumer moves it in one of those ways.
LEMMA Positions ==
  ASSUME InboxInv, NEW p \in Pods, PodStep(p) \/ Failure(p)
  PROVE  Position(p)
<1>0. pod \in [Pods -> PodRows] /\ committed \in [Pods -> 0..Len(Log)]
  BY DEF InboxInv, InboxTypeOK, PodRows
<1>1. CASE StartPod(p)
  BY <1>0, <1>1 DEF StartPod, Position, Consumer
<1>2. CASE Poll(p)
  BY <1>0, <1>2 DEF Poll, Position, Consumer
<1>3. ASSUME AttemptFailed(p), pod[p].at \notin {"stopped", "polling"},
             \/ committed'[p] = committed[p]
             \/ pod[p].at = "committing" /\ committed'[p] = pod[p].offset
      PROVE  Position(p)
  BY <1>0, <1>3, AttemptType DEF Position
<1>4. CASE ResolveAudience(p) \/ RejectPoison(p)
  <2>1. CASE AttemptFailed(p)
    BY <1>3, <1>4, <2>1 DEF ResolveAudience, RejectPoison
  <2>2. CASE GoTo(p, "reading")
    BY <1>0, <1>4, <2>2, GoToType DEF ResolveAudience, RejectPoison, Position, Steps
  <2> QED
    BY <1>4, <2>1, <2>2 DEF ResolveAudience, RejectPoison
<1>5. CASE ReadReceipt(p)
  <2>1. /\ pod[p].at = "reading" /\ UNCHANGED <<committed, receipts>>
        /\ \/ GoTo(p, "broadcasting") /\ EventOf(p) \in receipts
           \/ GoTo(p, "inserting")
    BY <1>5 DEF ReadReceipt, database
  <2> QED
    BY <1>0, <2>1, GoToType DEF Position, Steps
<1>6. CASE InsertReceipt(p)
  <2>1. /\ pod[p].at = "inserting" /\ UNCHANGED <<committed, receipts>>
        /\ pod'[p].offset = pod[p].offset
        /\ \/ pod'[p].at = "broadcasting" /\ EventOf(p) \in receipts
           \/ pod'[p].at = "applying"
    BY <1>0, <1>6 DEF InsertReceipt, ReceiptConflict, database, PodRows
  <2> QED
    BY <2>1 DEF Position
<1>7. CASE ApplyState(p)
  <2>1. /\ pod[p].at = "applying" /\ committed' = committed /\ EventOf(p) \in receipts'
        /\ pod'[p].offset = pod[p].offset /\ pod'[p].at = "broadcasting"
    BY <1>0, <1>7 DEF ApplyState, Consumer
  <2> QED
    BY <2>1 DEF Position
<1>8. CASE ApplyRefused(p)
  BY <1>3, <1>8 DEF ApplyRefused
<1>9. CASE Broadcast(p)
  BY <1>0, <1>9, GoToType DEF Broadcast, Position, Steps
<1>10. CASE CommitOffset(p)
  <2>1. /\ pod[p].at \in {"committing", "committing_dead"} /\ committed'[p] = pod[p].offset
        /\ GoTo(p, "polling")
    BY <1>0, <1>10 DEF CommitOffset
  <2> QED
    BY <1>0, <2>1, GoToType DEF Position, Steps
<1>11. CASE PublishDeadLetter(p)
  BY <1>0, <1>11, GoToType DEF PublishDeadLetter, Position, Steps
<1>12. CASE StepFails(p)
  BY <1>0, <1>3, <1>12 DEF StepFails
<1>13. CASE DeadLetterFails(p)
  BY <1>0, <1>13, GoToType DEF DeadLetterFails, Position, Steps
<1>14. CASE CommitDeadFails(p)
  BY <1>0, <1>14, GoToType DEF CommitDeadFails, Position, Steps
<1>15. CASE CrashPod(p)
  BY <1>0, <1>15 DEF CrashPod, Position, Consumer
<1> QED
  BY <1>1, <1>2, <1>4, <1>5, <1>6, <1>7, <1>8, <1>9, <1>10, <1>11, <1>12, <1>13, <1>14, <1>15
     DEF PodStep, Failure

\* What a consumer leaves behind it is settled.
LEMMA AccountedStep ==
  ASSUME InboxInv, Accounted, [Next]_vars
  PROVE  Accounted'
<1> USE Topic
<1>0. /\ Monotone
      /\ \A p \in Pods, o \in Offsets : Settled(p, o) => Settled(p, o)'
      /\ \A o \in Offsets : Handled(o) => Handled(o)'
      /\ \A p \in Pods, o \in Offsets : GaveUp(p, o) => GaveUp(p, o)'
  BY SettledStays DEF Monotone, Settled, Handled, GaveUp
<1>1. ASSUME NEW p \in Pods, Waits(p)
      PROVE  AccountedFor(p)'
  <2>0. AccountedFor(p)
    BY DEF Accounted
  <2>1. \A o \in Offsets : Behind(p, o)' => Settled(p, o)'
    BY <1>0, <1>1, <2>0 DEF AccountedFor, Waits, Behind
  <2>2. pod[p].at \notin {"stopped", "polling"} => pod[p].offset \in Offsets
    BY DEF InboxInv, Placed
  <2>3. pod'[p].at \in {"broadcasting", "committing"} => Handled(pod[p].offset)'
    BY <1>0, <1>1, <2>0, <2>2 DEF AccountedFor, Waits, Handled
  <2>4. pod'[p].at = "committing_dead" => GaveUp(p, pod[p].offset)'
    BY <1>0, <1>1, <2>0, <2>2 DEF AccountedFor, Waits, GaveUp
  <2> QED
    BY <2>1, <2>3, <2>4 DEF AccountedFor
<1>2. ASSUME NEW p \in Pods, PodStep(p) \/ Failure(p)
      PROVE  AccountedFor(p)'
  <2>0. /\ AccountedFor(p) /\ Position(p)
        /\ pod[p].offset \in 0..Len(Log) /\ committed[p] \in 0..Len(Log)
        /\ pod[p].at \notin {"stopped", "polling"} => pod[p].offset \in Offsets
    BY <1>2, Positions DEF Accounted, InboxInv, Placed, InboxTypeOK
  <2>1. CASE pod'[p].at = "stopped" /\ committed'[p] = committed[p]
    BY <1>0, <2>0, <2>1 DEF AccountedFor, Behind
  <2>2. CASE /\ pod'[p].at = "polling" /\ pod'[p].offset = StartOffset(p) /\ pod[p].at = "stopped"
             /\ committed'[p] = committed[p]
             /\ \A o \in Offsets : committed[p] = 0 /\ o <= written => o \in skipped'
    <3>1. \A o \in Offsets : Behind(p, o)' => o <= committed[p] \/ o \in skipped'
      BY <2>0, <2>2 DEF Behind, StartOffset, InboxInv, InboxTypeOK
    <3> QED
      BY <1>0, <2>0, <2>2, <3>1 DEF AccountedFor, Behind, Settled
  <2>3. CASE /\ pod[p].at = "polling" /\ pod'[p].at = "resolving"
             /\ pod'[p].offset = pod[p].offset + 1 /\ committed'[p] = committed[p]
    <3>1. \A o \in Offsets : Behind(p, o)' => Behind(p, o)
      BY <2>0, <2>3 DEF Behind
    <3> QED
      BY <1>0, <2>0, <2>3, <3>1 DEF AccountedFor
  <2>4. CASE /\ pod[p].at \notin {"stopped", "polling"} /\ pod'[p].offset = pod[p].offset
             /\ pod'[p].at \in {"resolving", "reading", "inserting", "applying", "dead_lettering"}
             /\ committed'[p] = committed[p]
    <3>1. \A o \in Offsets : Behind(p, o)' => Behind(p, o)
      BY <2>0, <2>4 DEF Behind
    <3> QED
      BY <1>0, <2>0, <2>4, <3>1 DEF AccountedFor
  <2>5. CASE /\ pod[p].at = "committing" /\ committed'[p] = pod[p].offset
             /\ pod'[p].at \in {"resolving", "dead_lettering"} /\ pod'[p].offset = pod[p].offset
    <3>1. \A o \in Offsets : Behind(p, o)' => Behind(p, o) \/ o = pod[p].offset
      BY <2>0, <2>5 DEF Behind
    <3> QED
      BY <1>0, <2>0, <2>5, <3>1 DEF AccountedFor, Settled
  <2>6. CASE /\ pod[p].at \notin {"stopped", "polling"} /\ pod'[p].offset = pod[p].offset
             /\ pod'[p].at \in {"broadcasting", "committing"} /\ committed'[p] = committed[p]
             /\ pod[p].at = "broadcasting" \/ EventOf(p) \in receipts'
    <3>1. \A o \in Offsets : Behind(p, o)' => Behind(p, o)
      BY <2>0, <2>6 DEF Behind
    <3>2. Log[pod[p].offset] \in receipts'
      BY <1>0, <2>0, <2>6 DEF AccountedFor, Handled, EventOf, Monotone
    <3>3. \A o \in Offsets : Behind(p, o)' => Settled(p, o)'
      BY <1>0, <2>0, <3>1 DEF AccountedFor
    <3> QED
      BY <2>6, <3>2, <3>3 DEF AccountedFor, Handled
  <2>7. CASE /\ pod[p].at \in {"committing", "committing_dead"} /\ pod'[p].offset = pod[p].offset
             /\ pod'[p].at = "polling" /\ committed'[p] \in {committed[p], pod[p].offset}
    <3>1. \A o \in Offsets : Behind(p, o)' => Behind(p, o) \/ o = pod[p].offset
      BY <2>0, <2>7 DEF Behind
    <3> QED
      BY <1>0, <2>0, <2>7, <3>1 DEF AccountedFor, Settled
  <2>8. CASE /\ pod[p].at \notin {"stopped", "polling"} /\ pod'[p].offset = pod[p].offset
             /\ pod'[p].at \in {"polling", "committing_dead"} /\ committed'[p] = committed[p]
             /\ <<p, pod[p].offset>> \in deadLetters' \cup refused'
    <3>1. \A o \in Offsets : Behind(p, o)' => Behind(p, o) \/ o = pod[p].offset
      BY <2>0, <2>8 DEF Behind
    <3>2. GaveUp(p, pod[p].offset)'
      BY <2>8 DEF GaveUp
    <3>3. \A o \in Offsets : Behind(p, o)' => Settled(p, o)'
      BY <1>0, <2>0, <2>8, <3>1, <3>2 DEF AccountedFor, Settled, GaveUp
    <3> QED
      BY <2>8, <3>2, <3>3 DEF AccountedFor, GaveUp
  <2> QED
    BY <2>0, <2>1, <2>2, <2>3, <2>4, <2>5, <2>6, <2>7, <2>8 DEF Position
<1>3. CASE UNCHANGED <<pod, committed>>
  BY <1>1, <1>3 DEF Waits, Accounted
<1>4. ASSUME NEW p \in Pods, PodStep(p) \/ Failure(p)
      PROVE  Accounted'
  BY <1>1, <1>2, <1>4, OthersWait DEF Accounted
<1>5. WriteStatus \/ UserStep \/ UNCHANGED vars => UNCHANGED <<pod, committed>>
  BY DEF WriteStatus, UserStep, CancelMission, DeleteMission, ClaimMission, CompleteDeletion,
     threads, vars
<1> QED
  BY <1>3, <1>4, <1>5 DEF Next

\* The event of a message that is being applied enters the receipts.
LEMMA OnceStep ==
  ASSUME InboxInv, Exclusive, AppliedOnce, [Next]_vars
  PROVE  (Exclusive /\ AppliedOnce)'
<1> USE Topic, InboxAssumption
<1>0. pod \in [Pods -> PodRows] /\ applied \in Seq(Events)
  BY DEF InboxInv, InboxTypeOK, PodRows
<1>1. ASSUME NEW p \in Pods, ApplyState(p)
      PROVE  (Exclusive /\ AppliedOnce)'
  <2> DEFINE e == EventOf(p)
  <2>1. /\ e \notin receipts /\ receipts' = receipts \cup {e} /\ applied' = Append(applied, e)
        /\ e \in Events
        /\ pod'[p].at = "broadcasting" /\ \A q \in Pods \ {p} : pod'[q] = pod[q]
    BY <1>0, <1>1 DEF ApplyState, Exclusive, Consumer, InboxInv, Placed, EventOf
  <2>2. Exclusive'
    <3>1. \A q \in Pods : pod'[q].at = "applying" => q # p /\ EventOf(q)' = EventOf(q)
      BY <2>1 DEF EventOf
    <3>2. \A q \in Pods : q # p /\ pod[q].at = "applying" => EventOf(q) # e
      BY <1>1 DEF Exclusive, ApplyState
    <3> QED
      BY <2>1, <3>1, <3>2 DEF Exclusive
  <2>3. AppliedOnce'
    <3>1. /\ Len(applied') = Len(applied) + 1 /\ applied'[Len(applied) + 1] = e
          /\ DOMAIN applied' = 1..(Len(applied) + 1) /\ DOMAIN applied = 1..Len(applied)
          /\ \A i \in 1..Len(applied) : applied'[i] = applied[i]
          /\ Len(applied) \in Nat
      BY <1>0, <2>1
    <3>2. \A i \in DOMAIN applied : applied[i] # e
      BY <2>1 DEF AppliedOnce, Range
    <3>3. IsInjective(applied')
      BY <3>1, <3>2 DEF AppliedOnce, IsInjective
    <3>4. Range(applied') = Range(applied) \cup {e}
      BY <3>1 DEF Range
    <3> QED
      BY <2>1, <3>3, <3>4 DEF AppliedOnce
  <2> QED
    BY <2>2, <2>3
<1>2. ASSUME NEW p \in Pods, InsertReceipt(p)
      PROVE  (Exclusive /\ AppliedOnce)'
  <2>1. /\ UNCHANGED <<receipts, applied>> /\ ReceiptFree(p)
        /\ pod'[p].at = "applying" => EventOf(p) \notin receipts /\ pod'[p].offset = pod[p].offset
        /\ \A q \in Pods \ {p} : pod'[q] = pod[q]
    BY <1>0, <1>2 DEF InsertReceipt, ReceiptConflict, database, PodRows
  <2>2. AppliedOnce'
    BY <2>1 DEF AppliedOnce
  <2>3. Exclusive'
    BY <2>1 DEF Exclusive, ReceiptFree, EventOf
  <2> QED
    BY <2>2, <2>3
<1>3. ASSUME UNCHANGED <<receipts, applied>>,
             \A q \in Pods : pod'[q].at = "applying" => pod'[q] = pod[q]
      PROVE  (Exclusive /\ AppliedOnce)'
  BY <1>3 DEF Exclusive, AppliedOnce, EventOf
<1>4. ASSUME NEW p \in Pods, PodStep(p) \/ Failure(p), ~ApplyState(p), ~InsertReceipt(p)
      PROVE  (Exclusive /\ AppliedOnce)'
  <2>1. UNCHANGED <<receipts, applied>>
    BY <1>4 DEF PodStep, Failure, StartPod, Poll, ResolveAudience, ReadReceipt,
       RejectPoison, ApplyRefused, Broadcast, CommitOffset, PublishDeadLetter, StepFails,
       DeadLetterFails, CommitDeadFails, CrashPod, database
  <2>2. pod'[p].at # "applying"
    <3>1. CASE AttemptFailed(p)
      BY <1>0, <3>1, AttemptType
    <3>2. CASE \E step \in Steps \ {"applying"} : GoTo(p, step)
      BY <1>0, <3>2, GoToType
    <3>3. CASE StartPod(p) \/ Poll(p) \/ CrashPod(p)
      BY <1>0, <3>3 DEF StartPod, Poll, CrashPod, Consumer
    <3> QED
      BY <1>4, <3>1, <3>2, <3>3 DEF PodStep, Failure, ResolveAudience, ReadReceipt,
         RejectPoison, ApplyRefused, Broadcast, CommitOffset, PublishDeadLetter, StepFails,
         DeadLetterFails, CommitDeadFails, Steps
  <2>3. \A q \in Pods \ {p} : pod'[q] = pod[q]
    BY <1>4, OthersWait DEF Waits
  <2> QED
    BY <1>3, <2>1, <2>2, <2>3
<1>5. WriteStatus \/ UserStep \/ UNCHANGED vars => UNCHANGED <<receipts, applied, pod>>
  BY DEF WriteStatus, UserStep, CancelMission, DeleteMission, ClaimMission, CompleteDeletion,
     threads, vars, database
<1> QED
  BY <1>1, <1>2, <1>3, <1>4, <1>5 DEF Next

\* The three parts together.
LEMMA OnceInvariant == Spec => [](InboxInv /\ OnceInv)
<1>1. Init => InboxInv /\ OnceInv
  <2>1. ASSUME Init
        PROVE  OnceInv
    <3>1. /\ \A p \in Pods : pod[p].at = "stopped" /\ committed[p] = 0
          /\ applied = <<>> /\ receipts = {}
      BY <2>1 DEF Init, Consumer
    <3>2. Accounted
      BY <3>1, Topic DEF Accounted, AccountedFor, Behind
    <3>3. Exclusive /\ AppliedOnce
      BY <3>1 DEF Exclusive, AppliedOnce, IsInjective, Range
    <3> QED
      BY <3>2, <3>3 DEF OnceInv
  <2> QED
    BY <2>1, InboxInit
<1>2. InboxInv /\ OnceInv /\ [Next]_vars => (InboxInv /\ OnceInv)'
  BY InboxStep, AccountedStep, OnceStep DEF OnceInv
<1> QED
  BY <1>1, <1>2, PTL DEF Spec

(* The mission is changed once per event, however many pods read it, at the  *)
(* same time or again after a crash (process_inbox_transaction).             *)
THEOREM AppliedOnceCorrect == Spec => []AppliedOnce
<1>1. OnceInv => AppliedOnce
  BY DEF OnceInv
<1> QED
  BY <1>1, OnceInvariant, PTL

(* What is behind the offset a pod has committed was applied, or came before *)
(* the pod, or was given up (process_message).                               *)
THEOREM NothingSkippedCorrect == Spec => []NothingSkipped
<1>1. InboxInv /\ OnceInv => NothingSkipped
  BY DEF OnceInv, Accounted, AccountedFor, Behind, Settled, NothingSkipped
<1> QED
  BY <1>1, OnceInvariant, PTL

-----------------------------------------------------------------------------
(* Nobody applies an event that no handler accepts. *)
Accepted ==
    \A p \in Pods : pod[p].at \in {"reading", "inserting", "applying"} => EventOf(p) \notin Poison

(* As long as nothing that could be handled was passed over.                *)
NothingLost == \A o \in PassedOver : Log[o] \in Poison

(* Then the states that the one transaction has read are still current, and *)
(* so is the rest of a mission that no user touched.                        *)
Fresh ==
    user # "deleted" /\ NothingLost => \A p \in Pods : pod[p].at = "applying" =>
        /\ pod[p].row.states = row.states
        /\ user = "none" => pod[p].row = row

(* Each service state is the last that was applied.                         *)
Latest(s) ==
    \/ /\ row.states[s] = NoEvent
       /\ \A i \in DOMAIN applied : ServiceOf[applied[i]] # s
    \/ \E m \in DOMAIN applied :
         /\ ServiceOf[applied[m]] = s /\ row.states[s] = applied[m]
         /\ \A i \in DOMAIN applied : ServiceOf[applied[i]] = s => i <= m

Current ==
    user # "deleted" /\ NothingLost =>
        /\ \A s \in Services : Latest(s)
        /\ user = "none" /\ OverallStatus(row.states) \in TERMINAL_STATUSES
             => row.status = OverallStatus(row.states)

(* The events applied before an event are those before it in the topic.     *)
Ordered ==
    \A i \in DOMAIN applied, o, n \in FirstCopies :
        applied[i] = Log[n] /\ o < n =>
            (\E j \in 1..i : applied[j] = Log[o]) \/ o \in PassedOver

OrderInv == Accepted /\ Fresh /\ Current /\ Ordered

\* What was passed over is still passed over after a step.
LEMMA PassedOverGrows ==
  ASSUME Monotone
  PROVE  PassedOver \subseteq PassedOver' /\ (NothingLost' => NothingLost)
  BY DEF Monotone, PassedOver, GaveUp, NothingLost

\* An event that a consumer has behind it was applied or passed over.
LEMMA BehindSettled ==
  ASSUME InboxInv, OnceInv, NEW p \in Pods, pod[p].at = "applying", NEW o \in Offsets,
         o < pod[p].offset
  PROVE  Log[o] \in receipts \/ o \in PassedOver
  BY DEF OnceInv, Accounted, AccountedFor, Behind, Settled, Handled, PassedOver

\* One transaction at a time applies an event, then.
LEMMA OneApplies ==
  ASSUME InboxInv, OnceInv, Accepted, NothingLost, NEW p \in Pods, NEW q \in Pods \ {p},
         pod[p].at = "applying", pod[q].at = "applying"
  PROVE  FALSE
<1> USE Topic
<1>1. /\ pod[p].offset \in Offsets /\ pod[q].offset \in Offsets
      /\ pod[p].offset # pod[q].offset
      /\ Log[pod[p].offset] \notin receipts /\ Log[pod[q].offset] \notin receipts
      /\ Log[pod[p].offset] \notin Poison /\ Log[pod[q].offset] \notin Poison
  BY DEF InboxInv, Placed, OnceInv, Exclusive, EventOf, Accepted
<1>2. ~(pod[p].offset < pod[q].offset)
  BY <1>1, BehindSettled DEF NothingLost
<1>3. ~(pod[q].offset < pod[p].offset)
  BY <1>1, BehindSettled DEF NothingLost
<1> QED
  BY <1>1, <1>2, <1>3

\* What the users do to the row of the mission.
LEMMA UserRow ==
  ASSUME InboxInv, UserStep
  PROVE  /\ UNCHANGED threads /\ user' # "none"
         /\ user' # "deleted" => user # "deleted" /\ row'.states = row.states
  BY DEF InboxInv, InboxTypeOK, Row, UserStep, CancelMission, DeleteMission, ClaimMission,
     CompleteDeletion

\* The steps of a consumer other than the two that touch what it has read.
LEMMA QuietPod ==
  ASSUME InboxInv, NEW p \in Pods, PodStep(p) \/ Failure(p), ~ApplyState(p), ~InsertReceipt(p)
  PROVE  /\ UNCHANGED <<row, user, applied>>
         /\ pod'[p].at # "applying"
         /\ pod'[p].at \in {"reading", "inserting"} =>
               /\ pod'[p].offset = pod[p].offset
               /\ pod[p].at = "reading" \/ EventOf(p) \notin Poison
<1>0. pod \in [Pods -> PodRows]
  BY DEF InboxInv, InboxTypeOK, PodRows
<1>1. UNCHANGED <<row, user, applied>>
  BY DEF PodStep, Failure, StartPod, Poll, ResolveAudience, ReadReceipt,
     RejectPoison, ApplyRefused, Broadcast, CommitOffset, PublishDeadLetter, StepFails,
     DeadLetterFails, CommitDeadFails, CrashPod, database, mission
<1>2. CASE AttemptFailed(p)
  BY <1>0, <1>1, <1>2, AttemptType
<1>3. ASSUME NEW step \in Steps \ {"reading", "inserting", "applying"}, GoTo(p, step)
      PROVE  pod'[p].at = step
  BY <1>0, <1>3, GoToType
<1>4. CASE StartPod(p) \/ Poll(p) \/ CrashPod(p)
  BY <1>0, <1>1, <1>4 DEF StartPod, Poll, CrashPod, Consumer
<1>5. CASE ResolveAudience(p)
  BY <1>0, <1>1, <1>2, <1>5, GoToType DEF ResolveAudience, Steps
<1>6. CASE ReadReceipt(p)
  BY <1>0, <1>1, <1>6, GoToType DEF ReadReceipt, Steps
<1>7. CASE Broadcast(p) \/ CommitOffset(p) \/ PublishDeadLetter(p) \/ DeadLetterFails(p)
           \/ CommitDeadFails(p)
  BY <1>1, <1>3, <1>7 DEF Broadcast, CommitOffset, PublishDeadLetter, DeadLetterFails,
     CommitDeadFails, Steps
<1> QED
  BY <1>2, <1>4, <1>5, <1>6, <1>7 DEF PodStep, Failure, RejectPoison, ApplyRefused, StepFails

\* The poison events stop at the lookup of the audience.
LEMMA AcceptedStep ==
  ASSUME InboxInv, Accepted, [Next]_vars
  PROVE  Accepted'
<1>0. pod \in [Pods -> PodRows]
  BY DEF InboxInv, InboxTypeOK, PodRows
<1>1. ASSUME NEW p \in Pods, PodStep(p) \/ Failure(p)
      PROVE  Accepted'
  <2>1. \A q \in Pods \ {p} : pod'[q] = pod[q]
    BY <1>1, OthersWait DEF Waits
  <2>2. pod'[p].at \in {"reading", "inserting", "applying"} =>
           pod'[p].offset = pod[p].offset /\ EventOf(p) \notin Poison
    <3>1. CASE ApplyState(p)
      BY <1>0, <3>1 DEF ApplyState, Consumer
    <3>2. CASE InsertReceipt(p)
      BY <1>0, <3>2 DEF InsertReceipt, Accepted, PodRows
    <3>3. CASE ~ApplyState(p) /\ ~InsertReceipt(p)
      BY <1>1, <3>3, QuietPod DEF Accepted
    <3> QED
      BY <3>1, <3>2, <3>3
  <2> QED
    BY <2>1, <2>2 DEF Accepted, EventOf
<1>2. WriteStatus \/ UserStep \/ UNCHANGED vars => pod' = pod
  BY UserRow DEF WriteStatus, threads, vars
<1>3. CASE pod' = pod
  BY <1>3 DEF Accepted, EventOf
<1> QED
  BY <1>1, <1>2, <1>3 DEF Next

\* No other transaction writes the states between the read and the commit.
LEMMA FreshStep ==
  ASSUME InboxInv, OnceInv, Accepted, Fresh, [Next]_vars
  PROVE  Fresh'
<1> SUFFICES ASSUME user' # "deleted", NothingLost', NEW q \in Pods, pod'[q].at = "applying"
             PROVE  /\ pod'[q].row.states = row'.states
                    /\ user' = "none" => pod'[q].row = row'
  BY DEF Fresh
<1>0. pod \in [Pods -> PodRows] /\ NothingLost
  BY SettledStays, PassedOverGrows DEF InboxInv, InboxTypeOK, PodRows
<1>1. CASE WriteStatus \/ UNCHANGED vars
  BY <1>0, <1>1 DEF WriteStatus, vars, database, mission, Fresh
<1>2. CASE UserStep
  BY <1>0, <1>2, UserRow DEF threads, Fresh
<1>3. ASSUME NEW p \in Pods, ApplyState(p)
      PROVE  FALSE
  <2>1. q # p /\ pod[q].at = "applying" /\ pod[p].at = "applying"
    BY <1>0, <1>3 DEF ApplyState, Consumer
  <2> QED
    BY <1>0, <2>1, OneApplies
<1>4. ASSUME NEW p \in Pods, InsertReceipt(p)
      PROVE  /\ pod'[q].row.states = row'.states
             /\ user' = "none" => pod'[q].row = row'
  <2>1. UNCHANGED <<row, user>>
    BY <1>4 DEF InsertReceipt, database, mission
  <2>2. CASE q = p
    BY <1>0, <1>4, <2>1, <2>2 DEF InsertReceipt, PodRows
  <2>3. CASE q # p
    BY <1>0, <1>4, <2>1, <2>3 DEF InsertReceipt, Fresh
  <2> QED
    BY <2>2, <2>3
<1>5. ASSUME NEW p \in Pods, PodStep(p) \/ Failure(p), ~ApplyState(p), ~InsertReceipt(p)
      PROVE  /\ pod'[q].row.states = row'.states
             /\ user' = "none" => pod'[q].row = row'
  <2>1. q # p /\ pod'[q] = pod[q] /\ UNCHANGED <<row, user>>
    BY <1>5, QuietPod, OthersWait DEF Waits
  <2> QED
    BY <1>0, <2>1 DEF Fresh
<1> QED
  BY <1>1, <1>2, <1>3, <1>4, <1>5 DEF Next

\* What applying an event does to what was applied before.
LEMMA Appended ==
  ASSUME applied \in Seq(Events), NEW e \in Events, applied' = Append(applied, e)
  PROVE  /\ Len(applied) \in Nat /\ DOMAIN applied = 1..Len(applied)
         /\ DOMAIN applied' = 1..(Len(applied) + 1)
         /\ applied'[Len(applied) + 1] = e
         /\ \A i \in 1..Len(applied) : applied'[i] = applied[i]
  OBVIOUS

\* The states that are written back are the current ones and the applied event's.
LEMMA CurrentStep ==
  ASSUME InboxInv, Fresh, Current, [Next]_vars
  PROVE  Current'
<1> USE InboxAssumption, Topic
<1> SUFFICES ASSUME user' # "deleted", NothingLost'
             PROVE  /\ \A s \in Services : Latest(s)'
                    /\ user' = "none" /\ OverallStatus(row'.states) \in TERMINAL_STATUSES
                         => row'.status = OverallStatus(row'.states)
  BY DEF Current, OverallStatus
<1>0. NothingLost /\ applied \in Seq(Events) /\ pod \in [Pods -> PodRows] /\ row \in Row
  BY SettledStays, PassedOverGrows DEF InboxInv, InboxTypeOK, PodRows
<1>1. ASSUME UNCHANGED <<row, user, applied>>
      PROVE  /\ \A s \in Services : Latest(s)'
             /\ user' = "none" /\ OverallStatus(row'.states) \in TERMINAL_STATUSES
                  => row'.status = OverallStatus(row'.states)
  BY <1>0, <1>1 DEF Current, Latest
<1>2. CASE UserStep
  <2>1. user' # "none" /\ user # "deleted" /\ row'.states = row.states /\ applied' = applied
    BY <1>2, UserRow DEF threads
  <2> QED
    BY <1>0, <2>1 DEF Current, Latest
<1>3. ASSUME NEW p \in Pods, ApplyState(p)
      PROVE  /\ \A s \in Services : Latest(s)'
             /\ user' = "none" /\ OverallStatus(row'.states) \in TERMINAL_STATUSES
                  => row'.status = OverallStatus(row'.states)
  <2> DEFINE e == EventOf(p)
             read == pod[p].row
             new == Applied(e, read)
  <2>1. /\ user' = user /\ applied' = Append(applied, e) /\ e \in Events
        /\ row'.states = new.states /\ row'.status = Written(row.status, read.status, new.status)
    BY <1>3 DEF ApplyState, EventOf, InboxInv, Placed
  <2>2. /\ read.states = row.states
        /\ user = "none" => read = row
    BY <1>0, <1>3, <2>1 DEF Fresh, ApplyState
  <2>3. new.states = [row.states EXCEPT ![ServiceOf[e]] = e]
    BY <2>2 DEF Applied
  <2>4. ASSUME NEW s \in Services
        PROVE  Latest(s)'
    <3>1. CASE s = ServiceOf[e]
      <4>1. row'.states[s] = e
        BY <1>0, <2>1, <2>3, <3>1 DEF Row, States
      <4>2. /\ Len(applied) + 1 \in DOMAIN applied' /\ applied'[Len(applied) + 1] = e
            /\ \A i \in DOMAIN applied' : i <= Len(applied) + 1
        BY <1>0, <2>1, Appended
      <4> QED
        BY <3>1, <4>1, <4>2 DEF Latest
    <3>2. CASE s # ServiceOf[e]
      <4>1. row'.states[s] = row.states[s]
        BY <1>0, <2>1, <2>3, <3>2 DEF Row, States
      <4>2. Latest(s)
        BY <1>0, <2>1 DEF Current
      <4>3. \A i \in DOMAIN applied' : ServiceOf[applied'[i]] = s =>
               i \in DOMAIN applied /\ applied'[i] = applied[i]
        BY <1>0, <2>1, <3>2, Appended
      <4>4. \A i \in DOMAIN applied : i \in DOMAIN applied' /\ applied'[i] = applied[i]
        BY <1>0, <2>1, Appended
      <4> QED
        BY <4>1, <4>2, <4>3, <4>4 DEF Latest
    <3> QED
      BY <3>1, <3>2
  <2>5. user' = "none" /\ OverallStatus(row'.states) \in TERMINAL_STATUSES
          => row'.status = OverallStatus(row'.states)
    <3>1. new.status = StatusAfter(e, read.status, OverallStatus(new.states))
      BY DEF Applied
    <3>2. OverallStatus(new.states) \in TERMINAL_STATUSES => new.status = OverallStatus(new.states)
      BY <3>1 DEF StatusAfter
    <3>3. user = "none" => row'.status = new.status
      BY <2>1, <2>2 DEF Written
    <3> QED
      BY <2>1, <3>2, <3>3
  <2> QED
    BY <2>4, <2>5
<1>4. ASSUME NEW p \in Pods, PodStep(p) \/ Failure(p), ~ApplyState(p)
      PROVE  UNCHANGED <<row, user, applied>>
  <2>1. CASE InsertReceipt(p)
    BY <2>1 DEF InsertReceipt, database, mission
  <2> QED
    BY <1>4, <2>1, QuietPod
<1>5. WriteStatus \/ UNCHANGED vars => UNCHANGED <<row, user, applied>>
  BY DEF WriteStatus, vars, database, mission
<1> QED
  BY <1>1, <1>2, <1>3, <1>4, <1>5 DEF Next

\* An event is applied when those before it in the topic are settled.
LEMMA OrderedStep ==
  ASSUME InboxInv, OnceInv, Ordered, [Next]_vars
  PROVE  Ordered'
<1> USE InboxAssumption, Topic
<1>0. PassedOver \subseteq PassedOver' /\ applied \in Seq(Events)
  BY SettledStays, PassedOverGrows DEF InboxInv, InboxTypeOK
<1>1. ASSUME applied' = applied
      PROVE  Ordered'
  BY <1>0, <1>1 DEF Ordered
<1>2. ASSUME NEW p \in Pods, ApplyState(p)
      PROVE  Ordered'
  <2> DEFINE e == EventOf(p)
  <2>1. /\ applied' = Append(applied, e) /\ e \in Events /\ e = Log[pod[p].offset]
        /\ pod[p].at = "applying" /\ pod[p].offset \in Offsets
    BY <1>2 DEF ApplyState, EventOf, InboxInv, Placed
  <2>2. /\ Len(applied) \in Nat /\ DOMAIN applied = 1..Len(applied)
        /\ DOMAIN applied' = 1..(Len(applied) + 1) /\ applied'[Len(applied) + 1] = e
        /\ \A i \in 1..Len(applied) : applied'[i] = applied[i]
    BY <1>0, <2>1, Appended
  <2> SUFFICES ASSUME NEW i \in DOMAIN applied', NEW o \in FirstCopies, NEW n \in FirstCopies,
                      applied'[i] = Log[n], o < n
               PROVE  (\E j \in 1..i : applied'[j] = Log[o]) \/ o \in PassedOver'
    BY DEF Ordered
  <2>3. CASE i \in DOMAIN applied
    <3>1. (\E j \in 1..i : applied[j] = Log[o]) \/ o \in PassedOver
      BY <2>2, <2>3 DEF Ordered
    <3> QED
      BY <1>0, <2>2, <2>3, <3>1
  <2>4. CASE i = Len(applied) + 1
    <3>1. n <= pod[p].offset
      BY <2>1, <2>2, <2>4 DEF FirstCopies
    <3>2. Log[o] \in receipts \/ o \in PassedOver
      <4>1. o \in Offsets /\ o < pod[p].offset
        BY <2>1, <3>1 DEF FirstCopies
      <4> QED
        BY <2>1, <4>1, BehindSettled
    <3>3. Log[o] \in receipts => \E j \in 1..Len(applied) : applied[j] = Log[o]
      BY <2>2 DEF OnceInv, AppliedOnce, Range
    <3> QED
      BY <1>0, <2>2, <2>4, <3>2, <3>3
  <2> QED
    BY <2>2, <2>3, <2>4
<1>3. ASSUME ~\E p \in Pods : ApplyState(p)
      PROVE  applied' = applied
  BY <1>3 DEF Next, vars, WriteStatus, UserStep, CancelMission, DeleteMission, ClaimMission,
     CompleteDeletion, PodStep, Failure, StartPod, Poll, ResolveAudience, ReadReceipt,
     RejectPoison, InsertReceipt, ApplyRefused, Broadcast, CommitOffset,
     PublishDeadLetter, StepFails, DeadLetterFails, CommitDeadFails, CrashPod, database, threads
<1> QED
  BY <1>1, <1>2, <1>3

\* The elements of the first i places of a sequence.
LEMMA Prefix ==
  ASSUME NEW S, NEW seq \in Seq(S), NEW i \in 1..Len(seq)
  PROVE  Range(SubSeq(seq, 1, i)) = {seq[j] : j \in 1..i}
<1> DEFINE sub == SubSeq(seq, 1, i)
<1>1. /\ i \in Nat /\ Len(sub) = i /\ sub \in Seq(S)
      /\ \A j \in 1..i : sub[j] = seq[j]
  OBVIOUS
<1>2. DOMAIN sub = 1..i
  BY <1>1
<1>3. Range(sub) = {sub[j] : j \in DOMAIN sub}
  BY DEF Range
<1> HIDE DEF sub
<1> QED
  BY <1>1, <1>2, <1>3 DEF sub

\* The index SelectLastInSeq finds is the greatest, where there is one.
LEMMA LastIndex ==
  ASSUME applied \in Seq(Events), NEW s \in Services, Latest(s)
  PROVE  row.states[s] = IF LastState(s) = 0 THEN NoEvent ELSE applied[LastState(s)]
<1> DEFINE I == {i \in 1..Len(applied) : ServiceOf[applied[i]] = s}
<1>0. Len(applied) \in Nat /\ DOMAIN applied = 1..Len(applied)
  OBVIOUS
<1>1. LastState(s) = IF I # {} THEN Max(I) ELSE 0
  BY DEF LastState, SelectLastInSeq
<1>2. CASE I = {}
  BY <1>0, <1>1, <1>2 DEF Latest
<1>3. CASE I # {}
  <2>1. PICK m \in I : row.states[s] = applied[m] /\ \A i \in I : i <= m
    BY <1>0, <1>3 DEF Latest
  <2>2. Max(I) = m
    <3>1. /\ m \in I /\ \A y \in I : m >= y
      BY <1>0, <2>1
    <3>2. \A x \in I : (\A y \in I : x >= y) => x = m
      BY <1>0, <3>1
    <3> QED
      BY <3>1, <3>2 DEF Max
  <2> QED
    BY <1>0, <1>1, <1>3, <2>1, <2>2
<1> QED
  BY <1>2, <1>3

(* Status events are applied in the order of the topic, except around those  *)
(* that were passed over; and while none that could be handled is, each      *)
(* service state is the last that was applied, and an untouched mission has  *)
(* ended whenever they say so (apply_mission_state).                         *)
THEOREM StatusInOrderCorrect == Spec => []StatusInOrder
<1>1. Init => OrderInv
  <2>1. ASSUME Init
        PROVE  OrderInv
    <3>1. /\ \A p \in Pods : pod[p].at = "stopped"
          /\ applied = <<>> /\ row = Launched
      BY <2>1 DEF Init, Consumer
    <3>2. /\ \A s \in Services : row.states[s] = NoEvent
          /\ row.states = NoStates
      BY <3>1 DEF Launched, NoStates
    <3>3. OverallStatus(row.states) = "processing"
      BY <3>2, InboxAssumption DEF OverallStatus
    <3> QED
      BY <3>1, <3>2, <3>3 DEF OrderInv, Accepted, Fresh, Current, Latest, Ordered,
         TERMINAL_STATUSES
  <2> QED
    BY <2>1
<1>2. InboxInv /\ OnceInv /\ OrderInv /\ [Next]_vars => OrderInv'
  BY AcceptedStep, FreshStep, CurrentStep, OrderedStep DEF OrderInv
<1>3. InboxInv /\ OnceInv /\ OrderInv => StatusInOrder
  <2> SUFFICES ASSUME InboxInv, OnceInv, OrderInv
               PROVE  StatusInOrder
    OBVIOUS
  <2>0. applied \in Seq(Events)
    BY DEF InboxInv, InboxTypeOK
  <2>1. ASSUME NEW i \in DOMAIN applied, NEW o \in FirstCopies, NEW n \in FirstCopies,
               applied[i] = Log[n], o < n
        PROVE  Log[o] \in Range(SubSeq(applied, 1, i)) \/ o \in PassedOver
    <3>1. i \in 1..Len(applied)
      BY <2>0
    <3>2. Range(SubSeq(applied, 1, i)) = {applied[j] : j \in 1..i}
      BY <2>0, <3>1, Prefix
    <3> QED
      BY <2>1, <3>2 DEF OrderInv, Ordered
  <2>2. ASSUME user # "deleted", NothingLost
        PROVE  /\ \A s \in Services :
                     row.states[s] = IF LastState(s) = 0 THEN NoEvent ELSE applied[LastState(s)]
               /\ user = "none" /\ OverallStatus(row.states) \in TERMINAL_STATUSES
                    => row.status = OverallStatus(row.states)
    BY <2>0, <2>2, LastIndex DEF OrderInv, Current
  <2> QED
    BY <2>1, <2>2 DEF StatusInOrder, NothingLost
<1> QED
  BY <1>1, <1>2, <1>3, OnceInvariant, PTL DEF Spec

=============================================================================
