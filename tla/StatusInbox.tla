----------------------------- MODULE StatusInbox -----------------------------
(***************************************************************************)
(* Status events in the API pods. Every pod reads the whole status topic   *)
(* in a consumer group of its own, to show the events to the clients that  *)
(* are connected to it; the mission in the database is updated once per    *)
(* event, by whichever pod comes first: the receipt of the event and the   *)
(* update commit together, and receipts are unique.                        *)
(*                                                                         *)
(* A message is tried a bounded number of times, then published to the     *)
(* dead-letter topic, and its offset is committed last. The producers of   *)
(* status events are external and may write one event twice. The states of *)
(* the services of a mission are one JSON column, read and written whole;  *)
(* of the other columns a transaction writes those it changes. Users cancel*)
(* and delete the mission meanwhile. Runs of facade missions, attempts     *)
(* that are not the latest of their stage, and progress are left out.      *)
(***************************************************************************)
EXTENDS Naturals, Sequences, SequencesExt, FiniteSetsExt

CONSTANTS
    Pods,
    Log,                \* the events of the topic, by offset, copies included
    Services,           \* SERVICE_ORDER
    ServiceOf,          \* the service an event reports on
    StatusOf,           \* the status it reports
    Stages,             \* the stages of the mission's runs, in the order of the DAG
    StageOf,            \* the stage of the step it names
    Ending,             \* the events whose step is ERROR or CANCELLED
    Poison,             \* events that no handler accepts
    NoEvent,
    MaxAttempts,        \* RetryPolicy.max_attempts
    MaxFailures         \* bound on failed steps and crashes

Events == Range(Log)
Offsets == DOMAIN Log

ASSUME InboxAssumption ==
    /\ Log \in Seq(Events) /\ Services # {}
    /\ ServiceOf \in [Events -> Services]
    /\ StatusOf \in [Events -> {"processing", "success", "error", "cancelled"}]
    /\ StageOf \in [Events -> Range(Stages)] /\ Ending \subseteq Events
    /\ Poison \subseteq Events /\ NoEvent \notin Events
    /\ MaxAttempts \in Nat \ {0} /\ MaxFailures \in Nat

VARIABLES
    written,        \* how many messages are in the topic
    committed,      \* the offset each group resumes after, 0 when it has none
    pod,            \* [at, offset, attempts, row] of each consumer thread
    receipts,       \* the events whose receipt is completed
    row,            \* the mission: status, current_step, service_states, and the
                    \* status of the latest run of each stage
    user,           \* what users and the retention loop have done to the mission
    applied,        \* history: the events applied to the mission, in order
    skipped,        \* history: offsets a pod started after
    refused,        \* history: <<pod, offset>> the dead-letter topic refused
    deadLetters,    \* <<pod, offset>> of the messages in the dead-letter topic
    failures

vars == <<written, committed, pod, receipts, row, user, applied, skipped, refused,
          deadLetters, failures>>
mission == <<row, user>>
database == <<receipts, mission, applied>>
history == <<written, skipped, refused>>
threads == <<history, committed, pod, receipts, applied, deadLetters, failures>>

Steps == {"stopped", "polling", "resolving", "reading", "inserting", "applying", "broadcasting",
          "committing", "dead_lettering", "committing_dead"}
States == [Services -> Events \cup {NoEvent}]
NoStates == [s \in Services |-> NoEvent]

TERMINAL_STATUSES == {"success", "error", "cancelled"}
MissionStatuses == TERMINAL_STATUSES \cup {"absent", "pending", "processing", "deleting"}
MissionSteps == {"none", "reported", "CANCELLATION_REQUESTED", "DELETION_REQUESTED",
                 "DELETION_DRAINED"}
TerminalRuns == {"succeeded", "failed", "cancelled"}
RunStatuses == TerminalRuns \cup {"none", "blocked", "queued", "running"}

Row == [status : MissionStatuses, step : MissionSteps, states : States,
        runs : [DOMAIN Stages -> RunStatuses]]
NoRow == [status |-> "absent", step |-> "none", states |-> NoStates,
          runs |-> [i \in DOMAIN Stages |-> "none"]]
Launched == [status |-> "pending", step |-> "none", states |-> NoStates,
             runs |-> [i \in DOMAIN Stages |-> IF i = 1 THEN "queued" ELSE "blocked"]]

InboxTypeOK ==
    /\ written \in 0..Len(Log)
    /\ committed \in [Pods -> 0..Len(Log)]
    /\ pod \in [Pods -> [at : Steps, offset : 0..Len(Log), attempts : 0..MaxAttempts,
                         row : Row]]
    /\ receipts \subseteq Events
    /\ row \in Row
    /\ user \in {"none", "cancelled", "requested", "claimed", "deleted"}
    /\ applied \in Seq(Events)
    /\ skipped \subseteq Offsets
    /\ refused \subseteq Pods \X Offsets
    /\ deadLetters \subseteq Pods \X Offsets
    /\ failures \in 0..MaxFailures

Consumer(at, offset, attempts) ==
    [at |-> at, offset |-> offset, attempts |-> attempts, row |-> NoRow]
EventOf(p) == Log[pod[p].offset]

Init ==
    /\ written = 0
    /\ committed = [p \in Pods |-> 0]
    /\ pod = [p \in Pods |-> Consumer("stopped", 0, 0)]
    /\ receipts = {} /\ row = Launched /\ user = "none"
    /\ applied = <<>> /\ skipped = {} /\ refused = {}
    /\ deadLetters = {}
    /\ failures = 0

Fail == failures < MaxFailures /\ failures' = failures + 1
GoTo(p, step) == pod' = [pod EXCEPT ![p].at = step]

WriteStatus ==
    /\ written < Len(Log)
    /\ written' = written + 1
    /\ UNCHANGED <<committed, pod, database, skipped, refused, deadLetters, failures>>

\* A group with no committed offset starts at the end of the topic.
ResumePastNext(p) == IF committed[p] > 0 THEN committed[p] + 1 ELSE written
StartOffset(p) == IF committed[p] > 0 THEN committed[p] ELSE written

StartPod(p) ==
    /\ pod[p].at = "stopped"
    /\ pod' = [pod EXCEPT ![p] = Consumer("polling", StartOffset(p), 0)]
    /\ skipped' = skipped \cup {o \in Offsets : committed[p] = 0 /\ o <= written}
    /\ UNCHANGED <<written, committed, refused, database, deadLetters, failures>>

Poll(p) ==
    /\ pod[p].at = "polling"
    /\ pod[p].offset < written
    /\ pod' = [pod EXCEPT ![p] = Consumer("resolving", @.offset + 1, 1)]
    /\ UNCHANGED <<history, committed, database, deadLetters, failures>>

DroppedAfterAttempts == "committing_dead"
ThreadEnds == "stopped"
AfterLastAttempt == "dead_lettering"
TriedOnceMore(attempts) == attempts > MaxAttempts
Exhausted(attempts) == attempts >= MaxAttempts

AttemptFailed(p) ==
    pod' = [pod EXCEPT ![p] =
              IF Exhausted(@.attempts)
              THEN Consumer(AfterLastAttempt, @.offset, @.attempts)
              ELSE Consumer("resolving", @.offset, @.attempts + 1)]

\* The audience of the event is looked up in a transaction of its own: an event
\* of a mission that is gone has none.
ResolveAudience(p) ==
    /\ pod[p].at = "resolving"
    /\ EventOf(p) \notin Poison
    /\ IF row.status = "absent" THEN AttemptFailed(p) ELSE GoTo(p, "reading")
    /\ UNCHANGED <<history, committed, database, deadLetters, failures>>

\* The transaction looks for a completed receipt first.
ReadReceipt(p) ==
    /\ pod[p].at = "reading"
    /\ GoTo(p, IF EventOf(p) \in receipts THEN "broadcasting" ELSE "inserting")
    /\ UNCHANGED <<history, committed, database, deadLetters, failures>>

RejectPoison(p) ==
    /\ pod[p].at = "resolving"
    /\ EventOf(p) \in Poison
    /\ AttemptFailed(p)
    /\ UNCHANGED <<history, committed, database, deadLetters, failures>>

\* The receipts are unique: an insertion waits for the transaction that has
\* inserted the same receipt, and conflicts when that one has committed.
ConflictUnnoticed(p) == FALSE
ReceiptConflict(p) == EventOf(p) \in receipts
ReceiptFree(p) ==
    \A q \in Pods \ {p} : pod[q].at = "applying" => EventOf(q) # EventOf(p)

InsertReceipt(p) ==
    /\ pod[p].at = "inserting"
    /\ ReceiptFree(p)
    /\ pod' = [pod EXCEPT ![p] = IF ReceiptConflict(p)
                                 THEN [@ EXCEPT !.at = "broadcasting"]
                                 ELSE [@ EXCEPT !.at = "applying", !.row = row]]
    /\ UNCHANGED <<history, committed, database, deadLetters, failures>>

\* compute_overall_status
OverallStatus(states) ==
    LET Reported(status) == {s \in Services : states[s] # NoEvent /\ StatusOf[states[s]] = status}
    IN CASE Reported("error") # {}          -> "error"
         [] Reported("error") = {} /\ Reported("cancelled") # {} -> "cancelled"
         [] Reported("success") = Services  -> "success"
         [] OTHER                           -> "processing"

Resumes(e, old) == \/ old \notin TERMINAL_STATUSES
                   \/ old = "error" /\ StatusOf[e] = "processing"

StatusAfter(e, old, overall) ==
    IF overall \in TERMINAL_STATUSES THEN overall
    ELSE IF Resumes(e, old) THEN "processing" ELSE old

\* project_status_to_stage_run: the runs of the stages before the one reported
\* are taken to have succeeded; the end of a mission goes to its last active run.
Projected(e, runs) ==
    LET named  == CHOOSE i \in DOMAIN Stages : Stages[i] = StageOf[e]
        active == {i \in DOMAIN Stages : runs[i] \in {"queued", "running"}}
        target == IF e \in Ending /\ StatusOf[e] \in {"error", "cancelled"} /\ active # {}
                  THEN Max(active) ELSE named
        status == CASE StatusOf[e] = "success" -> "succeeded" [] StatusOf[e] = "error" -> "failed"
                    [] StatusOf[e] = "cancelled" -> "cancelled" [] OTHER -> "running"
    IN IF runs[target] = "none" THEN runs
       ELSE [i \in DOMAIN Stages |-> IF i < target /\ runs[i] \notin TerminalRuns \cup {"none"}
                                     THEN "succeeded"
                                     ELSE IF i = target THEN status ELSE runs[i]]

Applied(e, old) ==
    LET states == [old.states EXCEPT ![ServiceOf[e]] = e] IN
    [status |-> StatusAfter(e, old.status, OverallStatus(states)), step |-> "reported",
     states |-> states, runs |-> Projected(e, old.runs)]

\* The commit writes the columns that differ from what was read.
Written(now, read, new) == IF new = read THEN now ELSE new

\* apply_mission_state and the commit: the column of the service states goes
\* back with one more state than was read. A mission that is missing is created.
ApplyState(p) ==
    LET read == pod[p].row
        new  == Applied(EventOf(p), read)
    IN
    /\ pod[p].at = "applying"
    /\ (read.status = "absent") = (row.status = "absent")
    /\ receipts' = receipts \cup {EventOf(p)}
    /\ row' = [status |-> Written(row.status, read.status, new.status),
               step   |-> Written(row.step, read.step, new.step),
               states |-> new.states,
               runs   |-> [i \in DOMAIN Stages |->
                             Written(row.runs[i], read.runs[i], new.runs[i])]]
    /\ applied' = Append(applied, EventOf(p))
    /\ pod' = [pod EXCEPT ![p] = Consumer("broadcasting", @.offset, @.attempts)]
    /\ UNCHANGED <<history, user, committed, deadLetters, failures>>

\* The mission was deleted, or created by another pod, since it was looked for.
ApplyRefused(p) ==
    /\ pod[p].at = "applying"
    /\ (pod[p].row.status = "absent") # (row.status = "absent")
    /\ AttemptFailed(p)
    /\ UNCHANGED <<history, committed, database, deadLetters, failures>>

Broadcast(p) ==
    /\ pod[p].at = "broadcasting"
    /\ GoTo(p, "committing")
    /\ UNCHANGED <<history, committed, database, deadLetters, failures>>

CommitOffset(p) ==
    /\ pod[p].at \in {"committing", "committing_dead"}
    /\ committed' = [committed EXCEPT ![p] = pod[p].offset]
    /\ GoTo(p, "polling")
    /\ UNCHANGED <<history, database, deadLetters, failures>>

\* The database, the broadcast to the clients or the commit of the offset
\* fails; the broker may have recorded an offset whose reply was lost.
StepFails(p) ==
    /\ pod[p].at \in {"resolving", "reading", "inserting", "applying", "broadcasting", "committing"}
    /\ Fail
    /\ AttemptFailed(p)
    /\ \/ UNCHANGED committed
       \/ /\ pod[p].at = "committing"
          /\ committed' = [committed EXCEPT ![p] = pod[p].offset]
    /\ UNCHANGED <<history, database, deadLetters>>

\* The exception leaves process_message; the loop logs it and polls the next
\* message, while the consumer's position is already past this one.
DeadLetterFails(p) ==
    /\ pod[p].at = "dead_lettering"
    /\ Fail
    /\ refused' = refused \cup {<<p, pod[p].offset>>}
    /\ GoTo(p, "polling")
    /\ \/ UNCHANGED deadLetters
       \/ deadLetters' = deadLetters \cup {<<p, pod[p].offset>>}     \* confirmed too late
    /\ UNCHANGED <<written, skipped, committed, database>>

PublishDeadLetter(p) ==
    /\ pod[p].at = "dead_lettering"
    /\ deadLetters' = deadLetters \cup {<<p, pod[p].offset>>}
    /\ GoTo(p, "committing_dead")
    /\ UNCHANGED <<history, committed, database, failures>>

CommitDeadFails(p) ==
    /\ pod[p].at = "committing_dead"
    /\ Fail
    /\ GoTo(p, "polling")
    /\ UNCHANGED <<history, committed, database, deadLetters>>

CrashPod(p) ==
    /\ pod[p].at # "stopped"
    /\ Fail
    /\ pod' = [pod EXCEPT ![p] = Consumer("stopped", 0, 0)]
    /\ UNCHANGED <<history, committed, database, deadLetters>>

(* The API and the retention loop, as far as they write the mission's row. *)
CancelMission ==
    /\ user = "none"
    /\ user' = "cancelled"
    /\ row' = [row EXCEPT !.status = "cancelled", !.step = "CANCELLATION_REQUESTED"]
    /\ UNCHANGED threads

DeleteMission ==
    /\ user \in {"none", "cancelled"}
    /\ user' = "requested"
    /\ row' = [row EXCEPT !.status = "cancelled", !.step = "DELETION_REQUESTED",
                          !.runs = [i \in DOMAIN Stages |->
                                      IF @[i] \in {"queued", "running"} THEN "cancelled" ELSE @[i]]]
    /\ UNCHANGED threads

ClaimMission ==
    /\ user = "requested"
    /\ row.step = "DELETION_REQUESTED" \/ row.status = "deleting"
    /\ \A i \in DOMAIN Stages : row.runs[i] \notin {"queued", "running"}
    /\ user' = "claimed"
    /\ row' = [row EXCEPT !.status = "deleting", !.step = "DELETION_DRAINED"]
    /\ UNCHANGED threads

CompleteDeletion ==
    /\ user = "claimed"
    /\ IF row.status = "deleting" THEN user' = "deleted" /\ row' = NoRow
       ELSE user' = "requested" /\ UNCHANGED row
    /\ UNCHANGED threads

UserStep == CancelMission \/ DeleteMission \/ ClaimMission \/ CompleteDeletion

PodStep(p) ==
    \/ StartPod(p) \/ Poll(p) \/ ResolveAudience(p) \/ ReadReceipt(p) \/ RejectPoison(p)
    \/ InsertReceipt(p) \/ ApplyState(p) \/ ApplyRefused(p) \/ Broadcast(p)
    \/ CommitOffset(p) \/ PublishDeadLetter(p)
Failure(p) == StepFails(p) \/ DeadLetterFails(p) \/ CommitDeadFails(p) \/ CrashPod(p)

Next == WriteStatus \/ UserStep \/ \E p \in Pods : PodStep(p) \/ Failure(p)

Spec == Init /\ [][Next]_vars

\* A consumer thread runs as long as its pod, and pods are restarted.
FairSpec == Spec /\ \A p \in Pods : WF_vars(PodStep(p))
-----------------------------------------------------------------------------
Handled(o) == Log[o] \in receipts

(* The status of a mission is changed once per event, however many pods read *)
(* it, at the same time or again after a crash (process_inbox_transaction).  *)
AppliedOnce == IsInjective(applied) /\ Range(applied) = receipts

(* What is behind the committed offset of a pod was applied, or came before  *)
(* the pod, or went to the dead-letter topic, which may have refused it      *)
(* (process_message).                                                        *)
GaveUp(p, o) == <<p, o>> \in deadLetters \cup refused

NothingSkipped ==
    \A p \in Pods, o \in Offsets :
        o <= committed[p] => Handled(o) \/ o \in skipped \/ GaveUp(p, o)

(* Status events are applied in the order of the topic, except around those *)
(* that some pod started after or gave up; and as long as none that could be *)
(* handled is among these, and the mission is there, no service state is     *)
(* lost: each one is the last that was applied, and a mission nobody touched *)
(* has ended whenever they say so (apply_mission_state).                     *)
PassedOver == skipped \cup {o \in Offsets : \E p \in Pods : GaveUp(p, o)}
FirstCopies == {o \in Offsets : \A i \in 1..(o - 1) : Log[i] # Log[o]}
LastState(s) == SelectLastInSeq(applied, LAMBDA e : ServiceOf[e] = s)

StatusInOrder ==
    /\ \A i \in DOMAIN applied, o, n \in FirstCopies :
         applied[i] = Log[n] /\ o < n => \/ Log[o] \in Range(SubSeq(applied, 1, i))
                                        \/ o \in PassedOver
    /\ user # "deleted" /\ (\A o \in PassedOver : Log[o] \in Poison) =>
         /\ \A s \in Services :
               row.states[s] = IF LastState(s) = 0 THEN NoEvent ELSE applied[LastState(s)]
         /\ user = "none" /\ OverallStatus(row.states) \in TERMINAL_STATUSES
              => row.status = OverallStatus(row.states)

(* Every event of the topic ends up applied or given up, whichever pods      *)
(* crashed, unless a pod started after it.                                   *)
StatusSettles ==
    \A o \in Offsets :
        written >= o ~> Handled(o) \/ o \in PassedOver

(* A mission whose deletion was requested is deleted, and does not come back. *)
(* Not so: a status event that arrives late writes over the step and the      *)
(* status by which the retention loop finds the mission; and one that looked  *)
(* the mission up before it was deleted creates it again.                     *)
DeletionStands ==
    /\ user = "requested" => row.step = "DELETION_REQUESTED" \/ row.status = "deleting"
    /\ user = "deleted" => row.status = "absent"
=============================================================================
