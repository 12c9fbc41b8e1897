-------------------------- MODULE ControlLeadership --------------------------
(***************************************************************************)
(* The election of the control worker whose background loops run.          *)
(*                                                                         *)
(* Leadership is a session-level advisory lock, held by one dedicated      *)
(* connection. The server gives it up as soon as that connection is gone,  *)
(* the holder notices at its next health check; it then stops its loops,   *)
(* waits for each of them at most two seconds, and competes again. A loop  *)
(* that is still in the middle of a batch outlives that wait.              *)
(***************************************************************************)
EXTENDS Naturals, FiniteSets

CONSTANTS
    Replicas,       \* control-worker processes
    Loops,          \* threads that may run a loop, in any process
    NoReplica,
    MaxFailures     \* bound on lost connections, terminations and crashes

ASSUME LeadershipAssumption ==
    /\ NoReplica \notin Replicas
    /\ MaxFailures \in Nat

VARIABLES
    leaderLock,     \* the session that holds the advisory lock, on the server
    main,           \* the main thread of each replica
    loop,           \* [replica, stop] of every loop thread
    failures

leadership == <<leaderLock, main, loop, failures>>

MainPhases == {"follower", "leading", "stopping", "terminating"}
NoLoop == [replica |-> NoReplica, stop |-> FALSE]
LoopWithSpentStopEvent(p) == [replica |-> p, stop |-> TRUE]
NewLoop(p) == [replica |-> p, stop |-> FALSE]

LeadershipTypeOK ==
    /\ leaderLock \in Replicas \cup {NoReplica}
    /\ main \in [Replicas -> MainPhases]
    /\ loop \in [Loops -> [replica : Replicas \cup {NoReplica}, stop : BOOLEAN]]
    /\ failures \in 0..MaxFailures

LeadershipInit ==
    /\ leaderLock = NoReplica
    /\ main = [p \in Replicas |-> "follower"]
    /\ loop = [t \in Loops |-> NoLoop]
    /\ failures = 0

Running(t) == loop[t].replica # NoReplica
LoopsOf(p) == {t \in Loops : loop[t].replica = p}

LoopsLeftRunning(p) == loop
LoopsStopped(p) ==
    [t \in Loops |-> IF loop[t].replica = p THEN [loop[t] EXCEPT !.stop = TRUE] ELSE loop[t]]
LoopsKilled(p) ==
    [t \in Loops |-> IF loop[t].replica = p THEN NoLoop ELSE loop[t]]

Fail == failures < MaxFailures /\ failures' = failures + 1

\* pg_try_advisory_lock succeeds, and the loops start with a stop event of
\* their own. A replica that finds the lock taken polls again.
LockAvailable == leaderLock = NoReplica

AcquireLeadership(p, t) ==
    /\ main[p] = "follower"
    /\ LockAvailable
    /\ ~Running(t)
    /\ leaderLock' = p
    /\ main' = [main EXCEPT ![p] = "leading"]
    /\ loop' = [loop EXCEPT ![t] = NewLoop(p)]
    /\ UNCHANGED failures

\* The server ends the session; the holder does not know yet.
LoseConnection(p) ==
    /\ leaderLock = p
    /\ Fail
    /\ leaderLock' = NoReplica
    /\ UNCHANGED <<main, loop>>

\* raise_if_unhealthy fails on the connection it holds.
NoticeLoss(p) ==
    /\ main[p] = "leading" /\ leaderLock # p
    /\ main' = [main EXCEPT ![p] = "stopping"]
    /\ loop' = LoopsStopped(p)
    /\ UNCHANGED <<leaderLock, failures>>

\* SIGTERM: the loops are stopped while the lock is still held.
RequestTermination(p) ==
    /\ main[p] = "leading"
    /\ Fail
    /\ main' = [main EXCEPT ![p] = "terminating"]
    /\ loop' = LoopsStopped(p)
    /\ UNCHANGED leaderLock

\* The joins are over, successful or not. A process that terminates takes its
\* threads with it, and another is started in its place.
ReleaseLeadership(p) ==
    /\ main[p] \in {"stopping", "terminating"}
    /\ leaderLock' = IF leaderLock = p THEN NoReplica ELSE leaderLock
    /\ main' = [main EXCEPT ![p] = "follower"]
    /\ loop' = IF main[p] = "terminating" THEN LoopsKilled(p) ELSE loop
    /\ UNCHANGED failures

CrashReplica(p) ==
    /\ Fail
    /\ leaderLock' = IF leaderLock = p THEN NoReplica ELSE leaderLock
    /\ main' = [main EXCEPT ![p] = "follower"]
    /\ loop' = LoopsKilled(p)

\* A loop looks at its stop event between two batches.
EndLoop(t) ==
    /\ Running(t) /\ loop[t].stop
    /\ loop' = [loop EXCEPT ![t] = NoLoop]
    /\ UNCHANGED <<leaderLock, main, failures>>

LeadershipFairness ==
    /\ \A p \in Replicas :
         /\ WF_leadership(NoticeLoss(p))
         /\ WF_leadership(ReleaseLeadership(p))
    /\ WF_leadership(\E p \in Replicas, t \in Loops : AcquireLeadership(p, t))

-----------------------------------------------------------------------------
(* Overlap is limited: a loop that still claims work belongs to a replica   *)
(* that takes itself for the leader, in its current term.                   *)
UnstoppedLoopsLead ==
    /\ \A t \in Loops : Running(t) /\ ~loop[t].stop => main[loop[t].replica] = "leading"
    /\ \A t, u \in Loops : /\ Running(t) /\ ~loop[t].stop
                           /\ ~loop[u].stop /\ loop[u].replica = loop[t].replica
                           => t = u

\* Failures being finite, some replica ends up leading for good, with a loop.
LeadershipRecovers ==
    <>[](\E p \in Replicas : /\ leaderLock = p /\ main[p] = "leading"
                             /\ \E t \in LoopsOf(p) : ~loop[t].stop)
=============================================================================
