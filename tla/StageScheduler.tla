--------------------------- MODULE StageScheduler ---------------------------
(***************************************************************************)
(* Which ready stage runs one scheduling cycle reserves: the owners take   *)
(* turns, each with its oldest run that fits, until a whole round adds     *)
(* nothing (shared/stage_scheduler.py). A run is a record of its mission,  *)
(* owner, stage, resource class and units; candidates come oldest first.   *)
(* A class or an owner with no limit of its own is not in the domain of    *)
(* limits.resource or limits.owner.                                        *)
(***************************************************************************)
EXTENDS StageContracts, Integers, SequencesExt, FiniteSetsExt, TLC

AllocatedUnits(runs) == MapThenSumSet(LAMBDA r : r.units, runs)

OwnerLimit(owner, limits) ==
    IF owner \in DOMAIN limits.owner THEN limits.owner[owner] ELSE limits.per_owner

AvailableUnits(run, allocated, limits) ==
    Min({limits.global - AllocatedUnits(allocated)} \cup
        {limits.resource[class] - AllocatedUnits({r \in allocated : r.class = class}) :
             class \in DOMAIN limits.resource \cap {run.class}})

\* What one more run may join; it gets the units that are left.
FitsBeside(run, allocated, limits) ==
    LET sameMission == {r \in allocated : r.mission = run.mission} IN
    /\ Cardinality({r \in allocated : r.owner = run.owner}) < OwnerLimit(run.owner, limits)
    /\ Cardinality(sameMission) < limits.per_mission
    /\ \A r \in sameMission : StagesAreIndependent(run.stage, r.stage)
    /\ AvailableUnits(run, allocated, limits) > 0

Clipped(run, allocated, limits) ==
    [run EXCEPT !.units = Min({@, AvailableUnits(run, allocated, limits)})]

\* The owner at the head of the order takes its first run that fits: the ones
\* before it rotate to the end of its queue.
Turn(cycle, active, limits) ==
    LET owner     == Head(cycle.order)
        queue     == cycle.queues[owner]
        allocated == active \cup ToSet(cycle.selected)
        first     == SelectInSeq(queue, LAMBDA r : FitsBeside(r, allocated, limits))
        rest      == IF first = 0 THEN queue
                     ELSE SubSeq(queue, first + 1, Len(queue)) \o SubSeq(queue, 1, first - 1)
    IN [order    |-> Tail(cycle.order) \o (IF rest = <<>> THEN <<>> ELSE <<owner>>),
        queues   |-> [cycle.queues EXCEPT ![owner] = rest],
        selected |-> IF first = 0 THEN cycle.selected
                     ELSE Append(cycle.selected, Clipped(queue[first], allocated, limits))]

\* Owners in the order of their oldest candidates.
FirstCycle(candidates) ==
    LET owners == [i \in DOMAIN candidates |-> candidates[i].owner] IN
    [order    |-> FoldLeft(LAMBDA s, o : IF o \in ToSet(s) THEN s ELSE Append(s, o), <<>>, owners),
     queues   |-> [o \in ToSet(owners) |-> SelectSeq(candidates, LAMBDA r : r.owner = o)],
     selected |-> <<>>]

\* A round that adds nothing changes nothing, so as many rounds as there are
\* candidates are enough.
SelectStageCandidates(candidates, active, limits) ==
    LET Full(cycle) ==
            AllocatedUnits(active \cup ToSet(cycle.selected)) >= limits.global
        Round(cycle) ==
            FoldLeft(LAMBDA c, o : Turn(c, active, limits), cycle, cycle.order)
        Rounds[n \in 0..Len(candidates)] ==
            IF n = 0 THEN FirstCycle(candidates)
            ELSE IF Full(Rounds[n - 1]) THEN Rounds[n - 1] ELSE Round(Rounds[n - 1])
    IN Rounds[Len(candidates)].selected
-----------------------------------------------------------------------------
(* What a selection promises, for given inputs. Runs are told apart by `id`. *)
Before(active, selected, i) == active \cup ToSet(SubSeq(selected, 1, i - 1))
Left(candidates, selected) ==
    {r \in ToSet(candidates) : \A s \in ToSet(selected) : s.id # r.id}

(* No envelope is exceeded by what was selected, and a run that was left out *)
(* would not have fitted (select_stage_candidates).                          *)
SelectionMaximal(candidates, active, limits) ==
    LET selected == SelectStageCandidates(candidates, active, limits)
        all      == active \cup ToSet(selected)
        Within(S, limit) == S \cap ToSet(selected) # {} => Cardinality(S) <= limit
    IN /\ selected # <<>> => AllocatedUnits(all) <= limits.global
       /\ \A class \in DOMAIN limits.resource :
             LET S == {r \in all : r.class = class} IN
             S \cap ToSet(selected) # {} => AllocatedUnits(S) <= limits.resource[class]
       /\ \A s \in ToSet(selected) :
             /\ s.units >= 1
             /\ Within({r \in all : r.owner = s.owner}, OwnerLimit(s.owner, limits))
             /\ Within({r \in all : r.mission = s.mission}, limits.per_mission)
             /\ \A r \in all \ {s} :
                   r.mission = s.mission => StagesAreIndependent(r.stage, s.stage)
       /\ \A r \in Left(candidates, selected) : ~FitsBeside(r, all, limits)

(* Whenever an owner has two runs more in the selection than another one,    *)
(* nothing of the other one's would have fitted; and of one owner, the older *)
(* candidate comes first, although the queues rotate.                        *)
SelectionFair(candidates, active, limits) ==
    LET selected == SelectStageCandidates(candidates, active, limits)
        Share(owner, i) == Cardinality({j \in 1..i : selected[j].owner = owner})
    IN \A i \in DOMAIN selected :
         /\ \A r \in Left(candidates, SubSeq(selected, 1, i)) :
               Share(selected[i].owner, i) >= Share(r.owner, i) + 2
                  => ~FitsBeside(r, Before(active, selected, i + 1), limits)
         /\ \A r \in Left(candidates, SubSeq(selected, 1, i)) :
               r.owner = selected[i].owner /\ r.id < selected[i].id
                  => ~FitsBeside(r, Before(active, selected, i), limits)
-----------------------------------------------------------------------------
(* Every queue of three ready runs of two owners, beside an idle and a busy  *)
(* cluster, under limits of which each one binds in some case.               *)
Ready(mission, stage, class, units) ==
    [mission |-> mission, owner |-> IF mission = 3 THEN "o2" ELSE "o1", stage |-> stage,
     class |-> class, units |-> units]
ReadyRuns ==
    {Ready(m, "rasterization", "gpu", 1) : m \in 1..3}
    \cup {Ready(m, "detection", "detection", 2) : m \in 2..3}
    \cup {Ready(m, "gaussian_viewer", "gpu", 1) : m \in 2..3}
Numbered(run, id) == [id |-> id] @@ run
Limits(global, owner, mission, resource, owners) ==
    [global |-> global, per_owner |-> owner, per_mission |-> mission,
     resource |-> resource, owner |-> owners]
SomeLimits ==
    {Limits(3, 1, 1, <<>>, "o1" :> 2), Limits(3, 2, 2, <<>>, <<>>),
     Limits(4, 3, 2, "gpu" :> 1, <<>>), Limits(4, 2, 2, "detection" :> 1, "o2" :> 1)}

ASSUME SelectionsMaximalAndFair ==
    \A a, b, c \in ReadyRuns, limits \in SomeLimits :
        \A active \in {{}, {Numbered(Ready(3, "detection", "detection", 2), 0)}} :
            LET candidates == <<Numbered(a, 1), Numbered(b, 2), Numbered(c, 3)>> IN
            /\ SelectionMaximal(candidates, active, limits)
            /\ SelectionFair(candidates, active, limits)
=============================================================================
