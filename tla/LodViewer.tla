----------------------------- MODULE LodViewer -----------------------------
(***************************************************************************)
(* The level-of-detail loop of the streaming viewer (gstile/               *)
(* playcanvas-backend.ts).  The camera selects a cut of the node tree; the *)
(* loop moves the resident cut towards it in groups of at most GroupLimit  *)
(* records (lod-transition.ts), keeps the tiles of the cut in one GPU      *)
(* arena (merged-arena.ts) and commits a group only when every tile of it  *)
(* has been fetched, verified and decoded.  Interactions, failed loads and *)
(* a failing assembly Worker come in between.                              *)
(*                                                                         *)
(* Abstracted: geometry (a camera is the cut it selects), the fetch of a   *)
(* tile (RangeScheduler), bytes and decoding.  A record of the arena       *)
(* texture is a triple: node, number, and whether its harmonics are there. *)
(***************************************************************************)
EXTENDS Integers, Sequences, FiniteSets, SequencesExt, FiniteSetsExt

CONSTANTS
    Order,              \* the node ids in the order of their sort
    Root, Parent,       \* the tree
    Records,            \* recordCount of the tile of each node
    Budget,             \* maximumResidentGaussians, and the capacity of the arena
    InitialBudget,      \* initialResidentGaussians
    GroupLimit,         \* 65536 records a group
    Streamed,           \* nodes whose pack has separate base and SH streams
    Cuts,               \* what cameras select, as sequences of nodes
    MaxInteractions, MaxFailures

Nodes == ToSet(Order)
NoTarget == [ids |-> <<>>, limit |-> 0]
NoSync == [limit |-> 0]

\* The elements of a sequence that are in S, in their order.
Those(s, S) == FoldLeft(LAMBDA kept, x : IF x \in S THEN Append(kept, x) ELSE kept, <<>>, s)

\* The nodes above a node: what holds its parent and the parents of what it holds.
Ancestors ==
    [n \in Nodes |->
        {a \in Nodes : \A S \in SUBSET Nodes :
            (n # Root => Parent[n] \in S) /\ (\A x \in S \ {Root} : Parent[x] \in S) => a \in S}]

Total == [S \in SUBSET Nodes |-> Cardinality(UNION {{n} \X (1 .. Records[n]) : n \in S})]
Sorted == [S \in SUBSET Nodes |-> Those(Order, S)]
Antichain(S) == \A n \in S : Ancestors[n] \intersect S = {}

ASSUME LodViewerAssumption ==
    /\ Order \in Seq(Nodes) /\ IsInjective(Order)
    /\ Root \in Nodes /\ Parent \in [Nodes \ {Root} -> Nodes]
    /\ \A n \in Nodes \ {Root} : Root \in Ancestors[n]
    /\ Records \in [Nodes -> Nat \ {0}] /\ Streamed \subseteq Nodes
    /\ Budget \in Nat /\ InitialBudget \in Nat /\ GroupLimit \in Nat
    /\ Records[Root] <= InitialBudget /\ InitialBudget <= Budget
    /\ Cuts \subseteq Seq(Nodes)
    /\ \A cut \in Cuts : Antichain(ToSet(cut)) /\ IsInjective(cut)
    /\ MaxInteractions \in Nat /\ MaxFailures \in Nat

VARIABLES
    bundle,         \* "new", "loading" (first cut), "ready", "failed", "disposed"
    moved,          \* an interaction came after chosen was selected (#lodTargetKey)
    rested,         \* the last interaction is more than 200 ms old
    chosen,         \* #cachedLodTarget and the budget it was selected for
    timer,          \* #lodUpdateTimer is set
    reschedule,     \* #lodReschedule
    sync,           \* the group being loaded (#lodSyncController)
    arena,          \* #mergedArena.slots in the order of the Map
    texture,        \* the records in the arena's texture
    baseOnly,       \* #baseOnlyNodes
    enabled,        \* the arena's entity is drawn
    assembler,      \* ~ #assemblyWorkerUnavailable
    failed,         \* the last group could not be loaded
    interactions, failures

camera == <<moved, rested, interactions>>
gpu == <<arena, texture, baseOnly>>
vars == <<bundle, camera, chosen, timer, reschedule, sync, gpu, enabled,
          assembler, failed, failures>>

Positions == 1 .. Budget
Ascending == [S \in SUBSET Positions |-> Those([p \in Positions |-> p], S)]
Blank == <<>>
Ids(slots) == [i \in DOMAIN slots |-> slots[i].id]
Resident == ToSet(Ids(arena))

-----------------------------------------------------------------------------
(* lod-transition.ts *)

\* One replacement of a group: it must fit the budget, and the group unless it
\* is the first.
Replace(group, removed, inserted, limit) ==
    LET cost == Total[ToSet(inserted)]
        used == Total[ToSet(group.cut)] - Total[removed] + cost IN
    IF used > limit \/ (group.added > 0 /\ group.added + cost > GroupLimit) THEN group
    ELSE [cut |-> Those(group.cut, Nodes \ removed) \o inserted,
          added |-> group.added + cost]

AboveTarget(target) == UNION {Ancestors[n] : n \in ToSet(target)}

RelevantTowardsTheTarget(n, target) == n \in ToSet(target) \union AboveTarget(target)

Relevant(n, target) ==
    n \in ToSet(target) \union AboveTarget(target) \/ Ancestors[n] \intersect ToSet(target) # {}

Coarsen(group, n, limit) ==
    IF ({n} \union Ancestors[n]) \intersect ToSet(group.cut) # {} THEN group
    ELSE Replace(group, {p \in ToSet(group.cut) : n \in Ancestors[p]}, <<n>>, limit)

Refine(group, n, target, limit) ==
    LET children == Sorted[{c \in Nodes \ {Root} : Parent[c] = n /\ Relevant(c, target)}]
        below == Those(target, {t \in Nodes : n \in Ancestors[t]})
        refined == Replace(group, {n}, children, limit)
    IN  IF n \notin AboveTarget(target) THEN group
        ELSE IF refined # group THEN refined ELSE Replace(group, {n}, below, limit)

Merged(start, target, limit) ==
    FoldLeft(LAMBDA groups, n : {Coarsen(g, n, limit) : g \in groups}, {start}, target)
Split(start, target, limit) ==
    FoldLeft(LAMBDA groups, n : {Refine(g, n, target, limit) : g \in groups}, {start}, start.cut)

\* nextLodCut: a scene without a cut, or with one above its budget, starts again
\* from the root; otherwise branches out of view leave first.
NextLodCut(current, target, limit) ==
    LET kept == [cut |-> Those(current, {n \in Nodes : Relevant(n, target)}), added |-> 0]
    IN  IF current = <<>> \/ Total[ToSet(current)] > limit THEN {{Root}}
        ELSE {ToSet(g.cut) : g \in UNION {Split(m, target, limit) : m \in Merged(kept, target, limit)}}

-----------------------------------------------------------------------------
(* merged-arena.ts.  A slot lists the positions of its node's records: the   *)
(* spans of the code, end to end.                                            *)

Occupied(slots) == UNION {ToSet(slots[i].at) : i \in DOMAIN slots}
FreeBehindTheUsed(slots) == Ascending[{p \in Positions : p > Total[ToSet(Ids(slots))]}]
Free(slots) == Ascending[Positions \ Occupied(slots)]
Held(slots, n) == CHOOSE slot \in ToSet(slots) : slot.id = n

\* The records of the nodes in front of the i-th.
Offset(nodes, i) == Total[{nodes[j] : j \in 1 .. i - 1}]

\* planMergedArenaSlots: nodes that stay keep their spans, the others take the
\* first free ones.
PlanSlots(slots, retained, added) ==
    LET kept == [i \in DOMAIN retained |-> Held(slots, retained[i])]
        Place(i) == SubSeq(Free(kept), Offset(added, i) + 1, Offset(added, i) + Records[added[i]])
    IN  kept \o [i \in DOMAIN added |-> [id |-> added[i], at |-> Place(i)]]

\* The staging resource: the loaded tiles one behind the other.
Staged(load, sh) ==
    LET Tile(q) == CHOOSE i \in DOMAIN load :
                      Offset(load, i) < q /\ q <= Offset(load, i) + Records[load[i]]
        Level(n) == IF n \in Streamed /\ ~sh THEN "base" ELSE "full"
    IN  [q \in 1 .. Total[ToSet(load)] |->
            <<load[Tile(q)], q - Offset(load, Tile(q)), Level(load[Tile(q)])>>]

\* #copyMergedArenaNode for every added node; the staging resource of the first
\* cut becomes the arena itself.
Written(s) ==
    LET staged == Staged(s.load, s.sh)
        Place(i) == Held(s.slots, s.load[i]).at
        Writers(p) == {i \in DOMAIN s.load : p \in ToSet(Place(i))}
        Copied(i, p) == staged[Offset(s.load, i) + (CHOOSE j \in DOMAIN Place(i) : Place(i)[j] = p)]
    IN  [p \in Positions |->
            IF s.rebuild THEN IF p \in DOMAIN staged THEN staged[p] ELSE Blank
            ELSE IF Writers(p) = {} THEN texture[p] ELSE Copied(Max(Writers(p)), p)]

-----------------------------------------------------------------------------
(* playcanvas-backend.ts *)

\* selectGsTileLod: some cut of the tree that fits the budget.
Selections(limit) == {cut \in Cuts : Total[ToSet(cut)] <= limit}

\* The base-only nodes of a cut whose harmonics are loaded next.
Upgrades(cut) ==
    LET Take(taken, n) ==
            IF n \notin baseOnly \/ taken.full THEN taken
            ELSE IF taken.ids # {} /\ Total[taken.ids \union {n}] > GroupLimit
                 THEN [taken EXCEPT !.full = TRUE]
                 ELSE [taken EXCEPT !.ids = @ \union {n}]
    IN  FoldLeft(Take, [ids |-> {}, full |-> FALSE], Sorted[cut]).ids

Group(cut, target, upgrades, limit) ==
    LET retained == Sorted[(cut \intersect Resident) \ upgrades]
        load == Sorted[cut \ (Resident \ upgrades)]
    IN  [limit |-> limit, complete |-> cut = ToSet(target),
         slots |-> PlanSlots(arena, retained, load), load |-> load,
         pending |-> ToSet(load), sh |-> upgrades # {}, rebuild |-> arena = <<>>,
         assembled |-> assembler /\ load # <<>>, failure |-> "none"]

\* #synchronizeLod with no group under way, up to its first await.
Synchronize(limit) ==
    \E target \in IF chosen.limit = limit /\ ~moved THEN {chosen.ids} ELSE Selections(limit) :
    \E cut \in NextLodCut(Ids(arena), target, limit) :
    \E upgrades \in {IF rested /\ cut = ToSet(target) THEN Upgrades(cut) ELSE {}} :
        /\ chosen' = [ids |-> target, limit |-> limit]
        /\ enabled' = (target # <<>>)
        /\ sync' = IF target = <<>> \/ (cut = Resident /\ upgrades = {}) THEN NoSync
                   ELSE Group(cut, target, upgrades, limit)
        /\ failed' = FALSE

\* What follows at once: the first cut, once shown, schedules an update as an
\* interaction does; a cut that still lacks harmonics is polled until it may
\* load them.
AfterSynchronize(timerBefore) ==
    LET shown == bundle \in {"new", "loading"} /\ sync' = NoSync IN
    /\ moved' = shown
    /\ rested' = (rested /\ ~shown)
    /\ timer' = (timerBefore \/ shown \/ (sync' = NoSync /\ enabled' /\ baseOnly # {}))
    /\ bundle' = IF shown THEN "ready" ELSE IF bundle = "new" THEN "loading" ELSE bundle

\* loadBundle selects the first cut for the smaller budget.
LoadBundle ==
    /\ bundle = "new"
    /\ Synchronize(InitialBudget) /\ AfterSynchronize(FALSE)
    /\ UNCHANGED <<interactions, reschedule, gpu, assembler, failures>>

\* setCamera, resize and the pointer: #scheduleLodUpdate(true).
Interact ==
    /\ bundle \in {"loading", "ready", "failed"}
    /\ interactions < MaxInteractions
    /\ interactions' = interactions + 1
    /\ moved' = TRUE /\ rested' = FALSE /\ timer' = TRUE
    /\ UNCHANGED <<bundle, chosen, reschedule, sync, gpu, enabled, assembler, failed, failures>>

Rest ==
    /\ ~rested
    /\ rested' = TRUE
    /\ UNCHANGED <<bundle, moved, interactions, chosen, timer, reschedule, sync, gpu,
                   enabled, assembler, failed, failures>>

TimerFires ==
    /\ timer
    /\ IF sync # NoSync
       THEN /\ reschedule' = TRUE /\ timer' = FALSE
            /\ UNCHANGED <<bundle, moved, rested, chosen, sync, enabled, failed>>
       ELSE Synchronize(Budget) /\ AfterSynchronize(FALSE) /\ UNCHANGED reschedule
    /\ UNCHANGED <<interactions, gpu, assembler, failures>>

TileLoaded(n) ==
    /\ sync # NoSync /\ n \in sync.pending
    /\ sync' = [sync EXCEPT !.pending = @ \ {n}]
    /\ UNCHANGED <<bundle, camera, chosen, timer, reschedule, gpu, enabled, assembler,
                   failed, failures>>

\* A tile that cannot be fetched, verified or decoded: the others are awaited.
TileFails(n) ==
    /\ sync # NoSync /\ n \in sync.pending
    /\ failures < MaxFailures
    /\ failures' = failures + 1
    /\ sync' = [sync EXCEPT !.pending = @ \ {n}, !.failure = "load"]
    /\ UNCHANGED <<bundle, camera, chosen, timer, reschedule, gpu, enabled, assembler, failed>>

\* The assembly Worker dies, times out or answers nonsense, up to its last
\* message: everything under way is aborted.
AssemblyFails ==
    /\ sync # NoSync /\ sync.assembled /\ sync.failure # "assembly"
    /\ failures < MaxFailures
    /\ failures' = failures + 1
    /\ sync' = [sync EXCEPT !.pending = {}, !.failure = "assembly"]
    /\ UNCHANGED <<bundle, camera, chosen, timer, reschedule, gpu, enabled, assembler, failed>>

AgainUntilComplete(complete, base) == ~complete
Again(complete, base) == ~complete \/ base # {}

\* The commit and the finally block: the new cut replaces the old one in one
\* task; #lodReschedule is assigned, whatever it was.
CommitCut ==
    /\ sync # NoSync /\ sync.pending = {} /\ sync.failure = "none"
    /\ arena' = sync.slots
    /\ texture' = Written(sync)
    /\ baseOnly' =
        LET ids == ToSet(Ids(sync.slots))
            loaded == ToSet(sync.load)
        IN  ((baseOnly \intersect ids) \ loaded)
                \union (IF sync.sh THEN {} ELSE loaded \intersect Streamed)
    /\ reschedule' = FALSE
    /\ timer' = (timer \/ Again(sync.complete, baseOnly') \/ bundle = "loading")
    /\ moved' = (moved \/ bundle = "loading")
    /\ rested' = (rested /\ bundle # "loading")
    /\ bundle' = "ready"
    /\ sync' = NoSync
    /\ UNCHANGED <<interactions, chosen, enabled, assembler, failed, failures>>

\* The last complete representation stays; only an interaction that was noted
\* meanwhile brings another attempt.
LoadFails ==
    /\ sync # NoSync /\ sync.pending = {} /\ sync.failure = "load"
    /\ sync' = NoSync
    /\ failed' = TRUE
    /\ timer' = (timer \/ reschedule)
    /\ reschedule' = FALSE
    /\ bundle' = IF bundle = "loading" THEN "failed" ELSE bundle
    /\ UNCHANGED <<camera, chosen, gpu, enabled, assembler, failures>>

\* shouldRetryGsTileAssembly: the same work again without the Worker.
RetryWithoutAssembly ==
    /\ sync # NoSync /\ sync.failure = "assembly"
    /\ assembler' = FALSE
    /\ reschedule' = FALSE
    /\ Synchronize(sync.limit) /\ AfterSynchronize(timer \/ reschedule)
    /\ UNCHANGED <<interactions, gpu, failures>>

\* dispose: timers, loads and GPU resources are given back.
Dispose ==
    /\ bundle # "disposed"
    /\ bundle' = "disposed"
    /\ sync' = NoSync /\ timer' = FALSE
    /\ chosen' = NoTarget /\ arena' = <<>> /\ baseOnly' = {}
    /\ texture' = [p \in Positions |-> Blank]
    /\ enabled' = FALSE /\ failed' = FALSE
    /\ UNCHANGED <<camera, reschedule, assembler, failures>>

-----------------------------------------------------------------------------
Init ==
    /\ bundle = "new" /\ chosen = NoTarget /\ sync = NoSync
    /\ moved = FALSE /\ rested = TRUE /\ interactions = 0
    /\ timer = FALSE /\ reschedule = FALSE
    /\ arena = <<>> /\ texture = [p \in Positions |-> Blank] /\ baseOnly = {}
    /\ enabled = FALSE /\ assembler = TRUE
    /\ failed = FALSE /\ failures = 0

Next ==
    \/ LoadBundle \/ Interact \/ Rest \/ TimerFires \/ Dispose
    \/ \E n \in Nodes : TileLoaded(n) \/ TileFails(n)
    \/ AssemblyFails \/ CommitCut \/ LoadFails \/ RetryWithoutAssembly

Spec == Init /\ [][Next]_vars

\* Timers fire, and a fetch is answered (RangeScheduler!VisibleAnswered).
FairSpec ==
    /\ Spec
    /\ WF_vars(LoadBundle) /\ WF_vars(Rest) /\ WF_vars(TimerFires)
    /\ WF_vars(\E n \in Nodes : TileLoaded(n))
    /\ WF_vars(CommitCut) /\ WF_vars(LoadFails) /\ WF_vars(RetryWithoutAssembly)

-----------------------------------------------------------------------------
LodTypeOK ==
    /\ bundle \in {"new", "loading", "ready", "failed", "disposed"}
    /\ {moved, rested, timer, reschedule, enabled, assembler, failed} \subseteq BOOLEAN
    /\ ToSet(chosen.ids) \subseteq Nodes /\ chosen.limit \in {0, InitialBudget, Budget}
    /\ Resident \subseteq Nodes /\ baseOnly \subseteq Nodes
    /\ sync = NoSync \/ sync.pending \subseteq Nodes
    /\ interactions \in 0 .. MaxInteractions /\ failures \in 0 .. MaxFailures

\* What the arena draws is the cut: no node beside its ancestor, each record of
\* each node once, at the place its slot names and with the harmonics the
\* viewer believes it has, however the free space was split and whatever was
\* copied over it since.
ArenaShowsTheCut ==
    /\ Antichain(Resident) /\ IsInjective(Ids(arena)) /\ baseOnly \subseteq Resident
    /\ \A x, y \in DOMAIN arena :
          x # y => ToSet(arena[x].at) \intersect ToSet(arena[y].at) = {}
    /\ \A x \in DOMAIN arena : LET slot == arena[x] IN
          /\ Len(slot.at) = Records[slot.id]
          /\ \A i \in DOMAIN slot.at :
                texture[slot.at[i]] =
                    <<slot.id, i, IF slot.id \in baseOnly THEN "base" ELSE "full">>

Leaves == {n \in Nodes : \A m \in Nodes \ {Root} : Parent[m] # n}
Shown(ids) == {leaf \in Leaves : ({leaf} \union Ancestors[leaf]) \intersect ids # {}}

\* No commit opens a hole: what the camera selects and the arena already shows,
\* at whatever detail, it shows afterwards, although the groups are bounded
\* and loads fail in between. ("Parents remain resident until all selected
\* children are decoded and uploaded.")
CoverageKept ==
    [][bundle' # "disposed" =>
        Shown(Resident) \intersect Shown(ToSet(chosen.ids)) \subseteq Shown(Resident')]_vars

\* Once the user lets go and no load fails any more, the loop comes to rest on
\* the whole of the cut it selected last, with all its harmonics: it neither
\* stops half way nor polls for ever.
ViewerSettles ==
    <>[](\/ bundle = "disposed" \/ failed
         \/ /\ sync = NoSync /\ ~timer
            /\ enabled => Resident = ToSet(chosen.ids) /\ baseOnly = {})

\* The cut it rests on is that of the last camera. Not so: a commit assigns
\* #lodReschedule, and so forgets an interaction noted while its group was
\* loading when the group is complete and lacks no harmonics.
LatestCameraSelected == <>[](bundle = "disposed" \/ failed \/ ~moved)
=============================================================================
