--------------------------- MODULE RangeScheduler ---------------------------
(***************************************************************************)
(* The fetching of tile ranges in the viewer (gstile/range-source.ts and   *)
(* memory-range-cache.ts).  Visible tiles and the prefetched halo share    *)
(* one request per range.  A request reads the disk cache, then the        *)
(* network, each behind a bounded pool; it retries what may pass and falls *)
(* back from zstd to raw bytes.  When its last consumer has gone it is     *)
(* aborted after a grace period.                                           *)
(*                                                                         *)
(* Consumers come and go for ever.  A continuation that runs in the same   *)
(* task is part of its action.  Abstracted: bytes, the length and header   *)
(* checks of a response (an answer is good, may pass on a retry, or is     *)
(* final), whether the disk holds a range, and statistics.                 *)
(***************************************************************************)
EXTENDS Integers, Sequences, FiniteSets, SequencesExt, FiniteSetsExt

CONSTANTS
    Keys,               \* ranges of immutable objects
    Visible, Halo,      \* consumers: each awaits at most one range
    Zstd,               \* ranges with a compressed transport and a raw fallback
    Size,               \* byteLength of each range
    MemoryBytes,        \* maximumCacheBytes
    DiskSlots, NetSlots,
    MaxRetries          \* MAXIMUM_RANGE_RETRIES

ASSUME RangeAssumption ==
    /\ DiskSlots \in Nat \ {0} /\ NetSlots \in Nat \ {0} /\ MaxRetries \in Nat
    /\ Size \in [Keys -> Nat] /\ MemoryBytes \in Nat
    /\ Visible \intersect Halo = {} /\ Zstd \subseteq Keys

VARIABLES
    request,    \* #inFlight: where the request of each range has got to
    awaited,    \* the range each consumer awaits
    disk, net,  \* the pools: active and entries
    probation, protected,   \* the memory cache, oldest first
    prefetched  \* #prefetchedMemory: predictions nobody has asked for yet

pools == <<disk, net>>
memory == <<probation, protected, prefetched>>
vars == <<request, awaited, pools, memory>>

Consumers == Visible \union Halo
Nothing == "nothing"
NoRequest == [at |-> "none"]
PriorityOf(c) == IF c \in Visible THEN "critical" ELSE "prefetch"
ConsumersOf(k) == {c \in Consumers : awaited[c] = k}

-----------------------------------------------------------------------------
(* memory-range-cache.ts *)

\* The bytes of the listed ranges, each byte a pair.
Content(keys) == UNION {{k} \X (1 .. Size[k]) : k \in ToSet(keys)}
Bytes(keys) == Cardinality(Content(keys))
Without(keys, k) == RemoveFirst(keys, k)
Cached(k) == k \in ToSet(probation) \union ToSet(protected)

\* How many of the oldest entries must go for the others to fit.
Surplus(keys, limit) ==
    Min({n \in 0 .. Len(keys) : Bytes(SubSeq(keys, n + 1, Len(keys))) <= limit})

\* #protect: what no longer fits three quarters of the cache becomes evictable.
Protect(prob, prot, k) ==
    LET keys == Append(Without(prot, k), k)
        n == Surplus(keys, (MemoryBytes * 3) \div 4)
    IN  [prot |-> SubSeq(keys, n + 1, Len(keys)),
         prob |-> Without(prob, k) \o SubSeq(keys, 1, n)]

\* get: a speculative probe does not extend the life of demanded data.
Touched(k, priority) ==
    IF priority = "critical" THEN Protect(probation, protected, k)
    ELSE [prot |-> protected,
          prob |-> IF k \in ToSet(probation) THEN Append(Without(probation, k), k)
                   ELSE probation]

Admitted(k, priority) ==
    /\ Size[k] <= MemoryBytes
    /\ priority = "prefetch" => Size[k] <= MemoryBytes - Bytes(protected)

\* put: probation pays for what is admitted.
Put(k, priority) ==
    LET placed == IF priority = "critical" THEN Protect(probation, protected, k)
                  ELSE [prot |-> protected, prob |-> Append(probation, k)]
        n == Surplus(placed.prob, MemoryBytes - Bytes(placed.prot))
    IN  [placed EXCEPT !.prob = SubSeq(@, n + 1, Len(@))]

\* #putMemory and #recordPrefetchCompletion
Store(k) ==
    LET priority == request[k].priority IN
    IF Admitted(k, priority)
    THEN \E after \in {Put(k, priority)} :
         /\ probation' = after.prob /\ protected' = after.prot
         /\ prefetched' =
                (prefetched \union (IF priority = "prefetch" THEN {k} ELSE {}))
                    \intersect (ToSet(after.prob) \union ToSet(after.prot))
    ELSE UNCHANGED memory

-----------------------------------------------------------------------------
(* The pools *)

\* #enqueue: in front of the first prefetch if it is critical.
Enqueue(entries, k, req) ==
    LET ahead == SelectInSeq(entries, LAMBDA e : req[e].priority = "prefetch")
    IN  IF req[k].priority = "prefetch" \/ ahead = 0 THEN Append(entries, k)
        ELSE InsertAt(entries, ahead, k)

\* #acquire in the given state of the requests; the request is then at the
\* holding place or queued for it.
Acquire(pool, slots, k, req) ==
    IF pool.active < slots THEN [pool EXCEPT !.active = @ + 1]
    ELSE [pool EXCEPT !.entries = Enqueue(@, k, req)]

\* #release hands the slot to the first in the queue.
Release(pool) ==
    IF pool.entries = <<>> THEN [pool EXCEPT !.active = @ - 1]
    ELSE [pool EXCEPT !.entries = Tail(@)]
WokenNobody(pool) == {}
Woken(pool) == IF pool.entries = <<>> THEN {} ELSE {Head(pool.entries)}

Moved(req, keys, place) ==
    [k \in Keys |-> IF k \in keys THEN [req[k] EXCEPT !.at = place] ELSE req[k]]

\* The promise of the request settles, well or badly.
Answered(k) == awaited' = [c \in Consumers |-> IF awaited[c] = k THEN Nothing ELSE awaited[c]]

\* k gives its network slot back and ends there, or waits for its next attempt.
LeaveNet(k, then) ==
    /\ net' = Release(net)
    /\ request' = [Moved(request, Woken(net), "net") EXCEPT ![k] = then]

SettleAtNet(k) == LeaveNet(k, NoRequest) /\ Answered(k) /\ UNCHANGED disk

-----------------------------------------------------------------------------
(* Consumers *)

\* fetch of what the memory holds
FetchCached(c, k) ==
    /\ awaited[c] = Nothing /\ Cached(k)
    /\ probation' = Touched(k, PriorityOf(c)).prob
    /\ protected' = Touched(k, PriorityOf(c)).prot
    /\ prefetched' = IF c \in Visible THEN prefetched \ {k} ELSE prefetched
    /\ UNCHANGED <<request, awaited, pools>>

PromotedInPlace(pool, k, req) == pool
Promoted(pool, k, req) ==
    IF k \in ToSet(pool.entries)
    THEN [pool EXCEPT !.entries = Enqueue(Without(@, k), k, req)]
    ELSE pool

\* fetch of what is in flight, even if that is already aborted
FetchInFlight(c, k) ==
    /\ awaited[c] = Nothing /\ ~Cached(k) /\ request[k] # NoRequest
    /\ awaited' = [awaited EXCEPT ![c] = k]
    /\ LET promote == c \in Visible /\ request[k].priority = "prefetch"
           req == [request EXCEPT ![k].timer = FALSE,
                                  ![k].priority = IF promote THEN "critical" ELSE @]
       IN  /\ request' = req
           /\ disk' = IF promote THEN Promoted(disk, k, req) ELSE disk
           /\ net' = IF promote THEN Promoted(net, k, req) ELSE net
    /\ UNCHANGED memory

FetchNew(c, k) ==
    /\ awaited[c] = Nothing /\ ~Cached(k) /\ request[k] = NoRequest
    /\ awaited' = [awaited EXCEPT ![c] = k]
    /\ LET req == [request EXCEPT ![k] =
                      [at |-> IF disk.active < DiskSlots THEN "disk" ELSE "disk queue",
                       priority |-> PriorityOf(c), timer |-> FALSE, aborted |-> FALSE,
                       raw |-> k \notin Zstd, retry |-> 0]]
       IN  request' = req /\ disk' = Acquire(disk, DiskSlots, k, req)
    /\ UNCHANGED <<net, memory>>

\* The camera moved on: the consumer's signal aborts.
Abort(c) ==
    /\ awaited[c] # Nothing
    /\ awaited' = [awaited EXCEPT ![c] = Nothing]
    /\ request' = [request EXCEPT ![awaited[c]].timer = (ConsumersOf(awaited[c]) = {c})]
    /\ UNCHANGED <<pools, memory>>

LeaveBackoffReleasing(k) == LeaveNet(k, NoRequest) /\ UNCHANGED disk
LeaveBackoff(k) == request' = [request EXCEPT ![k] = NoRequest] /\ UNCHANGED pools

\* The grace period ends without a new consumer. Queues, sleeps and the network
\* obey the signal; a disk read and a decompression run on, and are thrown away.
GraceExpires(k) ==
    /\ request[k] # NoRequest /\ request[k].timer
    /\ CASE request[k].at \in {"disk", "decode"} ->
              /\ request' = [request EXCEPT ![k].timer = FALSE, ![k].aborted = TRUE]
              /\ UNCHANGED pools
         [] request[k].at \in {"disk queue", "net queue"} ->
              /\ request' = [request EXCEPT ![k] = NoRequest]
              /\ disk' = [disk EXCEPT !.entries = Without(@, k)]
              /\ net' = [net EXCEPT !.entries = Without(@, k)]
         [] request[k].at = "backoff" -> LeaveBackoff(k)
         [] request[k].at = "net" -> LeaveNet(k, NoRequest) /\ UNCHANGED disk
    /\ UNCHANGED <<awaited, memory>>

-----------------------------------------------------------------------------
(* #fetchAndCache *)

DiskAnswers(k) ==
    /\ request[k].at = "disk"
    /\ disk' = Release(disk)
    /\ request' = [Moved(request, Woken(disk), "disk") EXCEPT ![k] = NoRequest]
    /\ Answered(k)
    /\ IF request[k].aborted THEN UNCHANGED memory ELSE Store(k)
    /\ UNCHANGED net

\* A miss, or a disk that fails: the read slot is released before the request
\* waits for the network.
DiskMisses(k) ==
    /\ request[k].at = "disk" /\ ~request[k].aborted
    /\ disk' = Release(disk)
    /\ net' = Acquire(net, NetSlots, k, request)
    /\ request' = [Moved(request, Woken(disk), "disk") EXCEPT
                      ![k].at = IF net.active < NetSlots THEN "net" ELSE "net queue"]
    /\ UNCHANGED <<awaited, memory>>

NetAnswers(k) ==
    /\ request[k].at = "net"
    /\ IF request[k].raw THEN SettleAtNet(k) /\ Store(k)
       ELSE /\ request' = [request EXCEPT ![k].at = "decode"]
            /\ UNCHANGED <<awaited, pools, memory>>

\* The compressed bytes were no use: the raw ones, in the same slot.
FallBack(k) ==
    /\ request' = [request EXCEPT ![k].at = "net", ![k].raw = TRUE, ![k].retry = 0]
    /\ UNCHANGED <<awaited, pools, memory>>

Decoded(k) ==
    /\ request[k].at = "decode"
    /\ SettleAtNet(k)
    /\ IF request[k].aborted THEN UNCHANGED memory ELSE Store(k)

DecodeFails(k) == request[k].at = "decode" /\ ~request[k].aborted /\ FallBack(k)

\* An error that may pass: the slot is given back while the request sleeps.
NetFails(k) ==
    /\ request[k].at = "net" /\ request[k].retry < MaxRetries
    /\ LeaveNet(k, [request[k] EXCEPT !.at = "backoff", !.retry = @ + 1])
    /\ UNCHANGED <<awaited, disk, memory>>

BackoffEnds(k) ==
    /\ request[k].at = "backoff"
    /\ net' = Acquire(net, NetSlots, k, request)
    /\ request' = [request EXCEPT ![k].at = IF net.active < NetSlots THEN "net" ELSE "net queue"]
    /\ UNCHANGED <<awaited, disk, memory>>

NetFailsForGood(k) ==
    /\ request[k].at = "net"
    /\ IF request[k].raw THEN SettleAtNet(k) /\ UNCHANGED memory ELSE FallBack(k)

-----------------------------------------------------------------------------
Init ==
    /\ request = [k \in Keys |-> NoRequest]
    /\ awaited = [c \in Consumers |-> Nothing]
    /\ disk = [active |-> 0, entries |-> <<>>]
    /\ net = [active |-> 0, entries |-> <<>>]
    /\ probation = <<>> /\ protected = <<>> /\ prefetched = {}

Serve(k) ==
    \/ DecodeFails(k) \/ BackoffEnds(k) \/ DiskMisses(k) \/ NetFails(k)
    \/ NetFailsForGood(k) \/ NetAnswers(k) \/ DiskAnswers(k) \/ Decoded(k)

Next ==
    \/ \E c \in Consumers, k \in Keys : FetchCached(c, k) \/ FetchInFlight(c, k) \/ FetchNew(c, k)
    \/ \E c \in Consumers : Abort(c)
    \/ \E k \in Keys : GraceExpires(k)
    \/ \E k \in Keys :
        \/ DiskAnswers(k) \/ DiskMisses(k)
        \/ NetAnswers(k) \/ NetFails(k) \/ NetFailsForGood(k)
        \/ Decoded(k) \/ DecodeFails(k) \/ BackoffEnds(k)

Spec == Init /\ [][Next]_vars

\* A read, a response, a decompression and a sleep end, one way or another.
FairSpec == Spec /\ \A k \in Keys : WF_vars(Serve(k))

-----------------------------------------------------------------------------
At(place) == {k \in Keys : request[k].at = place}

RangeTypeOK ==
    /\ \A c \in Consumers : awaited[c] = Nothing \/ request[awaited[c]] # NoRequest
    /\ IsInjective(probation \o protected) /\ prefetched \subseteq Keys

PoolSound(pool, slots, holders, queued) ==
    /\ pool.active = Cardinality(holders) /\ pool.active <= slots
    /\ ToSet(pool.entries) = queued /\ IsInjective(pool.entries)
    /\ queued # {} => pool.active = slots
    /\ \A i, j \in DOMAIN pool.entries :
          i < j /\ request[pool.entries[j]].priority = "critical"
            => request[pool.entries[i]].priority = "critical"

\* A slot is held by a request that uses it, never by one that sleeps, waits or
\* has ended, and none is idle while somebody queues; demand queues in front of
\* predictions, also when a prediction became a demand in the queue. The memory
\* stays within its bytes, and a prediction nobody has asked for never holds the
\* part that is protected for what the cut demanded.
ResourcesConserved ==
    /\ PoolSound(disk, DiskSlots, At("disk"), At("disk queue"))
    /\ PoolSound(net, NetSlots, At("net") \union At("decode"), At("net queue"))
    /\ Bytes(probation) + Bytes(protected) <= MemoryBytes
    /\ prefetched \subseteq ToSet(probation)

\* What a visible tile awaits is answered, well or badly, however many ranges
\* the halo and other tiles ask for: nothing overtakes demand for ever.
VisibleAnswered == \A c \in Visible : awaited[c] # Nothing ~> awaited[c] = Nothing
=============================================================================
