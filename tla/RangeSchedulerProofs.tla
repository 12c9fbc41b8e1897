------------------------ MODULE RangeSchedulerProofs ------------------------
(***************************************************************************)
(* Theorems about the fetching of ranges, for any number of ranges and     *)
(* consumers, any pools and any memory.  The first part is about the       *)
(* sequences and sizes the pools and the cache are made of, the second     *)
(* about one pool, the third about the memory.                             *)
(***************************************************************************)
EXTENDS RangeScheduler, TLAPS, FiniteSetTheorems, SequenceTheorems

Places == {"disk queue", "disk", "net queue", "net", "decode", "backoff"}
Request == [at : Places, priority : {"critical", "prefetch"}, timer : BOOLEAN,
            aborted : BOOLEAN, raw : BOOLEAN, retry : Nat]
Pool == [active : Nat, entries : Seq(Keys)]

TypeInv ==
    /\ request \in [Keys -> Request \cup {NoRequest}]
    /\ awaited \in [Consumers -> Keys \cup {Nothing}]
    /\ disk \in Pool /\ net \in Pool
    /\ probation \in Seq(Keys) /\ protected \in Seq(Keys) /\ prefetched \subseteq Keys

\* Demand is in front of predictions.
InOrder(s, req) ==
    \A i, j \in 1 .. Len(s) : i < j /\ req[s[j]].priority = "critical"
        => req[s[i]].priority = "critical"

\* The same as PoolSound, for any state of the requests and with finitely many holders.
Sound(pool, slots, holders, queued, req) ==
    /\ IsFiniteSet(holders)
    /\ pool.active = Cardinality(holders) /\ pool.active <= slots
    /\ ToSet(pool.entries) = queued /\ IsInjective(pool.entries)
    /\ queued # {} => pool.active = slots
    /\ InOrder(pool.entries, req)

AtIn(req, places) == {k \in Keys : req[k].at \in places}

\* Where the requests are, for each pool.
DiskIs(pool, req) == Sound(pool, DiskSlots, AtIn(req, {"disk"}), AtIn(req, {"disk queue"}), req)
NetIs(pool, req) == Sound(pool, NetSlots, AtIn(req, {"net", "decode"}), AtIn(req, {"net queue"}), req)
PoolsSound == DiskIs(disk, request) /\ NetIs(net, request)

\* A range is in one place of the memory, and not while it is in flight.
MemorySound ==
    /\ IsInjective(probation \o protected)
    /\ \A k \in Keys : request[k] # NoRequest => ~Cached(k)
    /\ Bytes(probation) + Bytes(protected) <= MemoryBytes
    /\ prefetched \subseteq ToSet(probation)

\* What is awaited is in flight, and its grace period has not begun.
Attended ==
    \A c \in Consumers : awaited[c] # Nothing =>
        /\ request[awaited[c]] # NoRequest
        /\ ~request[awaited[c]].timer

Inv == TypeInv /\ PoolsSound /\ MemorySound /\ Attended

-----------------------------------------------------------------------------
(* Sequences without repetition. *)

LEMMA MinIs ==
    ASSUME NEW S, S \subseteq Nat, S # {}
    PROVE  Min(S) \in S /\ \A n \in S : Min(S) <= n
  <1>1. PICK m \in S : \A n \in S : <<n, m>> \notin OpToRel(<, Nat)
    BY NatLessThanWellFounded, WFMin
  <1>2. \A n \in S : m <= n
    <2> SUFFICES ASSUME NEW n \in S, n < m PROVE FALSE
      OBVIOUS
    <2> QED BY <1>1 DEF OpToRel
  <1> QED BY <1>1, <1>2 DEF Min

\* What a function lists at 1, ..., len.
Values(s, len) == {s[i] : i \in 1 .. len}
Distinct(s, len) == \A i, j \in 1 .. len : s[i] = s[j] => i = j
Keeps(s, len, t, m) == \A i, j \in 1 .. m : i < j =>
                          \E a, b \in 1 .. len : a < b /\ s[a] = t[i] /\ s[b] = t[j]
Omits(s, len, t, n) == \A i \in 1 .. len - 1 : t[i] = IF i < n THEN s[i] ELSE s[i + 1]

LEMMA Listed ==
    ASSUME NEW K, NEW s \in Seq(K)
    PROVE  /\ Len(s) \in Nat /\ DOMAIN s = 1 .. Len(s)
           /\ ToSet(s) = Values(s, Len(s)) /\ ToSet(s) \subseteq K
           /\ \A i \in 1 .. Len(s) : s[i] \in K /\ s[i] \in ToSet(s)
           /\ IsInjective(s) <=> Distinct(s, Len(s))
  <1>1. Len(s) \in Nat /\ DOMAIN s = 1 .. Len(s) /\ \A i \in 1 .. Len(s) : s[i] \in K
    BY LenProperties, ElementOfSeq
  <1>2. ToSet(s) = {s[i] : i \in 1 .. Len(s)}
    BY <1>1 DEF ToSet
  <1> QED BY <1>1, <1>2 DEF IsInjective, Values, Distinct

\* t is s without its n-th element.
LEMMA Deleted ==
    ASSUME NEW len \in Nat, NEW n \in 1 .. len, NEW s, NEW t, Distinct(s, len), Omits(s, len, t, n)
    PROVE  /\ Distinct(t, len - 1) /\ Values(t, len - 1) = Values(s, len) \ {s[n]}
           /\ Keeps(s, len, t, len - 1)
  <1> DEFINE from(i) == IF i < n THEN i ELSE i + 1
  <1>1. \A i \in 1 .. len - 1 : from(i) \in 1 .. len /\ from(i) # n /\ t[i] = s[from(i)]
    BY DEF Omits
  <1>2. \A i, j \in 1 .. len - 1 : i < j => from(i) < from(j)
    OBVIOUS
  <1>3. \A i, j \in 1 .. len - 1 : from(i) = from(j) => i = j
    OBVIOUS
  <1>4. \A a \in 1 .. len : a # n => \E i \in 1 .. len - 1 : from(i) = a
    <2> SUFFICES ASSUME NEW a \in 1 .. len, a # n PROVE \E i \in 1 .. len - 1 : from(i) = a
      OBVIOUS
    <2>1. CASE a < n
      <3>1. a \in 1 .. len - 1 /\ from(a) = a
        BY <2>1
      <3> QED BY <3>1
    <2>2. CASE a > n
      <3>1. a - 1 \in 1 .. len - 1 /\ from(a - 1) = a
        BY <2>2
      <3> QED BY <3>1
    <2> QED BY <2>1, <2>2
  <1> HIDE DEF from
  <1>5. \A i, j \in 1 .. len - 1 : t[i] = t[j] => i = j
    BY <1>1, <1>3 DEF Distinct
  <1>6. {t[i] : i \in 1 .. len - 1} = {s[i] : i \in 1 .. len} \ {s[n]}
    <2>1. \A i \in 1 .. len - 1 : t[i] \in {s[a] : a \in 1 .. len} \ {s[n]}
      BY <1>1 DEF Distinct
    <2>2. ASSUME NEW a \in 1 .. len, s[a] # s[n]
          PROVE  \E i \in 1 .. len - 1 : t[i] = s[a]
      BY <1>1, <1>4, <2>2
    <2> QED BY <2>1, <2>2
  <1>7. ASSUME NEW i \in 1 .. len - 1, NEW j \in 1 .. len - 1, i < j
        PROVE  \E a, b \in 1 .. len : a < b /\ s[a] = t[i] /\ s[b] = t[j]
    BY <1>1, <1>2, <1>7
  <1> QED BY <1>5, <1>6, <1>7 DEF Distinct, Values, Keeps

Removes(s, t, k) ==
    IsInjective(t) /\ ToSet(t) = ToSet(s) \ {k} /\ Keeps(s, Len(s), t, Len(t))

LEMMA WithoutRemoves ==
    ASSUME NEW K, NEW s \in Seq(K), IsInjective(s), NEW k
    PROVE  Without(s, k) \in Seq(K) /\ Removes(s, Without(s, k), k)
  <1>s. /\ Len(s) \in Nat /\ ToSet(s) = {s[i] : i \in 1 .. Len(s)}
        /\ \A i \in 1 .. Len(s) : s[i] \in K
    BY Listed DEF Values
  <1>1. CASE k \notin ToSet(s)
    <2>1. Without(s, k) = s
      BY <1>s, <1>1 DEF Without, RemoveFirst
    <2>2. Keeps(s, Len(s), s, Len(s))
      BY DEF Keeps
    <2> QED BY <1>1, <2>1, <2>2 DEF Removes
  <1>2. CASE k \in ToSet(s)
    <2> DEFINE I == {i \in 1 .. Len(s) : s[i] = k}
               n == Min(I)
               front == SubSeq(s, 1, n - 1)
               back == SubSeq(s, n + 1, Len(s))
               t == Without(s, k)
    <2>1. I # {} /\ I \subseteq Nat
      BY <1>s, <1>2
    <2>2. n \in I
      BY <2>1, MinIs
    <2>3. n \in 1 .. Len(s) /\ s[n] = k
      BY <2>2
    <2>4. \E i \in 1 .. Len(s) : s[i] = k
      BY <2>1
    <2>5. t = RemoveAt(s, SelectInSeq(s, LAMBDA v : v = k))
      BY <2>4 DEF Without, RemoveFirst
    <2>6. SelectInSeq(s, LAMBDA v : v = k) = n
      BY <2>1 DEF SelectInSeq
    <2>7. t = front \o back
      BY <2>5, <2>6 DEF RemoveAt
    <2> HIDE DEF n, I
    <2>8. /\ front \in Seq(K) /\ Len(front) = n - 1 /\ \A i \in 1 .. n - 1 : front[i] = s[i]
          /\ back \in Seq(K) /\ Len(back) = Len(s) - n
          /\ \A i \in 1 .. Len(s) - n : back[i] = s[n + i]
      <3>1. /\ front \in Seq(K) /\ Len(front) = IF 1 <= n - 1 THEN n - 1 - 1 + 1 ELSE 0
            /\ \A i \in 1 .. n - 1 - 1 + 1 : front[i] = s[1 + i - 1]
        BY <1>s, <2>3, SubSeqProperties
      <3>2. /\ back \in Seq(K) /\ Len(back) = IF n + 1 <= Len(s) THEN Len(s) - (n + 1) + 1 ELSE 0
            /\ \A i \in 1 .. Len(s) - (n + 1) + 1 : back[i] = s[n + 1 + i - 1]
        BY <1>s, <2>3, SubSeqProperties
      <3> HIDE DEF front, back
      <3> QED BY <1>s, <2>3, <3>1, <3>2
    <2> HIDE DEF front, back, t
    <2>9. /\ t \in Seq(K) /\ Len(t) = Len(s) - 1
          /\ \A i \in 1 .. Len(s) - 1 : t[i] = IF i < n THEN s[i] ELSE s[i + 1]
      <3>1. /\ t \in Seq(K) /\ Len(t) = Len(front) + Len(back)
            /\ \A i \in 1 .. Len(front) + Len(back) :
                  t[i] = IF i <= Len(front) THEN front[i] ELSE back[i - Len(front)]
        BY <2>7, <2>8, ConcatProperties
      <3>2. Len(front) + Len(back) = Len(s) - 1
        BY <1>s, <2>3, <2>8
      <3>3. ASSUME NEW i \in 1 .. Len(s) - 1
            PROVE  t[i] = IF i < n THEN s[i] ELSE s[i + 1]
        <4>1. t[i] = IF i <= n - 1 THEN front[i] ELSE back[i - (n - 1)]
          BY <2>8, <3>1, <3>2
        <4>2. CASE i < n
          <5>1. i <= n - 1 /\ i \in 1 .. n - 1
            BY <2>3, <4>2
          <5> QED BY <2>8, <4>1, <4>2, <5>1
        <4>3. CASE ~(i < n)
          <5>1. ~(i <= n - 1) /\ i - (n - 1) \in 1 .. Len(s) - n /\ n + (i - (n - 1)) = i + 1
            BY <1>s, <2>3, <4>3
          <5>2. back[i - (n - 1)] = s[n + (i - (n - 1))]
            BY <2>8, <5>1
          <5> QED BY <4>1, <4>3, <5>1, <5>2
        <4> QED BY <4>2, <4>3
      <3> QED BY <3>1, <3>2, <3>3
    <2>10. Distinct(s, Len(s)) /\ Omits(s, Len(s), t, n)
      BY <2>9, Listed DEF Omits
    <2>11. /\ Distinct(t, Len(t)) /\ Values(t, Len(t)) = Values(s, Len(s)) \ {k}
           /\ Keeps(s, Len(s), t, Len(t))
      <3>1. Len(s) \in Nat /\ Len(t) = Len(s) - 1
        BY <1>s, <2>9
      <3>2. /\ Distinct(t, Len(s) - 1) /\ Values(t, Len(s) - 1) = Values(s, Len(s)) \ {s[n]}
            /\ Keeps(s, Len(s), t, Len(s) - 1)
        BY <2>3, <2>10, <3>1, Deleted
      <3> QED BY <2>3, <3>1, <3>2
    <2>12. Removes(s, t, k)
      BY <2>9, <2>11, Listed DEF Removes
    <2> QED BY <2>9, <2>12 DEF t
  <1> QED BY <1>1, <1>2

\* t is s with k at its n-th place.
Adds(s, len, t, n, k) == \A i \in 1 .. len + 1 : t[i] = IF i < n THEN s[i] ELSE IF i = n THEN k ELSE s[i - 1]

LEMMA Inserted ==
    ASSUME NEW len \in Nat, NEW n \in 1 .. len + 1, NEW s, NEW t, NEW k,
           Distinct(s, len), k \notin Values(s, len), Adds(s, len, t, n, k)
    PROVE  Distinct(t, len + 1) /\ Values(t, len + 1) = Values(s, len) \cup {k}
  <1> DEFINE to(i) == IF i < n THEN i ELSE i + 1
  <1>1. \A i \in 1 .. len : to(i) \in 1 .. len + 1 /\ to(i) # n /\ t[to(i)] = s[i]
    BY DEF Adds
  <1>2. n \in 1 .. len + 1 /\ t[n] = k
    BY DEF Adds
  <1>3. \A j \in 1 .. len + 1 : j # n => \E i \in 1 .. len : to(i) = j
    <2> SUFFICES ASSUME NEW j \in 1 .. len + 1, j # n PROVE \E i \in 1 .. len : to(i) = j
      OBVIOUS
    <2>1. CASE j < n
      <3>1. j \in 1 .. len /\ to(j) = j
        BY <2>1
      <3> QED BY <3>1
    <2>2. CASE j > n
      <3>1. j - 1 \in 1 .. len /\ to(j - 1) = j
        BY <2>2
      <3> QED BY <3>1
    <2> QED BY <2>1, <2>2
  <1> HIDE DEF to
  <1>4. \A i \in 1 .. len : s[i] # k
    BY DEF Values
  <1>5. ASSUME NEW i \in 1 .. len + 1, NEW j \in 1 .. len + 1, t[i] = t[j]
        PROVE  i = j
    <2>1. CASE i = n \/ j = n
      BY <1>1, <1>2, <1>3, <1>4, <1>5, <2>1
    <2>2. CASE i # n /\ j # n
      <3>1. PICK a \in 1 .. len : to(a) = i
        BY <1>3, <2>2
      <3>2. PICK b \in 1 .. len : to(b) = j
        BY <1>3, <2>2
      <3>3. s[a] = s[b]
        BY <1>1, <1>5, <3>1, <3>2
      <3> QED BY <3>1, <3>2, <3>3 DEF Distinct
    <2> QED BY <2>1, <2>2
  <1>6. ASSUME NEW x \in Values(s, len) \cup {k}
        PROVE  \E i \in 1 .. len + 1 : t[i] = x
    <2>1. x = k \/ \E i \in 1 .. len : x = s[i]
      BY DEF Values
    <2> QED BY <1>1, <1>2, <2>1
  <1>7. ASSUME NEW j \in 1 .. len + 1
        PROVE  t[j] \in Values(s, len) \cup {k}
    <2>1. CASE j = n
      BY <1>2, <2>1
    <2>2. CASE j # n
      <3>1. PICK i \in 1 .. len : to(i) = j
        BY <1>3, <2>2
      <3> QED BY <1>1, <3>1 DEF Values
    <2> QED BY <2>1, <2>2
  <1>8. Distinct(t, len + 1)
    BY <1>5 DEF Distinct
  <1>9. Values(t, len + 1) = {t[i] : i \in 1 .. len + 1}
    BY DEF Values
  <1> QED BY <1>6, <1>7, <1>8, <1>9

LEMMA InsertIs ==
    ASSUME NEW K, NEW s \in Seq(K), NEW n \in 1 .. Len(s) + 1, NEW k \in K
    PROVE  LET t == SubSeq(s, 1, n - 1) \o <<k>> \o SubSeq(s, n, Len(s))
           IN  t \in Seq(K) /\ Len(t) = Len(s) + 1 /\ Adds(s, Len(s), t, n, k)
  <1> DEFINE front == SubSeq(s, 1, n - 1)
             head == front \o <<k>>
             back == SubSeq(s, n, Len(s))
             t == head \o back
  <1>s. Len(s) \in Nat /\ \A i \in 1 .. Len(s) : s[i] \in K
    BY Listed
  <1>0. <<k>> \in Seq(K) /\ Len(<<k>>) = 1 /\ <<k>>[1] = k
    OBVIOUS
  <1>1. front \in Seq(K) /\ Len(front) = n - 1 /\ \A i \in 1 .. n - 1 : front[i] = s[i]
    <2>1. /\ front \in Seq(K) /\ Len(front) = IF 1 <= n - 1 THEN n - 1 - 1 + 1 ELSE 0
          /\ \A i \in 1 .. n - 1 - 1 + 1 : front[i] = s[1 + i - 1]
      BY <1>s, SubSeqProperties
    <2> HIDE DEF front
    <2> QED BY <1>s, <2>1
  <1>2. /\ back \in Seq(K) /\ Len(back) = Len(s) - n + 1
        /\ \A i \in 1 .. Len(s) - n + 1 : back[i] = s[n + i - 1]
    <2>1. /\ back \in Seq(K) /\ Len(back) = IF n <= Len(s) THEN Len(s) - n + 1 ELSE 0
          /\ \A i \in 1 .. Len(s) - n + 1 : back[i] = s[n + i - 1]
      BY <1>s, SubSeqProperties
    <2> HIDE DEF back
    <2> QED BY <1>s, <2>1
  <1> HIDE DEF front, back
  <1>3. head \in Seq(K) /\ Len(head) = n /\ \A i \in 1 .. n : head[i] = IF i < n THEN s[i] ELSE k
    <2>1. /\ head \in Seq(K) /\ Len(head) = Len(front) + 1
          /\ \A i \in 1 .. Len(front) + 1 :
                head[i] = IF i <= Len(front) THEN front[i] ELSE <<k>>[i - Len(front)]
      BY <1>0, <1>1, ConcatProperties
    <2> HIDE DEF head
    <2>2. Len(front) + 1 = n
      BY <1>1
    <2>3. ASSUME NEW i \in 1 .. n
          PROVE  head[i] = IF i < n THEN s[i] ELSE k
      <3>1. head[i] = IF i <= n - 1 THEN front[i] ELSE <<k>>[i - (n - 1)]
        BY <1>1, <2>1, <2>2
      <3>2. CASE i < n
        BY <1>1, <3>1, <3>2
      <3>3. CASE i = n
        <4>1. i - (n - 1) = 1 /\ ~(i <= n - 1)
          BY <3>3
        <4> QED BY <1>0, <3>1, <3>3, <4>1
      <3> QED BY <3>2, <3>3
    <2> QED BY <2>1, <2>2, <2>3
  <1> HIDE DEF head
  <1>4. /\ t \in Seq(K) /\ Len(t) = Len(head) + Len(back)
        /\ \A i \in 1 .. Len(head) + Len(back) :
              t[i] = IF i <= Len(head) THEN head[i] ELSE back[i - Len(head)]
    BY <1>2, <1>3, ConcatProperties
  <1> HIDE DEF t
  <1>5. Len(head) + Len(back) = Len(s) + 1
    BY <1>s, <1>2, <1>3
  <1>6. ASSUME NEW i \in 1 .. Len(s) + 1
        PROVE  t[i] = IF i < n THEN s[i] ELSE IF i = n THEN k ELSE s[i - 1]
    <2>1. t[i] = IF i <= n THEN head[i] ELSE back[i - n]
      BY <1>3, <1>4, <1>5
    <2>2. CASE i <= n
      BY <1>3, <2>1, <2>2
    <2>3. CASE i > n
      <3>1. i - n \in 1 .. Len(s) - n + 1 /\ n + (i - n) - 1 = i - 1
        BY <1>s, <2>3
      <3>2. back[i - n] = s[n + (i - n) - 1]
        BY <1>2, <3>1
      <3> QED BY <2>1, <2>3, <3>1, <3>2
    <2> QED BY <2>2, <2>3
  <1>7. t \in Seq(K) /\ Len(t) = Len(s) + 1 /\ Adds(s, Len(s), t, n, k)
    BY <1>4, <1>5, <1>6 DEF Adds
  <1> QED BY <1>7 DEF t, head, front, back

LEMMA AppendIs ==
    ASSUME NEW K, NEW s \in Seq(K), NEW k \in K
    PROVE  LET t == Append(s, k)
           IN  t \in Seq(K) /\ Len(t) = Len(s) + 1 /\ Adds(s, Len(s), t, Len(s) + 1, k)
  <1> DEFINE t == Append(s, k)
  <1>1. /\ t \in Seq(K) /\ Len(t) = Len(s) + 1 /\ Len(s) \in Nat
        /\ \A i \in 1 .. Len(s) : t[i] = s[i]
        /\ t[Len(s) + 1] = k
    BY AppendProperties, Listed
  <1> HIDE DEF t
  <1>2. Adds(s, Len(s), t, Len(s) + 1, k)
    BY <1>1 DEF Adds
  <1> QED BY <1>1, <1>2 DEF t

LEMMA Appended ==
    ASSUME NEW K, NEW s \in Seq(K), IsInjective(s), NEW k \in K, k \notin ToSet(s)
    PROVE  LET t == Append(s, k)
           IN  t \in Seq(K) /\ IsInjective(t) /\ ToSet(t) = ToSet(s) \cup {k}
  <1> DEFINE t == Append(s, k)
  <1>1. t \in Seq(K) /\ Len(t) = Len(s) + 1 /\ Adds(s, Len(s), t, Len(s) + 1, k)
    BY AppendIs
  <1> HIDE DEF t
  <1>2. /\ Len(s) \in Nat /\ Len(s) + 1 \in 1 .. Len(s) + 1
        /\ Distinct(s, Len(s)) /\ k \notin Values(s, Len(s))
    BY Listed
  <1>3. Distinct(t, Len(s) + 1) /\ Values(t, Len(s) + 1) = Values(s, Len(s)) \cup {k}
    BY <1>1, <1>2, Inserted
  <1>4. IsInjective(t) /\ ToSet(t) = ToSet(s) \cup {k}
    BY <1>1, <1>3, Listed
  <1> QED BY <1>1, <1>4 DEF t

LEMMA EnqueueInserts ==
    ASSUME NEW K, NEW s \in Seq(K), IsInjective(s), NEW k \in K, k \notin ToSet(s), NEW req,
           InOrder(s, req), \A x \in ToSet(s) \cup {k} : req[x].priority \in {"critical", "prefetch"}
    PROVE  LET t == Enqueue(s, k, req)
           IN  t \in Seq(K) /\ IsInjective(t) /\ ToSet(t) = ToSet(s) \cup {k} /\ InOrder(t, req)
  <1> DEFINE I == {i \in 1 .. Len(s) : req[s[i]].priority = "prefetch"}
             ahead == IF I # {} THEN Min(I) ELSE 0
             t == Enqueue(s, k, req)
  <1>0. /\ Len(s) \in Nat /\ Distinct(s, Len(s)) /\ ToSet(s) = Values(s, Len(s))
        /\ \A i \in 1 .. Len(s) : req[s[i]].priority \in {"critical", "prefetch"}
        /\ req[k].priority \in {"critical", "prefetch"}
    BY Listed
  <1>1. t = IF req[k].priority = "prefetch" \/ ahead = 0 THEN Append(s, k)
            ELSE InsertAt(s, ahead, k)
    <2>1. SelectInSeq(s, LAMBDA e : req[e].priority = "prefetch") = ahead
      BY DEF SelectInSeq
    <2> QED BY <2>1 DEF Enqueue
  <1>2. /\ ahead \in 0 .. Len(s)
        /\ ahead # 0 => req[s[ahead]].priority = "prefetch"
        /\ \A i \in 1 .. Len(s) : i < ahead \/ ahead = 0 => req[s[i]].priority # "prefetch"
    <2>1. CASE I = {}
      BY <1>0, <2>1
    <2>2. CASE I # {}
      <3>1. I \subseteq Nat
        BY <1>0
      <3>2. ahead \in I /\ \A i \in I : ahead <= i
        BY <2>2, <3>1, MinIs
      <3> HIDE DEF ahead
      <3> QED BY <1>0, <3>2
    <2> QED BY <2>1, <2>2
  <1> HIDE DEF I, ahead, t
  <1> DEFINE n == IF req[k].priority = "prefetch" \/ ahead = 0 THEN Len(s) + 1 ELSE ahead
  <1>3. t \in Seq(K) /\ Len(t) = Len(s) + 1 /\ Adds(s, Len(s), t, n, k)
    <2>1. CASE req[k].priority = "prefetch" \/ ahead = 0
      BY <1>1, <2>1, AppendIs
    <2>2. CASE ~(req[k].priority = "prefetch" \/ ahead = 0)
      <3>1. t = SubSeq(s, 1, ahead - 1) \o <<k>> \o SubSeq(s, ahead, Len(s))
        BY <1>1, <2>2 DEF InsertAt
      <3>2. ahead \in 1 .. Len(s) + 1 /\ n = ahead
        BY <1>0, <1>2, <2>2
      <3> HIDE DEF n
      <3> QED BY <3>1, <3>2, InsertIs
    <2> QED BY <2>1, <2>2
  <1>4. /\ n \in 1 .. Len(s) + 1
        /\ req[k].priority = "critical" =>
              /\ \A i \in 1 .. Len(s) : i < n => req[s[i]].priority = "critical"
              /\ n = Len(s) + 1 \/ req[s[n]].priority = "prefetch"
        /\ req[k].priority = "prefetch" => n = Len(s) + 1
    BY <1>0, <1>2
  <1> HIDE DEF n
  <1>5. Distinct(t, Len(s) + 1) /\ Values(t, Len(s) + 1) = Values(s, Len(s)) \cup {k}
    BY <1>0, <1>3, <1>4, Inserted
  <1>6. IsInjective(t) /\ ToSet(t) = ToSet(s) \cup {k}
    BY <1>0, <1>3, <1>5, Listed
  <1>7. ASSUME NEW i \in 1 .. Len(s) + 1, NEW j \in 1 .. Len(s) + 1, i < j,
               req[t[j]].priority = "critical"
        PROVE  req[t[i]].priority = "critical"
    <2>0. \A a, b \in 1 .. Len(s) : a < b /\ req[s[b]].priority = "critical" => req[s[a]].priority = "critical"
      BY DEF InOrder
    <2>1. /\ t[i] = IF i < n THEN s[i] ELSE IF i = n THEN k ELSE s[i - 1]
          /\ t[j] = IF j < n THEN s[j] ELSE IF j = n THEN k ELSE s[j - 1]
      BY <1>3 DEF Adds
    <2>2. CASE j < n
      <3>1. i \in 1 .. Len(s) /\ j \in 1 .. Len(s) /\ t[i] = s[i] /\ t[j] = s[j]
        BY <1>0, <1>4, <1>7, <2>1, <2>2
      <3> QED BY <1>7, <2>0, <3>1
    <2>3. CASE j = n
      <3>1. i \in 1 .. Len(s) /\ i < n /\ t[i] = s[i] /\ t[j] = k
        BY <1>0, <1>4, <1>7, <2>1, <2>3
      <3> QED BY <1>4, <1>7, <3>1
    <2>4. CASE j > n
      <3>1. j - 1 \in 1 .. Len(s) /\ n <= j - 1 /\ n \in 1 .. Len(s) /\ t[j] = s[j - 1]
        BY <1>0, <1>4, <1>7, <2>1, <2>4
      <3>2. req[s[j - 1]].priority = "critical"
        BY <1>7, <3>1
      <3>3. req[k].priority = "critical" => FALSE
        <4>1. SUFFICES ASSUME req[k].priority = "critical" PROVE FALSE
          OBVIOUS
        <4>2. n # Len(s) + 1
          BY <1>0, <3>1
        <4>3. req[s[n]].priority = "prefetch"
          BY <1>4, <4>1, <4>2
        <4>4. CASE n = j - 1
          BY <3>2, <4>3, <4>4
        <4>5. CASE n < j - 1
          BY <2>0, <3>1, <3>2, <4>3, <4>5
        <4> QED BY <1>4, <3>1, <4>4, <4>5
      <3>4. req[k].priority = "prefetch" /\ n = Len(s) + 1
        BY <1>0, <1>4, <3>3
      <3> QED BY <1>0, <3>1, <3>4
    <2> QED BY <1>4, <1>7, <2>2, <2>3, <2>4
  <1>8. InOrder(t, req)
    BY <1>3, <1>7 DEF InOrder
  <1> QED BY <1>3, <1>6, <1>8 DEF t

LEMMA WithoutInOrder ==
    ASSUME NEW K, NEW s \in Seq(K), IsInjective(s), NEW k, NEW req,
           \A i, j \in 1 .. Len(s) : i < j /\ s[i] # k /\ s[j] # k /\ req[s[j]].priority = "critical"
              => req[s[i]].priority = "critical"
    PROVE  InOrder(Without(s, k), req)
  <1> DEFINE t == Without(s, k)
  <1>1. t \in Seq(K) /\ Removes(s, t, k)
    BY WithoutRemoves
  <1> HIDE DEF t
  <1> SUFFICES ASSUME NEW i \in 1 .. Len(t), NEW j \in 1 .. Len(t), i < j,
                      req[t[j]].priority = "critical"
               PROVE  req[t[i]].priority = "critical"
    BY DEF InOrder, t
  <1>2. PICK a \in 1 .. Len(s), b \in 1 .. Len(s) : a < b /\ s[a] = t[i] /\ s[b] = t[j]
    BY <1>1 DEF Removes, Keeps
  <1>3. t[i] # k /\ t[j] # k
    BY <1>1, Listed DEF Removes
  <1> QED BY <1>2, <1>3

LEMMA TailRemoves ==
    ASSUME NEW K, NEW s \in Seq(K), IsInjective(s), s # <<>>
    PROVE  /\ Tail(s) \in Seq(K) /\ Head(s) \in ToSet(s) /\ Removes(s, Tail(s), Head(s))
  <1> DEFINE t == Tail(s)
  <1>1. /\ Len(s) \in Nat /\ Len(s) # 0 /\ Distinct(s, Len(s)) /\ Head(s) = s[1]
    BY Listed, EmptySeq
  <1>2. t \in Seq(K) /\ Len(t) = Len(s) - 1 /\ \A i \in 1 .. Len(t) : t[i] = s[i + 1]
    BY HeadTailProperties
  <1> HIDE DEF t
  <1>3. 1 \in 1 .. Len(s) /\ Omits(s, Len(s), t, 1)
    BY <1>1, <1>2 DEF Omits
  <1>4. /\ Distinct(t, Len(s) - 1) /\ Values(t, Len(s) - 1) = Values(s, Len(s)) \ {s[1]}
        /\ Keeps(s, Len(s), t, Len(s) - 1)
    BY <1>1, <1>3, Deleted
  <1>5. Removes(s, t, Head(s))
    BY <1>1, <1>2, <1>4, Listed DEF Removes
  <1>6. Head(s) \in ToSet(s)
    BY <1>1, <1>3, Listed
  <1> QED BY <1>2, <1>5, <1>6 DEF t

-----------------------------------------------------------------------------
(* One pool. *)

Known(req, keys) == \A x \in keys : req[x].priority \in {"critical", "prefetch"}

LEMMA SoundFor ==
    ASSUME NEW pool \in Pool, NEW slots, NEW holders, NEW queued, NEW req, NEW other,
           Sound(pool, slots, holders, queued, req),
           \A x \in queued : other[x].priority = req[x].priority
    PROVE  Sound(pool, slots, holders, queued, other)
  <1>1. \A i \in 1 .. Len(pool.entries) : pool.entries[i] \in queued
    BY Listed DEF Pool, Sound
  <1>2. InOrder(pool.entries, other)
    BY <1>1 DEF InOrder, Sound
  <1> QED BY <1>2 DEF Sound

LEMMA AcquireSound ==
    ASSUME NEW pool \in Pool, NEW slots \in Nat, NEW holders, NEW queued, NEW req, NEW k \in Keys,
           k \notin holders, k \notin queued,
           Sound(pool, slots, holders, queued, req), Known(req, queued \cup {k})
    PROVE  /\ Acquire(pool, slots, k, req) \in Pool
           /\ pool.active < slots => Sound(Acquire(pool, slots, k, req), slots, holders \cup {k}, queued, req)
           /\ ~(pool.active < slots) =>
                 Sound(Acquire(pool, slots, k, req), slots, holders, queued \cup {k}, req)
  <1>1. CASE pool.active < slots
    <2> DEFINE after == [pool EXCEPT !.active = @ + 1]
    <2>1. after \in Pool /\ after.active = pool.active + 1 /\ after.entries = pool.entries
      BY DEF Pool
    <2>2. Acquire(pool, slots, k, req) = after
      BY <1>1 DEF Acquire
    <2> HIDE DEF after
    <2>3. IsFiniteSet(holders \cup {k}) /\ Cardinality(holders \cup {k}) = Cardinality(holders) + 1
      BY FS_AddElement DEF Sound
    <2>4. queued = {} /\ after.active <= slots
      BY <1>1, <2>1 DEF Sound, Pool
    <2>5. Sound(after, slots, holders \cup {k}, queued, req)
      BY <2>1, <2>3, <2>4 DEF Sound
    <2> QED BY <1>1, <2>1, <2>2, <2>5
  <1>2. CASE ~(pool.active < slots)
    <2> DEFINE entries == Enqueue(pool.entries, k, req)
               after == [pool EXCEPT !.entries = entries]
    <2>0. /\ pool.entries \in Seq(Keys) /\ IsInjective(pool.entries) /\ ToSet(pool.entries) = queued
          /\ InOrder(pool.entries, req)
      BY DEF Pool, Sound
    <2>1. /\ entries \in Seq(Keys) /\ IsInjective(entries)
          /\ ToSet(entries) = queued \cup {k} /\ InOrder(entries, req)
      BY <2>0, EnqueueInserts DEF Known
    <2>2. Acquire(pool, slots, k, req) = after
      BY <1>2 DEF Acquire
    <2> HIDE DEF entries
    <2>3. after \in Pool /\ after.active = pool.active /\ after.entries = entries
      BY <2>1 DEF Pool
    <2> HIDE DEF after
    <2>4. pool.active = slots
      BY <1>2 DEF Sound, Pool
    <2>5. Sound(after, slots, holders, queued \cup {k}, req)
      BY <2>1, <2>3, <2>4 DEF Sound
    <2> QED BY <1>2, <2>2, <2>3, <2>5
  <1> QED BY <1>1, <1>2

LEMMA ReleaseSound ==
    ASSUME NEW pool \in Pool, NEW slots \in Nat, NEW holders, NEW queued, NEW req, NEW k \in holders,
           holders \cap queued = {}, Sound(pool, slots, holders, queued, req)
    PROVE  /\ Release(pool) \in Pool /\ Woken(pool) \subseteq queued
           /\ Sound(Release(pool), slots, (holders \ {k}) \cup Woken(pool), queued \ Woken(pool), req)
  <1>0. /\ pool.entries \in Seq(Keys) /\ IsInjective(pool.entries) /\ ToSet(pool.entries) = queued
        /\ InOrder(pool.entries, req) /\ pool.active \in Nat
        /\ IsFiniteSet(holders) /\ pool.active = Cardinality(holders) /\ pool.active <= slots
        /\ queued # {} => pool.active = slots
    BY DEF Pool, Sound
  <1>1. IsFiniteSet(holders \ {k}) /\ Cardinality(holders \ {k}) = Cardinality(holders) - 1
    BY <1>0, FS_RemoveElement
  <1>2. CASE pool.entries = <<>>
    <2> DEFINE after == [pool EXCEPT !.active = @ - 1]
    <2>1. Release(pool) = after /\ Woken(pool) = {}
      BY <1>2 DEF Release, Woken
    <2>2. Cardinality(holders \ {k}) \in Nat
      BY <1>1, FS_CardinalityType
    <2>3. after \in Pool /\ after.active = pool.active - 1 /\ after.entries = pool.entries
      BY <1>0, <1>1, <2>2 DEF Pool
    <2> HIDE DEF after
    <2>4. queued = {}
      BY <1>0, <1>2, EmptySeq, Listed DEF Values
    <2>5. Sound(after, slots, holders \ {k}, {}, req)
      BY <1>0, <1>1, <2>3, <2>4 DEF Sound
    <2>6. (holders \ {k}) \cup {} = holders \ {k} /\ queued \ {} = {}
      BY <2>4
    <2> QED BY <2>1, <2>3, <2>5, <2>6
  <1>3. CASE pool.entries # <<>>
    <2> DEFINE next == Head(pool.entries)
               after == [pool EXCEPT !.entries = Tail(@)]
    <2>1. Release(pool) = after /\ Woken(pool) = {next}
      BY <1>3 DEF Release, Woken
    <2>2. /\ Tail(pool.entries) \in Seq(Keys) /\ next \in queued
          /\ Removes(pool.entries, Tail(pool.entries), next)
      BY <1>0, <1>3, TailRemoves
    <2>3. after \in Pool /\ after.active = pool.active /\ after.entries = Tail(pool.entries)
      BY <2>2 DEF Pool
    <2> HIDE DEF after, next
    <2>4. IsInjective(after.entries) /\ ToSet(after.entries) = queued \ {next}
      BY <1>0, <2>2, <2>3 DEF Removes
    <2>5. InOrder(after.entries, req)
      BY <1>0, <2>2, <2>3 DEF Removes, Keeps, InOrder
    <2>6. /\ IsFiniteSet((holders \ {k}) \cup {next})
          /\ Cardinality((holders \ {k}) \cup {next}) = Cardinality(holders)
      <3>1. next \notin holders \ {k}
        BY <2>2
      <3>2. /\ IsFiniteSet((holders \ {k}) \cup {next})
            /\ Cardinality((holders \ {k}) \cup {next}) = Cardinality(holders \ {k}) + 1
        BY <1>1, <3>1, FS_AddElement
      <3> QED BY <1>0, <1>1, <3>2
    <2>7. Sound(after, slots, (holders \ {k}) \cup {next}, queued \ {next}, req)
      BY <1>0, <2>2, <2>3, <2>4, <2>5, <2>6 DEF Sound
    <2> QED BY <2>1, <2>2, <2>3, <2>7
  <1> QED BY <1>2, <1>3

LEMMA WithdrawSound ==
    ASSUME NEW pool \in Pool, NEW slots, NEW holders, NEW queued, NEW req, NEW k,
           Sound(pool, slots, holders, queued, req)
    PROVE  LET after == [pool EXCEPT !.entries = Without(@, k)]
           IN  after \in Pool /\ Sound(after, slots, holders, queued \ {k}, req)
  <1> DEFINE entries == Without(pool.entries, k)
             after == [pool EXCEPT !.entries = entries]
  <1>0. /\ pool.entries \in Seq(Keys) /\ IsInjective(pool.entries) /\ ToSet(pool.entries) = queued
        /\ InOrder(pool.entries, req)
    BY DEF Pool, Sound
  <1>1. entries \in Seq(Keys) /\ Removes(pool.entries, entries, k)
    BY <1>0, WithoutRemoves
  <1>2. InOrder(entries, req)
    BY <1>0, WithoutInOrder DEF InOrder
  <1> HIDE DEF entries
  <1>3. after \in Pool /\ after.active = pool.active /\ after.entries = entries
    BY <1>1 DEF Pool
  <1> HIDE DEF after
  <1>4. Sound(after, slots, holders, queued \ {k}, req)
    BY <1>0, <1>1, <1>2, <1>3 DEF Sound, Removes
  <1> QED BY <1>3, <1>4 DEF after, entries

\* A prediction that became a demand is put in front of the predictions.
LEMMA PromotedSound ==
    ASSUME NEW pool \in Pool, NEW slots, NEW holders, NEW queued, NEW req, NEW other, NEW k \in Keys,
           Sound(pool, slots, holders, queued, req), Known(other, queued \cup {k}),
           \A x \in queued \ {k} : other[x].priority = req[x].priority
    PROVE  Promoted(pool, k, other) \in Pool /\ Sound(Promoted(pool, k, other), slots, holders, queued, other)
  <1>0. /\ pool.entries \in Seq(Keys) /\ IsInjective(pool.entries) /\ ToSet(pool.entries) = queued
        /\ InOrder(pool.entries, req)
    BY DEF Pool, Sound
  <1>1. CASE k \in queued
    <2> DEFINE left == Without(pool.entries, k)
               entries == Enqueue(left, k, other)
               after == [pool EXCEPT !.entries = entries]
    <2>1. left \in Seq(Keys) /\ Removes(pool.entries, left, k)
      BY <1>0, WithoutRemoves
    <2>2. \A i \in 1 .. Len(pool.entries) : pool.entries[i] \in queued
      BY <1>0, Listed
    <2>3. InOrder(left, other)
      <3>1. \A i, j \in 1 .. Len(pool.entries) :
                 i < j /\ pool.entries[i] # k /\ pool.entries[j] # k /\ other[pool.entries[j]].priority = "critical"
                 => other[pool.entries[i]].priority = "critical"
        BY <1>0, <2>2 DEF InOrder
      <3> QED BY <1>0, <3>1, WithoutInOrder
    <2> HIDE DEF left
    <2>4. IsInjective(left) /\ ToSet(left) = queued \ {k}
      BY <1>0, <2>1 DEF Removes
    <2>5. /\ entries \in Seq(Keys) /\ IsInjective(entries)
          /\ ToSet(entries) = (queued \ {k}) \cup {k} /\ InOrder(entries, other)
      BY <2>1, <2>3, <2>4, EnqueueInserts DEF Known
    <2>6. Promoted(pool, k, other) = after
      BY <1>0, <1>1 DEF Promoted, left
    <2> HIDE DEF entries
    <2>7. after \in Pool /\ after.active = pool.active /\ after.entries = entries
      BY <2>5 DEF Pool
    <2> HIDE DEF after
    <2>8. Sound(after, slots, holders, queued, other)
      BY <1>1, <2>5, <2>7 DEF Sound
    <2> QED BY <2>6, <2>7, <2>8
  <1>2. CASE k \notin queued
    <2>1. Promoted(pool, k, other) = pool
      BY <1>0, <1>2 DEF Promoted
    <2> QED BY <1>2, <2>1, SoundFor
  <1> QED BY <1>1, <1>2

-----------------------------------------------------------------------------
(* The memory. *)

LEMMA Joined ==
    ASSUME NEW K, NEW s \in Seq(K), NEW t \in Seq(K)
    PROVE  /\ s \o t \in Seq(K) /\ ToSet(s \o t) = ToSet(s) \cup ToSet(t)
           /\ IsInjective(s \o t) <=> IsInjective(s) /\ IsInjective(t) /\ ToSet(s) \cap ToSet(t) = {}
  <1> DEFINE u == s \o t
             m == Len(s)
             n == Len(t)
  <1>0. /\ m \in Nat /\ n \in Nat /\ ToSet(s) = {s[i] : i \in 1 .. m} /\ ToSet(t) = {t[i] : i \in 1 .. n}
        /\ IsInjective(s) <=> Distinct(s, m)
        /\ IsInjective(t) <=> Distinct(t, n)
    BY Listed DEF Values
  <1>1. /\ u \in Seq(K) /\ Len(u) = m + n
        /\ \A i \in 1 .. m + n : u[i] = IF i <= m THEN s[i] ELSE t[i - m]
    BY ConcatProperties
  <1> HIDE DEF u, m, n
  <1>2. ToSet(u) = {u[i] : i \in 1 .. m + n} /\ (IsInjective(u) <=> Distinct(u, m + n))
    BY <1>1, Listed DEF Values
  <1>3. \A i \in 1 .. m : i \in 1 .. m + n /\ u[i] = s[i]
    BY <1>0, <1>1
  <1>4. ASSUME NEW i \in 1 .. n
        PROVE  m + i \in 1 .. m + n /\ u[m + i] = t[i]
    <2>1. m + i \in 1 .. m + n /\ ~(m + i <= m) /\ (m + i) - m = i
      BY <1>0
    <2>2. u[m + i] = IF m + i <= m THEN s[m + i] ELSE t[(m + i) - m]
      BY <1>1, <2>1
    <2> QED BY <2>1, <2>2
  <1>5. \A j \in 1 .. m + n : \/ j \in 1 .. m
                              \/ \E i \in 1 .. n : j = m + i
    <2> SUFFICES ASSUME NEW j \in 1 .. m + n, j \notin 1 .. m PROVE \E i \in 1 .. n : j = m + i
      OBVIOUS
    <2>1. j - m \in 1 .. n /\ j = m + (j - m)
      BY <1>0
    <2> QED BY <2>1
  <1>6. ToSet(u) = ToSet(s) \cup ToSet(t)
    <2>1. ASSUME NEW j \in 1 .. m + n
          PROVE  u[j] \in ToSet(s) \cup ToSet(t)
      <3>1. CASE j \in 1 .. m
        BY <1>0, <1>3, <3>1
      <3>2. CASE \E i \in 1 .. n : j = m + i
        BY <1>0, <1>4, <3>2
      <3> QED BY <1>5, <3>1, <3>2
    <2>2. \A x \in ToSet(s) \cup ToSet(t) : \E j \in 1 .. m + n : u[j] = x
      BY <1>0, <1>3, <1>4
    <2> QED BY <1>2, <2>1, <2>2
  <1>7. ASSUME Distinct(u, m + n)
        PROVE  Distinct(s, m) /\ Distinct(t, n) /\ ToSet(s) \cap ToSet(t) = {}
    <2>1. Distinct(s, m)
      BY <1>3, <1>7 DEF Distinct
    <2>2. ASSUME NEW i \in 1 .. n, NEW j \in 1 .. n, t[i] = t[j]
          PROVE  i = j
      <3>1. m + i = m + j
        BY <1>4, <1>7, <2>2 DEF Distinct
      <3> QED BY <1>0, <3>1
    <2>3. ASSUME NEW i \in 1 .. m, NEW j \in 1 .. n, s[i] = t[j]
          PROVE  FALSE
      <3>1. i = m + j
        BY <1>3, <1>4, <1>7, <2>3 DEF Distinct
      <3> QED BY <1>0, <3>1
    <2>4. ToSet(s) \cap ToSet(t) = {}
      BY <1>0, <2>3
    <2> QED BY <2>1, <2>2, <2>4 DEF Distinct
  <1>8. ASSUME Distinct(s, m), Distinct(t, n), ToSet(s) \cap ToSet(t) = {}
        PROVE  Distinct(u, m + n)
    <2> SUFFICES ASSUME NEW i \in 1 .. m + n, NEW j \in 1 .. m + n, u[i] = u[j] PROVE i = j
      BY DEF Distinct
    <2>0. \A a \in 1 .. m, b \in 1 .. n : s[a] # t[b]
      BY <1>0, <1>8
    <2>1. CASE i \in 1 .. m /\ j \in 1 .. m
      BY <1>3, <1>8, <2>1 DEF Distinct
    <2>2. CASE i \notin 1 .. m /\ j \notin 1 .. m
      <3>1. PICK a \in 1 .. n : i = m + a
        BY <1>5, <2>2
      <3>2. PICK b \in 1 .. n : j = m + b
        BY <1>5, <2>2
      <3>3. t[a] = t[b]
        BY <1>4, <3>1, <3>2
      <3> QED BY <1>8, <3>1, <3>2, <3>3 DEF Distinct
    <2>3. CASE i \in 1 .. m /\ j \notin 1 .. m
      BY <1>3, <1>4, <1>5, <2>0, <2>3
    <2>4. CASE i \notin 1 .. m /\ j \in 1 .. m
      BY <1>3, <1>4, <1>5, <2>0, <2>4
    <2> QED BY <2>1, <2>2, <2>3, <2>4
  <1>9. IsInjective(u) <=> IsInjective(s) /\ IsInjective(t) /\ ToSet(s) \cap ToSet(t) = {}
    BY <1>0, <1>2, <1>7, <1>8
  <1> QED BY <1>1, <1>6, <1>9 DEF u

LEMMA Split ==
    ASSUME NEW K, NEW s \in Seq(K), NEW n \in 0 .. Len(s)
    PROVE  LET front == SubSeq(s, 1, n)
               back == SubSeq(s, n + 1, Len(s))
           IN  front \in Seq(K) /\ back \in Seq(K) /\ front \o back = s
  <1> DEFINE front == SubSeq(s, 1, n)
             back == SubSeq(s, n + 1, Len(s))
  <1>1. Len(s) \in Nat /\ \A i \in 1 .. Len(s) : s[i] \in K
    BY Listed
  <1>2. front \in Seq(K)
    BY <1>1, SubSeqProperties
  <1>3. back \in Seq(K)
    BY <1>1, SubSeqProperties
  <1>4. /\ 1 \in 1 .. Len(s) + 1 /\ n \in 1 - 1 .. Len(s) /\ Len(s) \in n .. Len(s)
    BY <1>1
  <1>5. front \o back = SubSeq(s, 1, Len(s))
    BY <1>4, ConcatAdjacentSubSeq
  <1>6. SubSeq(s, 1, Len(s)) = s
    BY SubSeqFull
  <1> QED BY <1>2, <1>3, <1>5, <1>6

BytesIn(keys) == UNION {{k} \X (1 .. Size[k]) : k \in keys}

LEMMA BytesFinite ==
    ASSUME NEW s \in Seq(Keys)
    PROVE  /\ IsFiniteSet(BytesIn(ToSet(s))) /\ Bytes(s) = Cardinality(BytesIn(ToSet(s)))
           /\ Bytes(s) \in Nat
  <1> DEFINE part(k) == {k} \X (1 .. Size[k])
             parts == {part(k) : k \in ToSet(s)}
             list == [i \in 1 .. Len(s) |-> part(s[i])]
  <1>0. /\ Len(s) \in Nat /\ ToSet(s) = {s[i] : i \in 1 .. Len(s)} /\ ToSet(s) \subseteq Keys
    BY Listed DEF Values
  <1>1. list \in Surjection(1 .. Len(s), parts)
    BY <1>0 DEF Surjection
  <1>2. IsFiniteSet(1 .. Len(s))
    BY <1>0, FS_Interval
  <1> HIDE DEF list
  <1>3. IsFiniteSet(parts)
    BY <1>1, <1>2, FS_Surjection
  <1>4. ASSUME NEW k \in ToSet(s)
        PROVE  IsFiniteSet(part(k))
    <2>1. Size[k] \in Nat
      BY <1>0, RangeAssumption
    <2>2. IsFiniteSet(1 .. Size[k])
      BY <2>1, FS_Interval
    <2>3. IsFiniteSet({k})
      BY FS_Singleton
    <2> QED BY <2>2, <2>3, FS_Product
  <1>5. IsFiniteSet(UNION parts)
    BY <1>3, <1>4, FS_UNION
  <1>6. BytesIn(ToSet(s)) = UNION parts
    BY DEF BytesIn
  <1>7. Bytes(s) = Cardinality(BytesIn(ToSet(s)))
    BY DEF Bytes, Content, BytesIn
  <1> QED BY <1>5, <1>6, <1>7, FS_CardinalityType

LEMMA BytesLess ==
    ASSUME NEW s \in Seq(Keys), NEW t \in Seq(Keys), ToSet(s) \subseteq ToSet(t)
    PROVE  Bytes(s) <= Bytes(t)
  <1>1. BytesIn(ToSet(s)) \subseteq BytesIn(ToSet(t))
    BY DEF BytesIn
  <1> QED BY <1>1, BytesFinite, FS_Subset

LEMMA BytesAdd ==
    ASSUME NEW s \in Seq(Keys), NEW t \in Seq(Keys), ToSet(s) \cap ToSet(t) = {}
    PROVE  Bytes(s) + Bytes(t) = Cardinality(BytesIn(ToSet(s) \cup ToSet(t)))
  <1> DEFINE S == BytesIn(ToSet(s))
             T == BytesIn(ToSet(t))
  <1>1. /\ IsFiniteSet(S) /\ Bytes(s) = Cardinality(S) /\ Bytes(s) \in Nat
        /\ IsFiniteSet(T) /\ Bytes(t) = Cardinality(T) /\ Bytes(t) \in Nat
    BY BytesFinite
  <1>2. S \cap T = {} /\ BytesIn(ToSet(s) \cup ToSet(t)) = S \cup T
    BY DEF BytesIn
  <1> HIDE DEF S, T
  <1>3. Cardinality(S \cup T) = Cardinality(S) + Cardinality(T) - Cardinality(S \cap T)
    BY <1>1, FS_Union
  <1>4. Cardinality(S \cap T) = 0
    BY <1>2, FS_EmptySet
  <1>5. Cardinality(S \cup T) = Bytes(s) + Bytes(t)
    BY <1>1, <1>3, <1>4
  <1> QED BY <1>2, <1>5

\* What must go is found, since nothing takes no bytes.
LEMMA SurplusFits ==
    ASSUME NEW s \in Seq(Keys), NEW limit \in Nat
    PROVE  /\ Surplus(s, limit) \in 0 .. Len(s)
           /\ Bytes(SubSeq(s, Surplus(s, limit) + 1, Len(s))) <= limit
  <1> DEFINE I == {n \in 0 .. Len(s) : Bytes(SubSeq(s, n + 1, Len(s))) <= limit}
  <1>0. Len(s) \in Nat
    BY Listed
  <1>1. SubSeq(s, Len(s) + 1, Len(s)) = <<>>
    BY <1>0, SubSeqEmpty
  <1>2. Bytes(<<>>) = 0
    <2>1. ToSet(<<>>) = {}
      BY DEF ToSet
    <2>2. Content(<<>>) = {}
      BY <2>1 DEF Content
    <2> QED BY <2>2, FS_EmptySet DEF Bytes
  <1>3. Len(s) \in I
    <2>1. Bytes(SubSeq(s, Len(s) + 1, Len(s))) <= limit
      <3>1. \A t : t = <<>> => Bytes(t) = 0
        BY <1>2
      <3>2. Bytes(SubSeq(s, Len(s) + 1, Len(s))) = 0
        BY ONLY <1>1, <3>1, Zenon
      <3> QED BY <3>2
    <2> QED BY <1>0, <2>1
  <1>4. I \subseteq Nat
    BY <1>0
  <1>5. Min(I) \in I
    BY <1>3, <1>4, MinIs
  <1>6. Surplus(s, limit) = Min(I)
    BY DEF Surplus
  <1> HIDE DEF I
  <1>7. Surplus(s, limit) \in I
    BY <1>5, <1>6
  <1> QED BY <1>7 DEF I

\* The two parts of a memory: lists without a range in common.
Parts(prob, prot) == prob \in Seq(Keys) /\ prot \in Seq(Keys) /\ IsInjective(prob \o prot)

LEMMA PartsAre ==
    ASSUME NEW prob, NEW prot
    PROVE  Parts(prob, prot) <=>
             /\ prob \in Seq(Keys) /\ prot \in Seq(Keys)
             /\ IsInjective(prob) /\ IsInjective(prot) /\ ToSet(prob) \cap ToSet(prot) = {}
  BY Joined DEF Parts

LEMMA ProtectMoves ==
    ASSUME NEW prob, NEW prot, NEW k \in Keys, Parts(prob, prot)
    PROVE  LET after == Protect(prob, prot, k)
           IN  /\ Parts(after.prob, after.prot)
               /\ ToSet(after.prob) \cup ToSet(after.prot) = ToSet(prob) \cup ToSet(prot) \cup {k}
               /\ ToSet(prob) \ {k} \subseteq ToSet(after.prob)
               /\ Bytes(after.prot) <= MemoryBytes
  <1> DEFINE rest == Without(prot, k)
             keys == Append(rest, k)
             limit == (MemoryBytes * 3) \div 4
             n == Surplus(keys, limit)
             front == SubSeq(keys, 1, n)
             back == SubSeq(keys, n + 1, Len(keys))
             left == Without(prob, k)
             after == Protect(prob, prot, k)
  <1>0. /\ prob \in Seq(Keys) /\ prot \in Seq(Keys)
        /\ IsInjective(prob) /\ IsInjective(prot) /\ ToSet(prob) \cap ToSet(prot) = {}
    BY PartsAre
  <1>1. after = [prot |-> back, prob |-> left \o front]
    BY DEF Protect
  <1>2. limit \in Nat /\ limit <= MemoryBytes
    BY RangeAssumption
  <1>3. rest \in Seq(Keys) /\ IsInjective(rest) /\ ToSet(rest) = ToSet(prot) \ {k}
    BY <1>0, WithoutRemoves DEF Removes
  <1>4. left \in Seq(Keys) /\ IsInjective(left) /\ ToSet(left) = ToSet(prob) \ {k}
    BY <1>0, WithoutRemoves DEF Removes
  <1> HIDE DEF rest, left, limit, after
  <1>5. keys \in Seq(Keys) /\ IsInjective(keys) /\ ToSet(keys) = ToSet(prot) \cup {k}
    <2>1. k \notin ToSet(rest)
      BY <1>3
    <2>2. keys \in Seq(Keys) /\ IsInjective(keys) /\ ToSet(keys) = ToSet(rest) \cup {k}
      BY <1>3, <2>1, Appended
    <2> QED BY <1>3, <2>2
  <1> HIDE DEF keys
  <1>6. n \in 0 .. Len(keys) /\ Bytes(back) <= limit
    BY <1>2, <1>5, SurplusFits
  <1> HIDE DEF n
  <1>7. front \in Seq(Keys) /\ back \in Seq(Keys) /\ front \o back = keys
    BY <1>5, <1>6, Split
  <1> HIDE DEF front, back
  <1>8. /\ IsInjective(front) /\ IsInjective(back) /\ ToSet(front) \cap ToSet(back) = {}
        /\ ToSet(front) \cup ToSet(back) = ToSet(prot) \cup {k}
    BY <1>5, <1>7, Joined
  <1>9. /\ left \o front \in Seq(Keys) /\ ToSet(left \o front) = ToSet(left) \cup ToSet(front)
        /\ IsInjective(left \o front)
    <2>1. ToSet(left) \cap ToSet(front) = {}
      BY <1>0, <1>4, <1>8
    <2> QED BY <1>4, <1>7, <1>8, <2>1, Joined
  <1>10. ToSet(left \o front) \cap ToSet(back) = {}
    BY <1>0, <1>4, <1>8, <1>9
  <1>11. after.prot = back /\ after.prob = left \o front
    BY <1>1
  <1>12. Parts(left \o front, back)
    BY <1>7, <1>8, <1>9, <1>10, PartsAre
  <1>13. /\ ToSet(left \o front) \cup ToSet(back) = ToSet(prob) \cup ToSet(prot) \cup {k}
         /\ ToSet(prob) \ {k} \subseteq ToSet(left \o front)
    BY <1>4, <1>8, <1>9
  <1>14. Bytes(back) <= MemoryBytes
    BY <1>2, <1>6, <1>7, BytesFinite, RangeAssumption
  <1>15. /\ Parts(after.prob, after.prot)
         /\ ToSet(after.prob) \cup ToSet(after.prot) = ToSet(prob) \cup ToSet(prot) \cup {k}
         /\ ToSet(prob) \ {k} \subseteq ToSet(after.prob)
         /\ Bytes(after.prot) <= MemoryBytes
    BY <1>11, <1>12, <1>13, <1>14
  <1> QED BY <1>15 DEF after

\* Where a range is kept makes no difference to the bytes.
LEMMA SameBytes ==
    ASSUME NEW prob, NEW prot, NEW prob2, NEW prot2, Parts(prob, prot), Parts(prob2, prot2),
           ToSet(prob2) \cup ToSet(prot2) = ToSet(prob) \cup ToSet(prot)
    PROVE  Bytes(prob2) + Bytes(prot2) = Bytes(prob) + Bytes(prot)
  <1>1. Bytes(prob) + Bytes(prot) = Cardinality(BytesIn(ToSet(prob) \cup ToSet(prot)))
    BY PartsAre, BytesAdd
  <1>2. Bytes(prob2) + Bytes(prot2) = Cardinality(BytesIn(ToSet(prob2) \cup ToSet(prot2)))
    BY PartsAre, BytesAdd
  <1> QED BY <1>1, <1>2

LEMMA TouchedKeeps ==
    ASSUME NEW k \in Keys, NEW priority \in {"critical", "prefetch"}, Cached(k), Parts(probation, protected)
    PROVE  LET after == Touched(k, priority)
           IN  /\ Parts(after.prob, after.prot)
               /\ ToSet(after.prob) \cup ToSet(after.prot) = ToSet(probation) \cup ToSet(protected)
               /\ priority = "critical" => ToSet(probation) \ {k} \subseteq ToSet(after.prob)
               /\ priority = "prefetch" => ToSet(probation) \subseteq ToSet(after.prob)
  <1> DEFINE after == Touched(k, priority)
  <1>0. k \in ToSet(probation) \cup ToSet(protected)
    BY DEF Cached
  <1>1. CASE priority = "critical"
    <2>1. after = Protect(probation, protected, k)
      BY <1>1 DEF Touched
    <2> HIDE DEF after
    <2>2. /\ Parts(after.prob, after.prot)
          /\ ToSet(after.prob) \cup ToSet(after.prot) = ToSet(probation) \cup ToSet(protected) \cup {k}
          /\ ToSet(probation) \ {k} \subseteq ToSet(after.prob)
      BY <2>1, ProtectMoves
    <2>3. ToSet(probation) \cup ToSet(protected) \cup {k} = ToSet(probation) \cup ToSet(protected)
      BY <1>0
    <2>4. /\ Parts(after.prob, after.prot)
          /\ ToSet(after.prob) \cup ToSet(after.prot) = ToSet(probation) \cup ToSet(protected)
          /\ ToSet(probation) \ {k} \subseteq ToSet(after.prob)
      BY <2>2, <2>3
    <2> QED BY <1>1, <2>4 DEF after
  <1>2. CASE priority = "prefetch"
    <2> DEFINE left == Without(probation, k)
               again == Append(left, k)
               list == IF k \in ToSet(probation) THEN again ELSE probation
    <2>1. after.prot = protected /\ after.prob = list
      BY <1>2 DEF Touched
    <2> HIDE DEF after
    <2>2. /\ probation \in Seq(Keys) /\ protected \in Seq(Keys) /\ IsInjective(probation)
          /\ IsInjective(protected) /\ ToSet(probation) \cap ToSet(protected) = {}
      BY PartsAre
    <2>3. left \in Seq(Keys) /\ IsInjective(left) /\ ToSet(left) = ToSet(probation) \ {k}
      BY <2>2, WithoutRemoves DEF Removes
    <2> HIDE DEF left
    <2>4. again \in Seq(Keys) /\ IsInjective(again) /\ ToSet(again) = ToSet(left) \cup {k}
      <3>1. k \notin ToSet(left)
        BY <2>3
      <3> QED BY <2>3, <3>1, Appended
    <2> HIDE DEF again
    <2>5. list \in Seq(Keys) /\ IsInjective(list) /\ ToSet(list) = ToSet(probation)
      BY <2>2, <2>3, <2>4
    <2> HIDE DEF list
    <2>6. Parts(list, protected)
      BY <2>2, <2>5, PartsAre
    <2>7. /\ Parts(after.prob, after.prot)
          /\ ToSet(after.prob) \cup ToSet(after.prot) = ToSet(probation) \cup ToSet(protected)
          /\ ToSet(probation) \subseteq ToSet(after.prob)
      BY <2>1, <2>5, <2>6
    <2> QED BY <1>2, <2>7 DEF after
  <1> QED BY <1>1, <1>2

LEMMA PutFits ==
    ASSUME NEW k \in Keys, NEW priority \in {"critical", "prefetch"}, ~Cached(k),
           Parts(probation, protected), Bytes(protected) <= MemoryBytes
    PROVE  LET after == Put(k, priority)
           IN  /\ Parts(after.prob, after.prot)
               /\ ToSet(after.prob) \cup ToSet(after.prot) \subseteq ToSet(probation) \cup ToSet(protected) \cup {k}
               /\ Bytes(after.prob) + Bytes(after.prot) <= MemoryBytes
               /\ ToSet(after.prot) \cap ToSet(probation) = {}
               /\ priority = "prefetch" => k \notin ToSet(after.prot)
  <1> DEFINE placed == IF priority = "critical" THEN Protect(probation, protected, k)
                       ELSE [prot |-> protected, prob |-> Append(probation, k)]
             limit == MemoryBytes - Bytes(placed.prot)
             n == Surplus(placed.prob, limit)
             front == SubSeq(placed.prob, 1, n)
             back == SubSeq(placed.prob, n + 1, Len(placed.prob))
             after == Put(k, priority)
  <1>0. /\ probation \in Seq(Keys) /\ protected \in Seq(Keys) /\ IsInjective(probation)
        /\ IsInjective(protected) /\ ToSet(probation) \cap ToSet(protected) = {}
        /\ k \notin ToSet(probation) /\ k \notin ToSet(protected)
    BY PartsAre DEF Cached
  <1>1. /\ Parts(placed.prob, placed.prot)
        /\ ToSet(placed.prob) \cup ToSet(placed.prot) = ToSet(probation) \cup ToSet(protected) \cup {k}
        /\ Bytes(placed.prot) <= MemoryBytes
        /\ ToSet(placed.prot) \cap ToSet(probation) = {}
        /\ priority = "prefetch" => k \notin ToSet(placed.prot)
    <2>1. CASE priority = "critical"
      <3>1. placed = Protect(probation, protected, k)
        BY <2>1
      <3> HIDE DEF placed
      <3>2. /\ Parts(placed.prob, placed.prot)
            /\ ToSet(placed.prob) \cup ToSet(placed.prot) = ToSet(probation) \cup ToSet(protected) \cup {k}
            /\ ToSet(probation) \ {k} \subseteq ToSet(placed.prob)
            /\ Bytes(placed.prot) <= MemoryBytes
        BY <3>1, ProtectMoves
      <3>3. ToSet(placed.prot) \cap ToSet(probation) = {}
        BY <1>0, <3>2, PartsAre
      <3> QED BY <2>1, <3>2, <3>3
    <2>2. CASE priority = "prefetch"
      <3> DEFINE list == Append(probation, k)
      <3>1. placed.prot = protected /\ placed.prob = list
        BY <2>2
      <3> HIDE DEF placed
      <3>2. list \in Seq(Keys) /\ IsInjective(list) /\ ToSet(list) = ToSet(probation) \cup {k}
        BY <1>0, Appended
      <3> HIDE DEF list
      <3>3. Parts(list, protected)
        BY <1>0, <3>2, PartsAre
      <3> QED BY <1>0, <3>1, <3>2, <3>3
    <2> QED BY <2>1, <2>2
  <1>2. after.prot = placed.prot /\ after.prob = back
    <2>1. after = [placed EXCEPT !.prob = back]
      BY DEF Put
    <2>2. placed = [prot |-> placed.prot, prob |-> placed.prob]
      BY DEF Protect
    <2> HIDE DEF placed, back, after
    <2>3. [[prot |-> placed.prot, prob |-> placed.prob] EXCEPT !.prob = back] = [prot |-> placed.prot, prob |-> back]
      OBVIOUS
    <2> QED BY <2>1, <2>2, <2>3
  <1> HIDE DEF placed, after
  <1>3. placed.prob \in Seq(Keys) /\ placed.prot \in Seq(Keys)
    BY <1>1, PartsAre
  <1>4. Bytes(placed.prot) \in Nat
    BY <1>3, BytesFinite
  <1>5. limit \in Nat
    BY <1>1, <1>4, RangeAssumption
  <1>6. n \in 0 .. Len(placed.prob) /\ Bytes(back) <= limit
    BY <1>3, <1>5, SurplusFits
  <1> HIDE DEF n
  <1>7. front \in Seq(Keys) /\ back \in Seq(Keys) /\ front \o back = placed.prob
    BY <1>3, <1>6, Split
  <1> HIDE DEF front, back
  <1>8. IsInjective(back) /\ ToSet(back) \subseteq ToSet(placed.prob)
    <2>1. IsInjective(placed.prob)
      BY <1>1, PartsAre
    <2>2. IsInjective(front \o back) /\ ToSet(front \o back) = ToSet(placed.prob)
      BY <1>7, <2>1
    <2>0. front \in Seq(Keys) /\ back \in Seq(Keys)
      BY <1>7
    <2>3. ToSet(front \o back) = ToSet(front) \cup ToSet(back)
      BY <2>0, Joined
    <2>4. IsInjective(back)
      BY <2>0, <2>2, Joined
    <2> QED BY <2>2, <2>3, <2>4
  <1>9. Parts(back, placed.prot)
    BY <1>1, <1>7, <1>8, PartsAre
  <1>10. Bytes(back) + Bytes(placed.prot) <= MemoryBytes
    BY <1>4, <1>6, <1>7, BytesFinite, RangeAssumption
  <1>11. /\ Parts(after.prob, after.prot)
         /\ ToSet(after.prob) \cup ToSet(after.prot) \subseteq ToSet(probation) \cup ToSet(protected) \cup {k}
         /\ Bytes(after.prob) + Bytes(after.prot) <= MemoryBytes
         /\ ToSet(after.prot) \cap ToSet(probation) = {}
         /\ priority = "prefetch" => k \notin ToSet(after.prot)
    BY <1>1, <1>2, <1>8, <1>9, <1>10
  <1> QED BY <1>11 DEF after

-----------------------------------------------------------------------------
(* The steps. *)

Requests == [Keys -> Request \cup {NoRequest}]

LEMMA RequestFacts ==
    ASSUME NEW req \in Requests, NEW k \in Keys
    PROVE  /\ req[k] # NoRequest <=> req[k].at \in Places
           /\ req[k] # NoRequest => req[k] \in Request
           /\ NoRequest.at = "none" /\ "none" \notin Places
  <1>1. NoRequest.at = "none" /\ "none" \notin Places
    BY DEF NoRequest, Places
  <1>2. req[k] \in Request \/ req[k] = NoRequest
    BY DEF Requests
  <1>3. req[k] \in Request => req[k].at \in Places
    BY DEF Request
  <1> QED BY <1>1, <1>2, <1>3

LEMMA AllKnown ==
    ASSUME NEW req \in Requests, NEW S, S \subseteq Places
    PROVE  Known(req, AtIn(req, S))
  BY RequestFacts DEF Known, AtIn, Request

\* A change that moves nobody and changes no priority.
LEMMA StayInPlace ==
    ASSUME NEW pool \in Pool, NEW req, NEW other, \A k \in Keys : other[k].at = req[k].at,
           \A k \in Keys : other[k].priority = req[k].priority
    PROVE  (DiskIs(pool, req) => DiskIs(pool, other)) /\ (NetIs(pool, req) => NetIs(pool, other))
  <1>1. \A S : AtIn(other, S) = AtIn(req, S)
    BY DEF AtIn
  <1>2. \A S : \A x \in AtIn(req, S) : other[x].priority = req[x].priority
    BY DEF AtIn
  <1>3. ASSUME DiskIs(pool, req) PROVE DiskIs(pool, other)
    <2>1. Sound(pool, DiskSlots, AtIn(req, {"disk"}), AtIn(req, {"disk queue"}), other)
      <3>1. \A x \in AtIn(req, {"disk queue"}) : other[x].priority = req[x].priority
        BY <1>2
      <3> QED BY <1>3, <3>1, SoundFor DEF DiskIs
    <2>2. AtIn(other, {"disk"}) = AtIn(req, {"disk"}) /\ AtIn(other, {"disk queue"}) = AtIn(req, {"disk queue"})
      BY <1>1
    <2> QED BY <2>1, <2>2 DEF DiskIs
  <1>4. ASSUME NetIs(pool, req) PROVE NetIs(pool, other)
    <2>1. Sound(pool, NetSlots, AtIn(req, {"net", "decode"}), AtIn(req, {"net queue"}), other)
      <3>1. \A x \in AtIn(req, {"net queue"}) : other[x].priority = req[x].priority
        BY <1>2
      <3> QED BY <1>4, <3>1, SoundFor DEF NetIs
    <2>2. /\ AtIn(other, {"net", "decode"}) = AtIn(req, {"net", "decode"})
          /\ AtIn(other, {"net queue"}) = AtIn(req, {"net queue"})
      BY <1>1
    <2> QED BY <2>1, <2>2 DEF NetIs
  <1> QED BY <1>3, <1>4

\* More generally, what a pool is needs to be known of its own holders and queue only.
LEMMA DiskFor ==
    ASSUME NEW pool \in Pool, NEW holders, NEW queued, NEW req, NEW other,
           Sound(pool, DiskSlots, holders, queued, req),
           AtIn(other, {"disk"}) = holders, AtIn(other, {"disk queue"}) = queued,
           \A x \in queued : other[x].priority = req[x].priority
    PROVE  DiskIs(pool, other)
  BY SoundFor DEF DiskIs

LEMMA NetFor ==
    ASSUME NEW pool \in Pool, NEW holders, NEW queued, NEW req, NEW other,
           Sound(pool, NetSlots, holders, queued, req),
           AtIn(other, {"net", "decode"}) = holders, AtIn(other, {"net queue"}) = queued,
           \A x \in queued : other[x].priority = req[x].priority
    PROVE  NetIs(pool, other)
  BY SoundFor DEF NetIs

\* The request of k becomes next, and those that were woken get to their place.
Passes(other, k, woken, place, next) ==
    /\ other \in Requests /\ other[k] = next
    /\ \A x \in Keys \ {k} :
          other[x] = IF x \in woken THEN [request[x] EXCEPT !.at = place] ELSE request[x]

LEMMA MovedPasses ==
    ASSUME request \in Requests, NEW k \in Keys, NEW woken, NEW place \in Places,
           \A x \in woken : request[x] # NoRequest, NEW next \in Request \cup {NoRequest}
    PROVE  Passes([Moved(request, woken, place) EXCEPT ![k] = next], k, woken, place, next)
  <1> DEFINE moved == Moved(request, woken, place)
             other == [moved EXCEPT ![k] = next]
  <1>1. \A x \in Keys : moved[x] = IF x \in woken THEN [request[x] EXCEPT !.at = place] ELSE request[x]
    BY DEF Moved
  <1>2. ASSUME NEW x \in Keys
        PROVE  moved[x] \in Request \cup {NoRequest}
    <2>1. CASE x \in woken
      <3>1. request[x] \in Request
        BY <2>1, RequestFacts
      <3>2. [request[x] EXCEPT !.at = place] \in Request
        BY <3>1 DEF Request
      <3> QED BY <1>1, <2>1, <3>2
    <2>2. CASE x \notin woken
      BY <1>1, <2>2 DEF Requests
    <2> QED BY <2>1, <2>2
  <1>3. moved = [x \in Keys |-> moved[x]]
    BY DEF Moved
  <1> HIDE DEF moved
  <1>4. /\ other \in Requests /\ other[k] = next
        /\ \A x \in Keys \ {k} : other[x] = moved[x]
    BY <1>2, <1>3 DEF Requests
  <1> HIDE DEF other
  <1>5. Passes(other, k, woken, place, next)
    BY <1>1, <1>4 DEF Passes
  <1> QED BY <1>5 DEF other, moved

\* Whoever else has a request keeps all of it but its place.
Carried(other, k, woken, place) ==
    \A x \in Keys \ {k} :
        /\ other[x] # NoRequest <=> request[x] # NoRequest
        /\ other[x].at = IF x \in woken THEN place ELSE request[x].at
        /\ request[x] # NoRequest =>
              other[x].priority = request[x].priority /\ other[x].timer = request[x].timer

LEMMA Somewhere == NoRequest.at = "none"
  BY DEF NoRequest

LEMMA PassesKeeps ==
    ASSUME request \in Requests, NEW k \in Keys, NEW woken, NEW place \in Places, NEW next,
           \A x \in woken : request[x] # NoRequest,
           NEW other, Passes(other, k, woken, place, next)
    PROVE  Carried(other, k, woken, place)
  <1> SUFFICES ASSUME NEW x \in Keys \ {k}
               PROVE  /\ other[x] # NoRequest <=> request[x] # NoRequest
                      /\ other[x].at = IF x \in woken THEN place ELSE request[x].at
                      /\ request[x] # NoRequest =>
                            other[x].priority = request[x].priority /\ other[x].timer = request[x].timer
    BY DEF Carried
  <1>1. CASE x \in woken
    <2>1. request[x] \in Request /\ other[x] = [request[x] EXCEPT !.at = place]
      BY <1>1, RequestFacts DEF Passes
    <2>2. /\ other[x].at = place /\ other[x].priority = request[x].priority
          /\ other[x].timer = request[x].timer
      BY <2>1 DEF Request
    <2>3. other[x] # NoRequest
      BY <2>2, RequestFacts
    <2> QED BY <1>1, <2>2, <2>3
  <1>2. CASE x \notin woken
    BY <1>2 DEF Passes
  <1> QED BY <1>1, <1>2

InNet == {"net", "decode", "net queue"}

LEMMA DiskReleased ==
    ASSUME TypeInv, DiskIs(disk, request), NetIs(net, request), NEW k \in Keys, request[k].at = "disk",
           NEW next, next.at \notin {"disk", "disk queue"},
           NEW other, Passes(other, k, Woken(disk), "disk", next)
    PROVE  /\ Release(disk) \in Pool /\ DiskIs(Release(disk), other)
           /\ next.at \notin InNet => NetIs(net, other)
           /\ \A x \in Woken(disk) : request[x] # NoRequest
  <1> DEFINE H == AtIn(request, {"disk"})
             Q == AtIn(request, {"disk queue"})
  <1>0. request \in Requests /\ disk \in Pool /\ net \in Pool /\ "disk" \in Places /\ DiskSlots \in Nat
    BY RangeAssumption DEF TypeInv, Requests, Places
  <1>1. k \in H /\ H \cap Q = {}
    BY DEF AtIn
  <1>2. /\ Release(disk) \in Pool /\ Woken(disk) \subseteq Q
        /\ Sound(Release(disk), DiskSlots, (H \ {k}) \cup Woken(disk), Q \ Woken(disk), request)
    BY <1>0, <1>1, ReleaseSound DEF DiskIs
  <1>3. \A x \in Woken(disk) : x \in Keys /\ x # k /\ request[x].at = "disk queue" /\ request[x] # NoRequest
    BY <1>1, <1>2, Somewhere DEF AtIn
  <1>w. \A x \in Woken(disk) : request[x] # NoRequest
    BY <1>3
  <1>p. Carried(other, k, Woken(disk), "disk")
    BY <1>0, <1>w, PassesKeeps
  <1>4. \A x \in Keys \ {k} : other[x].at = IF x \in Woken(disk) THEN "disk" ELSE request[x].at
    BY <1>p DEF Carried
  <1>5. other[k].at \notin {"disk", "disk queue"}
    BY DEF Passes
  <1>6. AtIn(other, {"disk"}) = (H \ {k}) \cup Woken(disk)
    BY <1>3, <1>4, <1>5 DEF AtIn
  <1>7. AtIn(other, {"disk queue"}) = Q \ Woken(disk)
    BY <1>1, <1>4, <1>5 DEF AtIn
  <1>8. \A x \in Q \ Woken(disk) : other[x].priority = request[x].priority
    <2> SUFFICES ASSUME NEW x \in Q \ Woken(disk) PROVE other[x].priority = request[x].priority
      OBVIOUS
    <2>1. x \in Keys \ {k} /\ request[x] # NoRequest
      BY <1>1, Somewhere DEF AtIn
    <2> QED BY <1>p, <2>1 DEF Carried
  <1>9. DiskIs(Release(disk), other)
    <2>1. Sound(Release(disk), DiskSlots, (H \ {k}) \cup Woken(disk), Q \ Woken(disk), other)
      BY <1>2, <1>8, SoundFor
    <2> QED BY <1>6, <1>7, <2>1 DEF DiskIs
  <1>10. ASSUME next.at \notin InNet
         PROVE  NetIs(net, other)
    <2>1. other[k].at \notin InNet
      BY <1>10 DEF Passes
    <2>2. \A S \in SUBSET InNet : AtIn(other, S) = AtIn(request, S)
      BY <1>1, <1>3, <1>4, <2>1 DEF AtIn, InNet
    <2>3. /\ AtIn(other, {"net", "decode"}) = AtIn(request, {"net", "decode"})
          /\ AtIn(other, {"net queue"}) = AtIn(request, {"net queue"})
      BY <2>2 DEF InNet
    <2>4. ASSUME NEW x \in AtIn(request, {"net queue"})
          PROVE  other[x].priority = request[x].priority
      <3>1. x \in Keys \ {k} /\ request[x] # NoRequest
        BY <1>1, <2>4, Somewhere DEF AtIn
      <3> QED BY <1>p, <3>1 DEF Carried
    <2> QED BY <1>0, <2>3, <2>4, NetFor DEF NetIs
  <1> QED BY <1>2, <1>3, <1>9, <1>10

LEMMA NetReleased ==
    ASSUME TypeInv, DiskIs(disk, request), NetIs(net, request), NEW k \in Keys,
           request[k].at \in {"net", "decode"}, NEW next,
           next.at \notin InNet \cup {"disk", "disk queue"},
           NEW other, Passes(other, k, Woken(net), "net", next)
    PROVE  /\ Release(net) \in Pool /\ NetIs(Release(net), other) /\ DiskIs(disk, other)
           /\ \A x \in Woken(net) : request[x] # NoRequest
  <1> DEFINE H == AtIn(request, {"net", "decode"})
             Q == AtIn(request, {"net queue"})
  <1>0. request \in Requests /\ disk \in Pool /\ net \in Pool /\ "net" \in Places /\ NetSlots \in Nat
    BY RangeAssumption DEF TypeInv, Requests, Places
  <1>1. k \in H /\ H \cap Q = {}
    BY DEF AtIn
  <1>2. /\ Release(net) \in Pool /\ Woken(net) \subseteq Q
        /\ Sound(Release(net), NetSlots, (H \ {k}) \cup Woken(net), Q \ Woken(net), request)
    BY <1>0, <1>1, ReleaseSound DEF NetIs
  <1>3. \A x \in Woken(net) : x \in Keys /\ x # k /\ request[x].at = "net queue" /\ request[x] # NoRequest
    BY <1>1, <1>2, Somewhere DEF AtIn
  <1>w. \A x \in Woken(net) : request[x] # NoRequest
    BY <1>3
  <1>p. Carried(other, k, Woken(net), "net")
    BY <1>0, <1>w, PassesKeeps
  <1>4. \A x \in Keys \ {k} : other[x].at = IF x \in Woken(net) THEN "net" ELSE request[x].at
    BY <1>p DEF Carried
  <1>5. other[k].at \notin InNet \cup {"disk", "disk queue"}
    BY DEF Passes
  <1>6. AtIn(other, {"net", "decode"}) = (H \ {k}) \cup Woken(net)
    BY <1>3, <1>4, <1>5 DEF AtIn, InNet
  <1>7. AtIn(other, {"net queue"}) = Q \ Woken(net)
    BY <1>1, <1>4, <1>5 DEF AtIn, InNet
  <1>8. ASSUME NEW x \in Keys \ {k}, request[x].at \in Places
        PROVE  other[x].priority = request[x].priority
    <2>1. request[x] # NoRequest
      BY <1>8, Somewhere DEF Places
    <2> QED BY <1>p, <2>1 DEF Carried
  <1>9. NetIs(Release(net), other)
    <2>1. \A x \in Q \ Woken(net) : other[x].priority = request[x].priority
      BY <1>1, <1>8 DEF AtIn, Places
    <2>2. Sound(Release(net), NetSlots, (H \ {k}) \cup Woken(net), Q \ Woken(net), other)
      BY <1>2, <2>1, SoundFor
    <2> QED BY <1>6, <1>7, <2>2 DEF NetIs
  <1>10. DiskIs(disk, other)
    <2>1. AtIn(other, {"disk"}) = AtIn(request, {"disk"})
      BY <1>3, <1>4, <1>5 DEF AtIn
    <2>2. AtIn(other, {"disk queue"}) = AtIn(request, {"disk queue"})
      BY <1>3, <1>4, <1>5 DEF AtIn
    <2>3. \A x \in AtIn(request, {"disk queue"}) : other[x].priority = request[x].priority
      BY <1>8 DEF AtIn, Places
    <2> QED BY <1>0, <2>1, <2>2, <2>3, DiskFor DEF DiskIs
  <1> QED BY <1>2, <1>3, <1>9, <1>10

\* What a step that ends, moves or wakes requests leaves of the others.
LEMMA OthersAttended ==
    ASSUME TypeInv, Attended, NEW k \in Keys, NEW woken, NEW place,
           Carried(request', k, woken, place),
           \/ awaited' = awaited /\ \A c \in Consumers : awaited[c] # Nothing => awaited[c] # k
           \/ Answered(k)
    PROVE  Attended' /\ awaited' \in [Consumers -> Keys \cup {Nothing}]
  <1>1. awaited' \in [Consumers -> Keys \cup {Nothing}]
    BY DEF TypeInv, Answered
  <1>2. ASSUME NEW c \in Consumers, awaited'[c] # Nothing
        PROVE  awaited'[c] = awaited[c] /\ awaited[c] \in Keys \ {k} /\ awaited[c] # Nothing
    BY <1>2 DEF TypeInv, Answered
  <1>3. ASSUME NEW c \in Consumers, awaited'[c] # Nothing
        PROVE  request'[awaited'[c]] # NoRequest /\ ~request'[awaited'[c]].timer
    <2>1. request[awaited[c]] # NoRequest /\ ~request[awaited[c]].timer
      BY <1>2, <1>3 DEF Attended
    <2> QED BY <1>2, <1>3, <2>1 DEF Carried
  <1> QED BY <1>1, <1>3 DEF Attended

\* Nobody awaits a range whose grace period runs.
LEMMA Abandoned ==
    ASSUME Attended, NEW k, request[k].timer
    PROVE  \A c \in Consumers : awaited[c] # Nothing => awaited[c] # k
  BY DEF Attended

MemoryTyped == probation \in Seq(Keys) /\ protected \in Seq(Keys) /\ prefetched \subseteq Keys

LEMMA StoreKeeps ==
    ASSUME TypeInv, MemorySound, NEW k \in Keys, request[k] # NoRequest,
           Store(k) \/ UNCHANGED memory,
           request'[k] = NoRequest,
           \A x \in Keys \ {k} : request'[x] # NoRequest => request[x] # NoRequest
    PROVE  MemorySound' /\ MemoryTyped'
  <1>0. /\ Parts(probation, protected) /\ MemoryTyped /\ ~Cached(k)
        /\ request[k].priority \in {"critical", "prefetch"}
    BY DEF TypeInv, MemorySound, MemoryTyped, Parts, Request
  <1>1. CASE UNCHANGED memory
    <2>1. Cached(k)' = Cached(k) /\ \A x : Cached(x)' = Cached(x)
      BY <1>1 DEF Cached, memory
    <2> QED BY <1>0, <1>1, <2>1 DEF memory, MemorySound, MemoryTyped
  <1>2. CASE Store(k) /\ ~UNCHANGED memory
    <2> DEFINE priority == request[k].priority
    <2>1. PICK after \in {Put(k, priority)} :
             /\ probation' = after.prob /\ protected' = after.prot
             /\ prefetched' = (prefetched \cup (IF priority = "prefetch" THEN {k} ELSE {}))
                                 \cap (ToSet(after.prob) \cup ToSet(after.prot))
      BY <1>2 DEF Store
    <2>2. after = Put(k, priority)
      BY <2>1
    <2>3. Bytes(protected) <= MemoryBytes
      BY <1>0, BytesFinite, RangeAssumption DEF MemorySound, MemoryTyped
    <2> HIDE DEF priority
    <2>4. /\ Parts(after.prob, after.prot)
          /\ ToSet(after.prob) \cup ToSet(after.prot) \subseteq ToSet(probation) \cup ToSet(protected) \cup {k}
          /\ Bytes(after.prob) + Bytes(after.prot) <= MemoryBytes
          /\ ToSet(after.prot) \cap ToSet(probation) = {}
          /\ priority = "prefetch" => k \notin ToSet(after.prot)
      BY <1>0, <2>2, <2>3, PutFits DEF priority
    <2>5. /\ Parts(probation, protected)'
          /\ ToSet(probation)' \cup ToSet(protected)' \subseteq ToSet(probation) \cup ToSet(protected) \cup {k}
          /\ (Bytes(probation) + Bytes(protected) <= MemoryBytes)'
      BY <2>1, <2>4
    <2>6. prefetched' \subseteq ToSet(probation')
      <3>1. ToSet(after.prot) \cap prefetched = {}
        BY <2>4 DEF MemorySound
      <3> QED BY <2>1, <2>4, <3>1
    <2>7. prefetched' \subseteq Keys
      BY <2>1, <1>0 DEF MemoryTyped
    <2>8. ASSUME NEW x \in Keys, request'[x] # NoRequest
          PROVE  ~Cached(x)'
      <3>1. x # k /\ request[x] # NoRequest
        BY <2>8
      <3>2. x \notin ToSet(probation) \cup ToSet(protected)
        BY <3>1 DEF MemorySound, Cached
      <3> QED BY <2>5, <3>1, <3>2 DEF Cached
    <2> QED BY <2>5, <2>6, <2>7, <2>8 DEF MemorySound, MemoryTyped, Parts
  <1> QED BY <1>1, <1>2

\* Steps that do not touch the memory and begin no request.
LEMMA MemoryStays ==
    ASSUME TypeInv, MemorySound, UNCHANGED memory,
           \A x \in Keys : request'[x] # NoRequest => request[x] # NoRequest
    PROVE  MemorySound' /\ MemoryTyped'
  <1>1. \A x : Cached(x)' = Cached(x)
    BY DEF Cached, memory
  <1> QED BY <1>1 DEF memory, MemorySound, MemoryTyped, TypeInv

-----------------------------------------------------------------------------
(* Consumers. *)

LEMMA FetchCachedKeeps ==
    ASSUME Inv, NEW c \in Consumers, NEW k \in Keys, FetchCached(c, k)
    PROVE  Inv'
  <1> DEFINE after == Touched(k, PriorityOf(c))
  <1>0. TypeInv /\ MemorySound /\ Parts(probation, protected) /\ Cached(k)
        /\ PriorityOf(c) \in {"critical", "prefetch"}
    BY DEF Inv, TypeInv, MemorySound, Parts, FetchCached, PriorityOf
  <1>1. /\ probation' = after.prob /\ protected' = after.prot
        /\ prefetched' = IF c \in Visible THEN prefetched \ {k} ELSE prefetched
        /\ UNCHANGED <<request, awaited, disk, net>>
    BY DEF FetchCached, pools
  <1>2. /\ Parts(after.prob, after.prot)
        /\ ToSet(after.prob) \cup ToSet(after.prot) = ToSet(probation) \cup ToSet(protected)
        /\ PriorityOf(c) = "critical" => ToSet(probation) \ {k} \subseteq ToSet(after.prob)
        /\ PriorityOf(c) = "prefetch" => ToSet(probation) \subseteq ToSet(after.prob)
    BY <1>0, TouchedKeeps
  <1> HIDE DEF after
  <1>3. Bytes(after.prob) + Bytes(after.prot) = Bytes(probation) + Bytes(protected)
    BY <1>0, <1>2, SameBytes
  <1>4. prefetched' \subseteq ToSet(after.prob) /\ prefetched' \subseteq Keys
    BY <1>0, <1>1, <1>2 DEF PriorityOf, MemorySound, TypeInv
  <1>5. \A x \in Keys : request'[x] # NoRequest => ~Cached(x)'
    BY <1>0, <1>1, <1>2 DEF MemorySound, Cached
  <1>6. (Bytes(probation) + Bytes(protected) <= MemoryBytes)'
    BY <1>0, <1>1, <1>3 DEF MemorySound
  <1>7. MemorySound' /\ MemoryTyped'
    BY <1>1, <1>2, <1>4, <1>5, <1>6 DEF MemorySound, MemoryTyped, Parts
  <1>8. PoolsSound' /\ Attended'
    BY <1>1 DEF Inv, PoolsSound, Attended
  <1> QED BY <1>0, <1>1, <1>7, <1>8 DEF Inv, TypeInv, MemoryTyped

LEMMA FetchInFlightKeeps ==
    ASSUME Inv, NEW c \in Consumers, NEW k \in Keys, FetchInFlight(c, k)
    PROVE  Inv'
  <1> DEFINE promote == c \in Visible /\ request[k].priority = "prefetch"
             joined == [request[k] EXCEPT !.timer = FALSE,
                                          !.priority = IF promote THEN "critical" ELSE @]
             req == [request EXCEPT ![k] = joined]
  <1>0. /\ TypeInv /\ MemorySound /\ Attended /\ DiskIs(disk, request) /\ NetIs(net, request)
        /\ request \in Requests /\ disk \in Pool /\ net \in Pool
    BY DEF Inv, TypeInv, PoolsSound, Requests
  <1>1. /\ awaited' = [awaited EXCEPT ![c] = k] /\ request[k] # NoRequest /\ UNCHANGED memory
        /\ disk' = IF promote THEN Promoted(disk, k, req) ELSE disk
        /\ net' = IF promote THEN Promoted(net, k, req) ELSE net
        /\ request' = req
    <2> DEFINE sent == [request EXCEPT ![k].timer = FALSE,
                                       ![k].priority = IF promote THEN "critical" ELSE @]
    <2>1. sent = req
      <3>1. request[k] \in Request
        BY <1>0, RequestFacts DEF FetchInFlight
      <3>2. [[request[k] EXCEPT !.timer = FALSE] EXCEPT !.priority = IF promote THEN "critical" ELSE @] = joined
        BY <3>1 DEF Request
      <3> QED BY <1>0, <3>1, <3>2 DEF Requests
    <2>2. /\ awaited' = [awaited EXCEPT ![c] = k] /\ request[k] # NoRequest /\ UNCHANGED memory
          /\ disk' = IF promote THEN Promoted(disk, k, sent) ELSE disk
          /\ net' = IF promote THEN Promoted(net, k, sent) ELSE net
          /\ request' = sent
      BY DEF FetchInFlight
    <2> HIDE DEF sent, req
    <2> QED BY <2>1, <2>2
  <1>2. request[k] \in Request
    BY <1>0, <1>1, RequestFacts
  <1>3. /\ joined \in Request /\ joined.at = request[k].at /\ ~joined.timer
        /\ joined.priority = IF promote THEN "critical" ELSE request[k].priority
    BY <1>2 DEF Request
  <1> HIDE DEF joined
  <1>4. /\ req \in Requests /\ req[k] = joined /\ \A x \in Keys \ {k} : req[x] = request[x]
    BY <1>0, <1>3 DEF Requests
  <1> HIDE DEF req
  <1>5. joined # NoRequest
    BY <1>2, <1>3, Somewhere DEF Request, Places
  <1>6. \A S : AtIn(req, S) = AtIn(request, S)
    BY <1>3, <1>4 DEF AtIn
  <1>7. DiskIs(disk', req) /\ disk' \in Pool /\ NetIs(net', req) /\ net' \in Pool
    <2>1. CASE promote
      <3>1. "disk queue" \in Places /\ "net queue" \in Places /\ "critical" \in {"critical", "prefetch"}
        BY DEF Places
      <3>2. /\ Known(req, AtIn(request, {"disk queue"}) \cup {k})
            /\ Known(req, AtIn(request, {"net queue"}) \cup {k})
        BY <1>3, <1>4, <1>6, <2>1, AllKnown DEF Known, Places
      <3>3. /\ Promoted(disk, k, req) \in Pool
            /\ Sound(Promoted(disk, k, req), DiskSlots, AtIn(request, {"disk"}), AtIn(request, {"disk queue"}), req)
        <4>1. \A x \in AtIn(request, {"disk queue"}) \ {k} : req[x].priority = request[x].priority
          BY <1>4 DEF AtIn
        <4> QED BY <1>0, <3>2, <4>1, PromotedSound DEF DiskIs
      <3>4. /\ Promoted(net, k, req) \in Pool
            /\ Sound(Promoted(net, k, req), NetSlots, AtIn(request, {"net", "decode"}), AtIn(request, {"net queue"}), req)
        <4>1. \A x \in AtIn(request, {"net queue"}) \ {k} : req[x].priority = request[x].priority
          BY <1>4 DEF AtIn
        <4> QED BY <1>0, <3>2, <4>1, PromotedSound DEF NetIs
      <3>5. disk' = Promoted(disk, k, req) /\ net' = Promoted(net, k, req)
        BY <1>1, <2>1
      <3>6. /\ AtIn(req, {"disk"}) = AtIn(request, {"disk"})
            /\ AtIn(req, {"disk queue"}) = AtIn(request, {"disk queue"})
            /\ AtIn(req, {"net", "decode"}) = AtIn(request, {"net", "decode"})
            /\ AtIn(req, {"net queue"}) = AtIn(request, {"net queue"})
        BY <1>6
      <3> HIDE DEF promote
      <3> QED BY <3>3, <3>4, <3>5, <3>6 DEF DiskIs, NetIs
    <2>2. CASE ~promote
      <3>1. \A x \in Keys : req[x].at = request[x].at /\ req[x].priority = request[x].priority
        BY <1>3, <1>4, <2>2
      <3> HIDE DEF promote
      <3>2. disk' = disk /\ net' = net
        BY <1>1, <2>2
      <3> QED BY <1>0, <3>1, <3>2, StayInPlace
    <2> QED BY <2>1, <2>2
  <1>8. MemorySound' /\ MemoryTyped'
    <2>1. \A x \in Keys : request'[x] # NoRequest => request[x] # NoRequest
      BY <1>1, <1>4
    <2> QED BY <1>0, <1>1, <2>1, MemoryStays
  <1>9. Attended' /\ awaited' \in [Consumers -> Keys \cup {Nothing}]
    <2>1. awaited \in [Consumers -> Keys \cup {Nothing}]
      BY <1>0 DEF TypeInv
    <2>2. ASSUME NEW d \in Consumers, awaited'[d] # Nothing
          PROVE  request'[awaited'[d]] # NoRequest /\ ~request'[awaited'[d]].timer
      <3>1. CASE awaited'[d] = k
        BY <1>1, <1>3, <1>4, <1>5, <3>1
      <3>2. CASE awaited'[d] # k
        <4>1. awaited'[d] = awaited[d] /\ awaited[d] \in Keys \ {k}
          BY <1>1, <2>1, <2>2, <3>2
        <4> QED BY <1>0, <1>1, <1>4, <2>2, <4>1 DEF Attended
      <3> QED BY <3>1, <3>2
    <2> QED BY <1>1, <2>1, <2>2 DEF Attended
  <1>10. request' \in Requests
    BY <1>1, <1>4
  <1> QED BY <1>1, <1>7, <1>8, <1>9, <1>10 DEF Inv, TypeInv, PoolsSound, MemoryTyped, Requests

LEMMA FetchNewKeeps ==
    ASSUME Inv, NEW c \in Consumers, NEW k \in Keys, FetchNew(c, k)
    PROVE  Inv'
  <1> DEFINE new == [at |-> IF disk.active < DiskSlots THEN "disk" ELSE "disk queue",
                     priority |-> PriorityOf(c), timer |-> FALSE, aborted |-> FALSE,
                     raw |-> k \notin Zstd, retry |-> 0]
             req == [request EXCEPT ![k] = new]
  <1>0. /\ TypeInv /\ MemorySound /\ Attended /\ DiskIs(disk, request) /\ NetIs(net, request)
        /\ request \in Requests /\ disk \in Pool /\ net \in Pool /\ DiskSlots \in Nat
    BY RangeAssumption DEF Inv, TypeInv, PoolsSound, Requests
  <1>1. /\ awaited' = [awaited EXCEPT ![c] = k] /\ request[k] = NoRequest /\ ~Cached(k)
        /\ request' = req /\ disk' = Acquire(disk, DiskSlots, k, req) /\ net' = net /\ UNCHANGED memory
    BY DEF FetchNew
  <1>2. /\ new \in Request /\ ~new.timer
        /\ new.at = IF disk.active < DiskSlots THEN "disk" ELSE "disk queue"
        /\ new.priority \in {"critical", "prefetch"}
    BY DEF Request, Places, PriorityOf
  <1> HIDE DEF new
  <1>3. /\ req \in Requests /\ req[k] = new /\ \A x \in Keys \ {k} : req[x] = request[x]
    BY <1>0, <1>2 DEF Requests
  <1> HIDE DEF req
  <1>4. new # NoRequest /\ request[k].at = "none"
    BY <1>1, <1>2, Somewhere DEF Request, Places
  <1> DEFINE H == AtIn(request, {"disk"})
             Q == AtIn(request, {"disk queue"})
  <1>5. k \notin H /\ k \notin Q
    BY <1>4 DEF AtIn
  <1>6. Known(req, Q \cup {k})
    <2>1. Known(request, Q)
      BY <1>0, AllKnown DEF Places
    <2> QED BY <1>2, <1>3, <1>5, <2>1 DEF Known, AtIn
  <1>7. Sound(disk, DiskSlots, H, Q, req)
    <2>1. \A x \in Q : req[x].priority = request[x].priority
      BY <1>3, <1>5 DEF AtIn
    <2> QED BY <1>0, <2>1, SoundFor DEF DiskIs
  <1>8. /\ disk' \in Pool
        /\ disk.active < DiskSlots => Sound(disk', DiskSlots, H \cup {k}, Q, req)
        /\ ~(disk.active < DiskSlots) => Sound(disk', DiskSlots, H, Q \cup {k}, req)
    <2> HIDE DEF H, Q
    <2> QED BY <1>0, <1>1, <1>5, <1>6, <1>7, AcquireSound
  <1>9. DiskIs(disk', req)
    <2>1. CASE disk.active < DiskSlots
      <3>1. AtIn(req, {"disk"}) = H \cup {k} /\ AtIn(req, {"disk queue"}) = Q
        BY <1>2, <1>3, <1>5, <2>1 DEF AtIn
      <3> QED BY <1>8, <2>1, <3>1 DEF DiskIs
    <2>2. CASE ~(disk.active < DiskSlots)
      <3>1. AtIn(req, {"disk"}) = H /\ AtIn(req, {"disk queue"}) = Q \cup {k}
        BY <1>2, <1>3, <1>5, <2>2 DEF AtIn
      <3> QED BY <1>8, <2>2, <3>1 DEF DiskIs
    <2> QED BY <2>1, <2>2
  <1>10. NetIs(net, req)
    <2>1. new.at \notin {"net", "decode", "net queue"}
      BY <1>2
    <2>2. AtIn(req, {"net", "decode"}) = AtIn(request, {"net", "decode"})
      BY <1>3, <1>4, <2>1 DEF AtIn
    <2>3. AtIn(req, {"net queue"}) = AtIn(request, {"net queue"})
      BY <1>3, <1>4, <2>1 DEF AtIn
    <2>4. \A x \in AtIn(request, {"net queue"}) : req[x].priority = request[x].priority
      BY <1>3, <1>4 DEF AtIn
    <2> QED BY <1>0, <2>2, <2>3, <2>4, NetFor DEF NetIs
  <1>11. MemorySound' /\ MemoryTyped'
    <2>1. \A x : Cached(x)' = Cached(x)
      BY <1>1 DEF Cached, memory
    <2>2. \A x \in Keys : request'[x] # NoRequest => ~Cached(x)
      BY <1>0, <1>1, <1>3 DEF MemorySound
    <2> QED BY <1>0, <1>1, <2>1, <2>2 DEF memory, MemorySound, MemoryTyped, TypeInv
  <1>12. Attended' /\ awaited' \in [Consumers -> Keys \cup {Nothing}]
    <2>1. awaited \in [Consumers -> Keys \cup {Nothing}]
      BY <1>0 DEF TypeInv
    <2>2. ASSUME NEW d \in Consumers, awaited'[d] # Nothing
          PROVE  request'[awaited'[d]] # NoRequest /\ ~request'[awaited'[d]].timer
      <3>1. CASE awaited'[d] = k
        BY <1>1, <1>2, <1>3, <1>4, <3>1
      <3>2. CASE awaited'[d] # k
        <4>1. awaited'[d] = awaited[d] /\ awaited[d] \in Keys \ {k}
          BY <1>1, <2>1, <2>2, <3>2
        <4> QED BY <1>0, <1>1, <1>3, <2>2, <4>1 DEF Attended
      <3> QED BY <3>1, <3>2
    <2> QED BY <1>1, <2>1, <2>2 DEF Attended
  <1>13. request' \in Requests /\ net' \in Pool
    BY <1>0, <1>1, <1>3
  <1> QED BY <1>1, <1>8, <1>9, <1>10, <1>11, <1>12, <1>13 DEF Inv, TypeInv, PoolsSound, MemoryTyped, Requests

LEMMA AbortKeeps ==
    ASSUME Inv, NEW c \in Consumers, Abort(c)
    PROVE  Inv'
  <1> DEFINE k == awaited[c]
             alone == ConsumersOf(k) = {c}
             left == [request[k] EXCEPT !.timer = alone]
  <1>0. /\ TypeInv /\ MemorySound /\ Attended /\ DiskIs(disk, request) /\ NetIs(net, request)
        /\ request \in Requests /\ disk \in Pool /\ net \in Pool
        /\ awaited \in [Consumers -> Keys \cup {Nothing}]
    BY DEF Inv, TypeInv, PoolsSound, Requests
  <1>1. /\ k # Nothing /\ awaited' = [awaited EXCEPT ![c] = Nothing]
        /\ request' = [request EXCEPT ![k] = left] /\ UNCHANGED <<disk, net, memory>>
    BY DEF Abort, pools
  <1>2. k \in Keys /\ request[k] \in Request
    BY <1>0, <1>1, RequestFacts DEF Attended
  <1>3. /\ left \in Request /\ left.at = request[k].at /\ left.timer = alone
        /\ left.priority = request[k].priority
    BY <1>2 DEF Request
  <1> HIDE DEF left
  <1>4. /\ request' \in Requests /\ request'[k] = left /\ \A x \in Keys \ {k} : request'[x] = request[x]
    BY <1>0, <1>1, <1>2, <1>3 DEF Requests
  <1>5. left # NoRequest /\ request[k] # NoRequest
    BY <1>2, <1>3, Somewhere DEF Request, Places
  <1>6. PoolsSound'
    <2>1. \A x \in Keys : request'[x].at = request[x].at /\ request'[x].priority = request[x].priority
      BY <1>3, <1>4
    <2>2. DiskIs(disk, request') /\ NetIs(net, request')
      BY <1>0, <2>1, StayInPlace
    <2> QED BY <1>1, <2>2 DEF PoolsSound
  <1>7. MemorySound' /\ MemoryTyped'
    <2>1. \A x \in Keys : request'[x] # NoRequest => request[x] # NoRequest
      BY <1>4, <1>5
    <2> QED BY <1>0, <1>1, <2>1, MemoryStays
  <1>8. ASSUME NEW d \in Consumers, awaited'[d] # Nothing
        PROVE  request'[awaited'[d]] # NoRequest /\ ~request'[awaited'[d]].timer
    <2>1. d # c /\ awaited'[d] = awaited[d] /\ awaited[d] \in Keys
      BY <1>0, <1>1, <1>8
    <2>2. CASE awaited[d] = k
      <3>1. ~alone
        BY <2>1, <2>2 DEF ConsumersOf
      <3> HIDE DEF alone
      <3> QED BY <1>3, <1>4, <1>5, <2>1, <2>2, <3>1
    <2>3. CASE awaited[d] # k
      BY <1>0, <1>4, <1>8, <2>1, <2>3 DEF Attended
    <2> QED BY <2>2, <2>3
  <1>9. awaited' \in [Consumers -> Keys \cup {Nothing}]
    BY <1>0, <1>1
  <1> QED BY <1>0, <1>1, <1>4, <1>6, <1>7, <1>8, <1>9 DEF Inv, TypeInv, MemoryTyped, Requests, Attended

-----------------------------------------------------------------------------
(* The grace period. *)

LEMMA WokenWait ==
    ASSUME NEW pool \in Pool, NEW slots, NEW holders, NEW queued, NEW req,
           Sound(pool, slots, holders, queued, req)
    PROVE  Woken(pool) \subseteq queued
  <1>1. CASE pool.entries = <<>>
    BY <1>1 DEF Woken
  <1>2. CASE pool.entries # <<>>
    <2>1. 1 \in 1 .. Len(pool.entries) /\ Head(pool.entries) = pool.entries[1]
      BY <1>2 DEF Pool
    <2>2. pool.entries[1] \in ToSet(pool.entries)
      BY <2>1, Listed DEF Pool
    <2> QED BY <1>2, <2>1, <2>2 DEF Woken, Sound
  <1> QED BY <1>1, <1>2

\* A request gives its network slot back.
LEMMA NetLeft ==
    ASSUME TypeInv, PoolsSound, NEW k \in Keys, request[k].at \in {"net", "decode"},
           NEW next \in Request \cup {NoRequest}, next.at \notin InNet \cup {"disk", "disk queue"},
           LeaveNet(k, next), disk' = disk
    PROVE  /\ PoolsSound' /\ request' \in Requests /\ disk' \in Pool /\ net' \in Pool
           /\ request'[k] = next /\ Carried(request', k, Woken(net), "net")
  <1>0. /\ request \in Requests /\ disk \in Pool /\ net \in Pool /\ "net" \in Places
        /\ DiskIs(disk, request) /\ NetIs(net, request)
    BY DEF TypeInv, Requests, Places, PoolsSound
  <1>1. \A x \in Woken(net) : x \in Keys /\ request[x].at = "net queue"
    <2>1. Woken(net) \subseteq AtIn(request, {"net queue"})
      BY <1>0, WokenWait DEF NetIs
    <2> QED BY <2>1 DEF AtIn
  <1>2. \A x \in Woken(net) : request[x] # NoRequest
    BY <1>1, Somewhere
  <1>3. Passes(request', k, Woken(net), "net", next)
    BY <1>0, <1>2, MovedPasses DEF LeaveNet
  <1>4. Carried(request', k, Woken(net), "net")
    BY <1>0, <1>2, <1>3, PassesKeeps
  <1>5. Release(net) \in Pool /\ NetIs(Release(net), request') /\ DiskIs(disk, request')
    BY <1>0, <1>3, NetReleased
  <1>6. net' = Release(net)
    BY DEF LeaveNet
  <1>7. request' \in Requests /\ request'[k] = next
    BY <1>3 DEF Passes
  <1>8. PoolsSound'
    BY <1>5, <1>6 DEF PoolsSound
  <1> QED BY <1>0, <1>4, <1>5, <1>6, <1>7, <1>8

\* What is left to say of a step that leaves the memory and the consumers alone.
LEMMA TheRestStays ==
    ASSUME Inv, NEW k \in Keys, NEW woken, NEW place, Carried(request', k, woken, place),
           request[k] # NoRequest, UNCHANGED memory,
           \/ request'[k] # NoRequest /\ request'[k].timer = request[k].timer
           \/ request[k].timer,
           awaited' = awaited,
           PoolsSound', request' \in Requests, disk' \in Pool, net' \in Pool
    PROVE  Inv'
  <1>0. TypeInv /\ MemorySound /\ Attended
    BY DEF Inv
  <1>1. \A x \in Keys \ {k} : request'[x] # NoRequest <=> request[x] # NoRequest
    BY DEF Carried
  <1>2. MemorySound' /\ MemoryTyped'
    BY <1>0, <1>1, MemoryStays
  <1>3. awaited' \in [Consumers -> Keys \cup {Nothing}]
    BY <1>0 DEF TypeInv
  <1>4. ASSUME NEW c \in Consumers, awaited'[c] # Nothing
        PROVE  request'[awaited'[c]] # NoRequest /\ ~request'[awaited'[c]].timer
    <2>1. awaited[c] \in Keys /\ awaited'[c] = awaited[c]
      BY <1>0, <1>4 DEF TypeInv
    <2>2. request[awaited[c]] # NoRequest /\ ~request[awaited[c]].timer
      BY <1>0, <1>4, <2>1 DEF Attended
    <2>3. CASE awaited[c] = k
      BY <2>1, <2>2, <2>3
    <2>4. CASE awaited[c] # k
      BY <2>1, <2>2, <2>4 DEF Carried
    <2> QED BY <2>3, <2>4
  <1>5. Attended'
    BY <1>4 DEF Attended
  <1> QED BY <1>2, <1>3, <1>5 DEF Inv, TypeInv, MemoryTyped, Requests

LEMMA GraceExpiresKeeps ==
    ASSUME Inv, NEW k \in Keys, GraceExpires(k)
    PROVE  Inv'
  <1>0. /\ TypeInv /\ PoolsSound /\ DiskIs(disk, request) /\ NetIs(net, request)
        /\ request \in Requests /\ disk \in Pool /\ net \in Pool
    BY DEF Inv, TypeInv, PoolsSound, Requests
  <1>1. request[k] # NoRequest /\ request[k].timer /\ awaited' = awaited /\ UNCHANGED memory
    BY DEF GraceExpires
  <1>2. request[k] \in Request /\ request[k].at \in Places
    BY <1>0, <1>1, RequestFacts
  <1>3. NoRequest \in Request \cup {NoRequest} /\ NoRequest.at \notin InNet \cup {"disk", "disk queue"}
    BY Somewhere DEF InNet
  <1>4. CASE request[k].at \in {"disk", "decode"}
    <2> DEFINE next == [request[k] EXCEPT !.timer = FALSE, !.aborted = TRUE]
    <2>1. request' = [request EXCEPT ![k].timer = FALSE, ![k].aborted = TRUE] /\ disk' = disk /\ net' = net
      BY <1>4 DEF GraceExpires, pools
    <2>2. next \in Request /\ next.at = request[k].at /\ next.priority = request[k].priority
      BY <1>2 DEF Request
    <2>3. request' = [request EXCEPT ![k] = next]
      BY <1>0, <1>2, <2>1 DEF Requests
    <2> HIDE DEF next
    <2>4. /\ request' \in Requests /\ request'[k] = next
          /\ \A x \in Keys \ {k} : request'[x] = request[x]
      BY <1>0, <2>2, <2>3 DEF Requests
    <2>5. Carried(request', k, {}, "disk")
      BY <2>4 DEF Carried
    <2>6. \A x \in Keys : request'[x].at = request[x].at /\ request'[x].priority = request[x].priority
      BY <2>2, <2>4
    <2>7. PoolsSound'
      <3>1. DiskIs(disk, request') /\ NetIs(net, request')
        BY <1>0, <2>6, StayInPlace
      <3> QED BY <2>1, <3>1 DEF PoolsSound
    <2> QED BY <1>0, <1>1, <2>1, <2>4, <2>5, <2>7, TheRestStays
  <1>5. ASSUME request' = [request EXCEPT ![k] = NoRequest]
        PROVE  /\ request' \in Requests /\ Carried(request', k, {}, "disk")
               /\ request'[k].at = "none" /\ \A x \in Keys \ {k} : request'[x] = request[x]
    <2>1. /\ request' \in Requests /\ request'[k] = NoRequest
          /\ \A x \in Keys \ {k} : request'[x] = request[x]
      BY <1>0, <1>5 DEF Requests
    <2> QED BY <2>1, Somewhere DEF Carried
  <1>6. CASE request[k].at \in {"disk queue", "net queue"}
    <2> DEFINE D == AtIn(request, {"disk"})
               DQ == AtIn(request, {"disk queue"})
               N == AtIn(request, {"net", "decode"})
               NQ == AtIn(request, {"net queue"})
    <2>1. /\ request' = [request EXCEPT ![k] = NoRequest]
          /\ disk' = [disk EXCEPT !.entries = Without(@, k)]
          /\ net' = [net EXCEPT !.entries = Without(@, k)]
      BY <1>6 DEF GraceExpires
    <2>2. /\ request' \in Requests /\ Carried(request', k, {}, "disk")
          /\ request'[k].at = "none" /\ \A x \in Keys \ {k} : request'[x] = request[x]
      BY <1>5, <2>1
    <2>3. /\ AtIn(request', {"disk"}) = D /\ AtIn(request', {"disk queue"}) = DQ \ {k}
          /\ AtIn(request', {"net", "decode"}) = N /\ AtIn(request', {"net queue"}) = NQ \ {k}
      BY <1>6, <2>2 DEF AtIn
    <2>4. disk' \in Pool /\ DiskIs(disk', request')
      <3>1. disk' \in Pool /\ Sound(disk', DiskSlots, D, DQ \ {k}, request)
        BY <1>0, <2>1, WithdrawSound DEF DiskIs
      <3>2. \A x \in DQ \ {k} : request'[x].priority = request[x].priority
        BY <2>2 DEF AtIn
      <3> HIDE DEF D, DQ
      <3>3. Sound(disk', DiskSlots, D, DQ \ {k}, request')
        BY <3>1, <3>2, SoundFor
      <3> QED BY <2>3, <3>1, <3>3 DEF DiskIs
    <2>5. net' \in Pool /\ NetIs(net', request')
      <3>1. net' \in Pool /\ Sound(net', NetSlots, N, NQ \ {k}, request)
        BY <1>0, <2>1, WithdrawSound DEF NetIs
      <3>2. \A x \in NQ \ {k} : request'[x].priority = request[x].priority
        BY <2>2 DEF AtIn
      <3> HIDE DEF N, NQ
      <3>3. Sound(net', NetSlots, N, NQ \ {k}, request')
        BY <3>1, <3>2, SoundFor
      <3> QED BY <2>3, <3>1, <3>3 DEF NetIs
    <2>6. PoolsSound'
      BY <2>4, <2>5 DEF PoolsSound
    <2> QED BY <1>1, <2>2, <2>4, <2>5, <2>6, TheRestStays
  <1>7. CASE request[k].at = "backoff"
    <2>1. request' = [request EXCEPT ![k] = NoRequest] /\ disk' = disk /\ net' = net
      BY <1>7 DEF GraceExpires, LeaveBackoff, pools
    <2>2. /\ request' \in Requests /\ Carried(request', k, {}, "disk")
          /\ request'[k].at = "none" /\ \A x \in Keys \ {k} : request'[x] = request[x]
      BY <1>5, <2>1
    <2>3. /\ AtIn(request', {"disk"}) = AtIn(request, {"disk"})
          /\ AtIn(request', {"disk queue"}) = AtIn(request, {"disk queue"})
          /\ AtIn(request', {"net", "decode"}) = AtIn(request, {"net", "decode"})
          /\ AtIn(request', {"net queue"}) = AtIn(request, {"net queue"})
      BY <1>7, <2>2 DEF AtIn
    <2>4. \A x \in Keys : x # k => request'[x].priority = request[x].priority
      BY <2>2
    <2>5. k \notin AtIn(request, {"disk queue"}) /\ k \notin AtIn(request, {"net queue"})
      BY <1>7 DEF AtIn
    <2>6. /\ \A x \in AtIn(request, {"disk queue"}) : request'[x].priority = request[x].priority
          /\ \A x \in AtIn(request, {"net queue"}) : request'[x].priority = request[x].priority
      BY <2>4, <2>5 DEF AtIn
    <2>7. DiskIs(disk, request')
      <3>1. Sound(disk, DiskSlots, AtIn(request, {"disk"}), AtIn(request, {"disk queue"}), request')
        BY <1>0, <2>6, SoundFor DEF DiskIs
      <3> QED BY <2>3, <3>1 DEF DiskIs
    <2>8. NetIs(net, request')
      <3>1. Sound(net, NetSlots, AtIn(request, {"net", "decode"}), AtIn(request, {"net queue"}), request')
        BY <1>0, <2>6, SoundFor DEF NetIs
      <3> QED BY <2>3, <3>1 DEF NetIs
    <2>9. PoolsSound'
      BY <2>1, <2>7, <2>8 DEF PoolsSound
    <2> QED BY <1>0, <1>1, <2>1, <2>2, <2>9, TheRestStays
  <1>8. CASE request[k].at = "net"
    <2>1. LeaveNet(k, NoRequest) /\ disk' = disk
      BY <1>8 DEF GraceExpires
    <2>2. /\ PoolsSound' /\ request' \in Requests /\ disk' \in Pool /\ net' \in Pool
          /\ Carried(request', k, Woken(net), "net")
      BY <1>0, <1>3, <1>8, <2>1, NetLeft
    <2> QED BY <1>1, <2>2, TheRestStays
  <1> QED BY <1>2, <1>4, <1>6, <1>7, <1>8 DEF Places

-----------------------------------------------------------------------------
(* Serving a request. *)

\* A request gives its read slot back.
LEMMA DiskLeft ==
    ASSUME TypeInv, PoolsSound, NEW k \in Keys, request[k].at = "disk",
           NEW next \in Request \cup {NoRequest}, next.at \notin {"disk", "disk queue"},
           request' = [Moved(request, Woken(disk), "disk") EXCEPT ![k] = next],
           disk' = Release(disk)
    PROVE  /\ disk' \in Pool /\ DiskIs(disk', request') /\ request' \in Requests
           /\ next.at \notin InNet => NetIs(net, request')
           /\ request'[k] = next /\ Carried(request', k, Woken(disk), "disk")
           /\ \A x \in Woken(disk) : x \in Keys /\ request[x].at = "disk queue"
  <1>0. /\ request \in Requests /\ disk \in Pool /\ "disk" \in Places
        /\ DiskIs(disk, request) /\ NetIs(net, request)
    BY DEF TypeInv, Requests, Places, PoolsSound
  <1>1. \A x \in Woken(disk) : x \in Keys /\ request[x].at = "disk queue"
    <2>1. Woken(disk) \subseteq AtIn(request, {"disk queue"})
      BY <1>0, WokenWait DEF DiskIs
    <2> QED BY <2>1 DEF AtIn
  <1>2. \A x \in Woken(disk) : request[x] # NoRequest
    BY <1>1, Somewhere
  <1>3. Passes(request', k, Woken(disk), "disk", next)
    BY <1>0, <1>2, MovedPasses
  <1>4. Carried(request', k, Woken(disk), "disk")
    BY <1>0, <1>2, <1>3, PassesKeeps
  <1>5. /\ Release(disk) \in Pool /\ DiskIs(Release(disk), request')
        /\ next.at \notin InNet => NetIs(net, request')
    BY <1>0, <1>3, DiskReleased
  <1>6. request' \in Requests /\ request'[k] = next
    BY <1>3 DEF Passes
  <1> QED BY <1>1, <1>4, <1>5, <1>6

\* A request asks for a network slot.
LEMMA NetAsked ==
    ASSUME TypeInv, PoolsSound, NEW k \in Keys, request[k] \in Request, request[k].at \notin InNet,
           net' = Acquire(net, NetSlots, k, request),
           request'[k].at = IF net.active < NetSlots THEN "net" ELSE "net queue",
           request'[k].priority = request[k].priority,
           \A x \in Keys \ {k} :
              /\ request'[x].at = request[x].at \/ (request'[x].at = "disk" /\ request[x].at = "disk queue")
              /\ request[x] # NoRequest => request'[x].priority = request[x].priority
    PROVE  net' \in Pool /\ NetIs(net', request')
  <1> DEFINE H == AtIn(request, {"net", "decode"})
             Q == AtIn(request, {"net queue"})
  <1>0. /\ request \in Requests /\ net \in Pool /\ NetSlots \in Nat
        /\ Sound(net, NetSlots, H, Q, request)
    BY RangeAssumption DEF TypeInv, Requests, PoolsSound, NetIs
  <1>1. k \notin H /\ k \notin Q
    BY DEF AtIn, InNet
  <1>2. Known(request, Q \cup {k})
    <2>1. Known(request, Q)
      BY <1>0, AllKnown DEF Places
    <2> QED BY <2>1 DEF Known, Request
  <1>3. /\ net' \in Pool
        /\ net.active < NetSlots => Sound(net', NetSlots, H \cup {k}, Q, request)
        /\ ~(net.active < NetSlots) => Sound(net', NetSlots, H, Q \cup {k}, request)
    <2> HIDE DEF H, Q
    <2> QED BY <1>0, <1>1, <1>2, AcquireSound
  <1>4. \A x \in Keys \ {k} :
           request'[x].at = request[x].at \/ (request'[x].at = "disk" /\ request[x].at = "disk queue")
    OBVIOUS
  <1>5. \A x \in Q \cup {k} : request'[x].priority = request[x].priority
    BY <1>1, Somewhere DEF AtIn
  <1>6. CASE net.active < NetSlots
    <2>1. request'[k].at = "net"
      BY <1>6
    <2>2. AtIn(request', {"net", "decode"}) = H \cup {k} /\ AtIn(request', {"net queue"}) = Q
      BY <1>1, <1>4, <2>1 DEF AtIn
    <2> HIDE DEF H, Q
    <2>3. Sound(net', NetSlots, H \cup {k}, Q, request')
      BY <1>3, <1>5, <1>6, SoundFor
    <2> QED BY <1>3, <2>2, <2>3 DEF NetIs
  <1>7. CASE ~(net.active < NetSlots)
    <2>1. request'[k].at = "net queue"
      BY <1>7
    <2>2. AtIn(request', {"net", "decode"}) = H /\ AtIn(request', {"net queue"}) = Q \cup {k}
      BY <1>1, <1>4, <2>1 DEF AtIn
    <2> HIDE DEF H, Q
    <2>3. Sound(net', NetSlots, H, Q \cup {k}, request')
      BY <1>3, <1>5, <1>7, SoundFor
    <2> QED BY <1>3, <2>2, <2>3 DEF NetIs
  <1> QED BY <1>6, <1>7

\* A request goes on in the slot it holds.
LEMMA InSlot ==
    ASSUME Inv, NEW k \in Keys, request[k].at \in {"net", "decode"},
           NEW next \in Request, next.at \in {"net", "decode"},
           next.priority = request[k].priority, next.timer = request[k].timer,
           request' = [request EXCEPT ![k] = next], awaited' = awaited,
           UNCHANGED <<disk, net, memory>>
    PROVE  Inv'
  <1>0. /\ TypeInv /\ DiskIs(disk, request) /\ NetIs(net, request)
        /\ request \in Requests /\ disk \in Pool /\ net \in Pool
    BY DEF Inv, TypeInv, PoolsSound, Requests
  <1>1. /\ request' \in Requests /\ request'[k] = next
        /\ \A x \in Keys \ {k} : request'[x] = request[x]
    BY <1>0 DEF Requests
  <1>2. Carried(request', k, {}, "disk")
    BY <1>1 DEF Carried
  <1>3. request[k] # NoRequest /\ request'[k] # NoRequest
    BY <1>1, Somewhere
  <1>4. \A x \in Keys : request'[x].priority = request[x].priority
    BY <1>1
  <1>5. /\ AtIn(request', {"disk"}) = AtIn(request, {"disk"})
        /\ AtIn(request', {"disk queue"}) = AtIn(request, {"disk queue"})
        /\ AtIn(request', {"net", "decode"}) = AtIn(request, {"net", "decode"})
        /\ AtIn(request', {"net queue"}) = AtIn(request, {"net queue"})
    BY <1>1 DEF AtIn
  <1>6. DiskIs(disk, request')
    <2>1. \A x \in AtIn(request, {"disk queue"}) : request'[x].priority = request[x].priority
      BY <1>4 DEF AtIn
    <2>2. Sound(disk, DiskSlots, AtIn(request, {"disk"}), AtIn(request, {"disk queue"}), request')
      BY <1>0, <2>1, SoundFor DEF DiskIs
    <2> QED BY <1>5, <2>2 DEF DiskIs
  <1>7. NetIs(net, request')
    <2>1. \A x \in AtIn(request, {"net queue"}) : request'[x].priority = request[x].priority
      BY <1>4 DEF AtIn
    <2>2. Sound(net, NetSlots, AtIn(request, {"net", "decode"}), AtIn(request, {"net queue"}), request')
      BY <1>0, <2>1, SoundFor DEF NetIs
    <2> QED BY <1>5, <2>2 DEF NetIs
  <1>8. PoolsSound'
    BY <1>6, <1>7 DEF PoolsSound
  <1> QED BY <1>0, <1>1, <1>2, <1>3, <1>8, TheRestStays

\* The answer of a request, kept or not.
LEMMA AnswerKeeps ==
    ASSUME Inv, NEW k \in Keys, request[k] # NoRequest, request'[k] = NoRequest,
           NEW woken, NEW place, Carried(request', k, woken, place),
           Answered(k), Store(k) \/ UNCHANGED memory,
           PoolsSound', request' \in Requests, disk' \in Pool, net' \in Pool
    PROVE  Inv'
  <1>0. TypeInv /\ MemorySound /\ Attended
    BY DEF Inv
  <1>1. \A x \in Keys \ {k} : request'[x] # NoRequest => request[x] # NoRequest
    BY DEF Carried
  <1>2. MemorySound' /\ MemoryTyped'
    BY <1>0, <1>1, StoreKeeps
  <1>3. Attended' /\ awaited' \in [Consumers -> Keys \cup {Nothing}]
    BY <1>0, OthersAttended
  <1> QED BY <1>2, <1>3 DEF Inv, TypeInv, MemoryTyped, Requests

LEMMA DiskAnswersKeeps ==
    ASSUME Inv, NEW k \in Keys, DiskAnswers(k)
    PROVE  Inv'
  <1>0. TypeInv /\ PoolsSound /\ net \in Pool
    BY DEF Inv, TypeInv
  <1>1. /\ request[k].at = "disk" /\ disk' = Release(disk) /\ net' = net /\ Answered(k)
        /\ request' = [Moved(request, Woken(disk), "disk") EXCEPT ![k] = NoRequest]
        /\ Store(k) \/ UNCHANGED memory
    BY DEF DiskAnswers
  <1>2. NoRequest \in Request \cup {NoRequest} /\ NoRequest.at \notin InNet \cup {"disk", "disk queue"}
    BY Somewhere DEF InNet
  <1>3. /\ disk' \in Pool /\ DiskIs(disk', request') /\ request' \in Requests /\ NetIs(net, request')
        /\ request'[k] = NoRequest /\ Carried(request', k, Woken(disk), "disk")
    BY <1>0, <1>1, <1>2, DiskLeft
  <1>4. PoolsSound'
    BY <1>1, <1>3 DEF PoolsSound
  <1>5. request[k] # NoRequest
    BY <1>1, Somewhere
  <1> QED BY <1>0, <1>1, <1>3, <1>4, <1>5, AnswerKeeps

LEMMA DiskMissesKeeps ==
    ASSUME Inv, NEW k \in Keys, DiskMisses(k)
    PROVE  Inv'
  <1> DEFINE place == IF net.active < NetSlots THEN "net" ELSE "net queue"
             next == [request[k] EXCEPT !.at = place]
             moved == Moved(request, Woken(disk), "disk")
  <1>0. TypeInv /\ PoolsSound /\ request \in Requests /\ disk \in Pool /\ DiskIs(disk, request)
    BY DEF Inv, TypeInv, PoolsSound, Requests
  <1>1. /\ request[k].at = "disk" /\ disk' = Release(disk) /\ net' = Acquire(net, NetSlots, k, request)
        /\ request' = [moved EXCEPT ![k].at = place] /\ UNCHANGED <<awaited, memory>>
    BY DEF DiskMisses
  <1>2. request[k] # NoRequest /\ request[k] \in Request
    BY <1>0, <1>1, Somewhere, RequestFacts
  <1>3. /\ next \in Request /\ next.at = place /\ next.priority = request[k].priority
        /\ next.timer = request[k].timer
    BY <1>2 DEF Request, Places
  <1>4. request' = [moved EXCEPT ![k] = next]
    <2>1. Woken(disk) \subseteq AtIn(request, {"disk queue"})
      BY <1>0, WokenWait DEF DiskIs
    <2>2. k \notin Woken(disk)
      BY <1>1, <2>1 DEF AtIn
    <2>3. moved[k] = request[k]
      BY <2>2 DEF Moved
    <2>4. moved = [x \in Keys |-> moved[x]]
      BY DEF Moved
    <2> HIDE DEF moved, place
    <2> QED BY <1>1, <2>3, <2>4
  <1>5. place \in {"net", "net queue"}
    OBVIOUS
  <1> HIDE DEF next
  <1>6. next \in Request \cup {NoRequest} /\ next.at \notin {"disk", "disk queue"}
    BY <1>3, <1>5
  <1>7. /\ disk' \in Pool /\ DiskIs(disk', request') /\ request' \in Requests
        /\ request'[k] = next /\ Carried(request', k, Woken(disk), "disk")
        /\ \A x \in Woken(disk) : x \in Keys /\ request[x].at = "disk queue"
    BY <1>0, <1>1, <1>4, <1>6, DiskLeft
  <1>8. net' \in Pool /\ NetIs(net', request')
    <2>1. request[k].at \notin InNet
      BY <1>1 DEF InNet
    <2>2. \A x \in Keys \ {k} :
             /\ request'[x].at = request[x].at \/ (request'[x].at = "disk" /\ request[x].at = "disk queue")
             /\ request[x] # NoRequest => request'[x].priority = request[x].priority
      BY <1>7 DEF Carried
    <2> QED BY <1>0, <1>1, <1>2, <1>3, <1>7, <2>1, <2>2, NetAsked
  <1>9. PoolsSound'
    BY <1>7, <1>8 DEF PoolsSound
  <1>10. request'[k] # NoRequest /\ request'[k].timer = request[k].timer
    BY <1>3, <1>5, <1>7, Somewhere
  <1> QED BY <1>1, <1>2, <1>7, <1>8, <1>9, <1>10, TheRestStays

LEMMA SettleKeeps ==
    ASSUME Inv, NEW k \in Keys, request[k].at \in {"net", "decode"},
           SettleAtNet(k), Store(k) \/ UNCHANGED memory
    PROVE  Inv'
  <1>0. TypeInv /\ PoolsSound
    BY DEF Inv
  <1>1. LeaveNet(k, NoRequest) /\ Answered(k) /\ disk' = disk
    BY DEF SettleAtNet
  <1>2. NoRequest \in Request \cup {NoRequest} /\ NoRequest.at \notin InNet \cup {"disk", "disk queue"}
    BY Somewhere DEF InNet
  <1>3. /\ PoolsSound' /\ request' \in Requests /\ disk' \in Pool /\ net' \in Pool
        /\ request'[k] = NoRequest /\ Carried(request', k, Woken(net), "net")
    BY <1>0, <1>1, <1>2, NetLeft
  <1>4. request[k] # NoRequest
    BY Somewhere
  <1> QED BY <1>1, <1>3, <1>4, AnswerKeeps

LEMMA FallBackKeeps ==
    ASSUME Inv, NEW k \in Keys, request[k].at \in {"net", "decode"}, FallBack(k)
    PROVE  Inv'
  <1> DEFINE next == [request[k] EXCEPT !.at = "net", !.raw = TRUE, !.retry = 0]
  <1>0. request \in Requests
    BY DEF Inv, TypeInv, Requests
  <1>1. request[k] \in Request
    BY <1>0, Somewhere, RequestFacts
  <1>2. /\ next \in Request /\ next.at \in {"net", "decode"} /\ next.priority = request[k].priority
        /\ next.timer = request[k].timer
    BY <1>1 DEF Request, Places
  <1>3. /\ request' = [request EXCEPT ![k].at = "net", ![k].raw = TRUE, ![k].retry = 0]
        /\ awaited' = awaited /\ UNCHANGED <<disk, net, memory>>
    BY DEF FallBack, pools
  <1>4. request' = [request EXCEPT ![k] = next]
    BY <1>0, <1>1, <1>3 DEF Requests
  <1> HIDE DEF next
  <1> QED BY <1>2, <1>3, <1>4, InSlot

LEMMA NetAnswersKeeps ==
    ASSUME Inv, NEW k \in Keys, NetAnswers(k)
    PROVE  Inv'
  <1>1. CASE request[k].raw
    BY <1>1, SettleKeeps DEF NetAnswers
  <1>2. CASE ~request[k].raw
    <2> DEFINE next == [request[k] EXCEPT !.at = "decode"]
    <2>0. request \in Requests
      BY DEF Inv, TypeInv, Requests
    <2>1. request[k].at = "net"
      BY DEF NetAnswers
    <2>2. request[k] \in Request
      BY <2>0, <2>1, Somewhere, RequestFacts
    <2>3. /\ next \in Request /\ next.at \in {"net", "decode"} /\ next.priority = request[k].priority
          /\ next.timer = request[k].timer
      BY <2>2 DEF Request, Places
    <2>4. /\ request' = [request EXCEPT ![k] = next]
          /\ awaited' = awaited /\ UNCHANGED <<disk, net, memory>>
      BY <1>2 DEF NetAnswers, pools
    <2> HIDE DEF next
    <2> QED BY <2>1, <2>3, <2>4, InSlot
  <1> QED BY <1>1, <1>2

LEMMA DecodedKeeps ==
    ASSUME Inv, NEW k \in Keys, Decoded(k)
    PROVE  Inv'
  BY SettleKeeps DEF Decoded

LEMMA DecodeFailsKeeps ==
    ASSUME Inv, NEW k \in Keys, DecodeFails(k)
    PROVE  Inv'
  BY FallBackKeeps DEF DecodeFails

LEMMA NetFailsForGoodKeeps ==
    ASSUME Inv, NEW k \in Keys, NetFailsForGood(k)
    PROVE  Inv'
  BY FallBackKeeps, SettleKeeps DEF NetFailsForGood

LEMMA NetFailsKeeps ==
    ASSUME Inv, NEW k \in Keys, NetFails(k)
    PROVE  Inv'
  <1> DEFINE next == [request[k] EXCEPT !.at = "backoff", !.retry = @ + 1]
  <1>0. TypeInv /\ PoolsSound /\ request \in Requests
    BY DEF Inv, TypeInv, Requests
  <1>1. /\ request[k].at = "net" /\ LeaveNet(k, next) /\ disk' = disk
        /\ UNCHANGED <<awaited, memory>>
    BY DEF NetFails
  <1>2. request[k] # NoRequest /\ request[k] \in Request
    BY <1>0, <1>1, Somewhere, RequestFacts
  <1>3. next \in Request /\ next.at = "backoff" /\ next.timer = request[k].timer
    <2>1. "backoff" \in Places
      BY DEF Places
    <2>2. next = [request[k] EXCEPT !.at = "backoff", !.retry = request[k].retry + 1]
      OBVIOUS
    <2>3. request[k].retry + 1 \in Nat
      BY <1>2 DEF Request
    <2> HIDE DEF next
    <2> QED BY <1>2, <2>1, <2>2, <2>3 DEF Request
  <1> HIDE DEF next
  <1>4. next \in Request \cup {NoRequest} /\ next.at \notin InNet \cup {"disk", "disk queue"}
    BY <1>3 DEF InNet
  <1>5. /\ PoolsSound' /\ request' \in Requests /\ disk' \in Pool /\ net' \in Pool
        /\ request'[k] = next /\ Carried(request', k, Woken(net), "net")
    BY <1>0, <1>1, <1>4, NetLeft
  <1>6. request'[k] # NoRequest /\ request'[k].timer = request[k].timer
    BY <1>3, <1>5, Somewhere
  <1> QED BY <1>1, <1>2, <1>5, <1>6, TheRestStays

LEMMA BackoffEndsKeeps ==
    ASSUME Inv, NEW k \in Keys, BackoffEnds(k)
    PROVE  Inv'
  <1> DEFINE place == IF net.active < NetSlots THEN "net" ELSE "net queue"
             next == [request[k] EXCEPT !.at = place]
  <1>0. /\ TypeInv /\ PoolsSound /\ request \in Requests /\ disk \in Pool /\ DiskIs(disk, request)
    BY DEF Inv, TypeInv, PoolsSound, Requests
  <1>1. /\ request[k].at = "backoff" /\ net' = Acquire(net, NetSlots, k, request)
        /\ request' = [request EXCEPT ![k] = next] /\ disk' = disk /\ UNCHANGED <<awaited, memory>>
    BY DEF BackoffEnds
  <1>2. request[k] # NoRequest /\ request[k] \in Request
    BY <1>0, <1>1, Somewhere, RequestFacts
  <1>3. /\ next \in Request /\ next.at = place /\ next.priority = request[k].priority
        /\ next.timer = request[k].timer
    BY <1>2 DEF Request, Places
  <1>4. place \in {"net", "net queue"}
    OBVIOUS
  <1> HIDE DEF next
  <1>5. /\ request' \in Requests /\ request'[k] = next
        /\ \A x \in Keys \ {k} : request'[x] = request[x]
    BY <1>0, <1>1, <1>3 DEF Requests
  <1>6. Carried(request', k, {}, "disk")
    BY <1>5 DEF Carried
  <1>7. net' \in Pool /\ NetIs(net', request')
    <2>1. request[k].at \notin InNet
      BY <1>1 DEF InNet
    <2>2. /\ request'[k].at = IF net.active < NetSlots THEN "net" ELSE "net queue"
          /\ request'[k].priority = request[k].priority
      BY <1>3, <1>5
    <2>3. \A x \in Keys \ {k} :
             /\ request'[x].at = request[x].at \/ (request'[x].at = "disk" /\ request[x].at = "disk queue")
             /\ request[x] # NoRequest => request'[x].priority = request[x].priority
      BY <1>5
    <2> HIDE DEF place
    <2> QED BY <1>0, <1>1, <1>2, <2>1, <2>2, <2>3, NetAsked
  <1>8. DiskIs(disk, request')
    <2>1. /\ AtIn(request', {"disk"}) = AtIn(request, {"disk"})
          /\ AtIn(request', {"disk queue"}) = AtIn(request, {"disk queue"})
      <3> HIDE DEF place
      <3> QED BY <1>1, <1>3, <1>4, <1>5 DEF AtIn
    <2>2. \A x \in AtIn(request, {"disk queue"}) : request'[x].priority = request[x].priority
      BY <1>3, <1>5 DEF AtIn
    <2>3. Sound(disk, DiskSlots, AtIn(request, {"disk"}), AtIn(request, {"disk queue"}), request')
      BY <1>0, <2>2, SoundFor DEF DiskIs
    <2> QED BY <2>1, <2>3 DEF DiskIs
  <1>9. PoolsSound'
    BY <1>1, <1>7, <1>8 DEF PoolsSound
  <1>10. request'[k] # NoRequest /\ request'[k].timer = request[k].timer
    BY <1>3, <1>4, <1>5, Somewhere
  <1> QED BY <1>0, <1>1, <1>2, <1>5, <1>6, <1>7, <1>9, <1>10, TheRestStays

-----------------------------------------------------------------------------
(* The invariant, and the theorems. *)

LEMMA InitInv == Init => Inv
  <1> SUFFICES ASSUME Init PROVE Inv
    OBVIOUS
  <1>0. /\ request = [k \in Keys |-> NoRequest] /\ awaited = [c \in Consumers |-> Nothing]
        /\ disk = [active |-> 0, entries |-> <<>>] /\ net = [active |-> 0, entries |-> <<>>]
        /\ probation = <<>> /\ protected = <<>> /\ prefetched = {}
    BY DEF Init
  <1>1. \A k \in Keys : request[k] = NoRequest /\ request[k].at = "none"
    BY <1>0, Somewhere
  <1>2. ToSet(<<>>) = {} /\ Len(<<>>) = 0 /\ <<>> \in Seq(Keys) /\ IsInjective(<<>>)
    BY DEF ToSet, IsInjective
  <1>3. \A S : S \subseteq Places => AtIn(request, S) = {}
    BY <1>1 DEF AtIn, Places
  <1>4. /\ AtIn(request, {"disk"}) = {} /\ AtIn(request, {"disk queue"}) = {}
        /\ AtIn(request, {"net", "decode"}) = {} /\ AtIn(request, {"net queue"}) = {}
    BY <1>3 DEF Places
  <1>5. ASSUME NEW pool, pool = [active |-> 0, entries |-> <<>>], NEW slots \in Nat
        PROVE  pool \in Pool /\ Sound(pool, slots, {}, {}, request)
    <2>1. pool.active = 0 /\ pool.entries = <<>>
      BY <1>5
    <2>2. pool \in Pool
      BY <1>2, <1>5 DEF Pool
    <2>3. InOrder(pool.entries, request)
      BY <1>2, <2>1 DEF InOrder
    <2>4. IsFiniteSet({}) /\ Cardinality({}) = 0
      BY FS_EmptySet
    <2> QED BY <1>2, <2>1, <2>2, <2>3, <2>4 DEF Sound
  <1>6. PoolsSound
    <2>1. Sound(disk, DiskSlots, {}, {}, request) /\ Sound(net, NetSlots, {}, {}, request)
      BY <1>0, <1>5, RangeAssumption
    <2> QED BY <1>4, <2>1 DEF PoolsSound, DiskIs, NetIs
  <1>7. TypeInv
    <2>1. disk \in Pool /\ net \in Pool
      BY <1>0, <1>5
    <2>2. request \in [Keys -> Request \cup {NoRequest}] /\ awaited \in [Consumers -> Keys \cup {Nothing}]
      BY <1>0
    <2> QED BY <1>0, <1>2, <2>1, <2>2 DEF TypeInv
  <1>8. MemorySound
    <2>1. Bytes(probation) = 0 /\ Bytes(protected) = 0
      <3>1. Content(<<>>) = {}
        BY <1>2 DEF Content
      <3> QED BY <1>0, <3>1, FS_EmptySet DEF Bytes
    <2>2. probation \o protected = <<>>
      BY <1>0
    <2> QED BY <1>0, <1>1, <1>2, <2>1, <2>2, RangeAssumption DEF MemorySound
  <1>9. Attended
    BY <1>0 DEF Attended
  <1> QED BY <1>6, <1>7, <1>8, <1>9 DEF Inv

LEMMA NextInv == Inv /\ [Next]_vars => Inv'
  <1> SUFFICES ASSUME Inv, [Next]_vars PROVE Inv'
    OBVIOUS
  <1>1. ASSUME NEW c \in Consumers, NEW k \in Keys, FetchCached(c, k) \/ FetchInFlight(c, k) \/ FetchNew(c, k)
        PROVE  Inv'
    BY <1>1, FetchCachedKeeps, FetchInFlightKeeps, FetchNewKeeps
  <1>2. ASSUME NEW c \in Consumers, Abort(c)
        PROVE  Inv'
    BY <1>2, AbortKeeps
  <1>3. ASSUME NEW k \in Keys, GraceExpires(k)
        PROVE  Inv'
    BY <1>3, GraceExpiresKeeps
  <1>4. ASSUME NEW k \in Keys, DiskAnswers(k) \/ DiskMisses(k)
        PROVE  Inv'
    BY <1>4, DiskAnswersKeeps, DiskMissesKeeps
  <1>5. ASSUME NEW k \in Keys, NetAnswers(k) \/ NetFails(k) \/ NetFailsForGood(k)
        PROVE  Inv'
    BY <1>5, NetAnswersKeeps, NetFailsKeeps, NetFailsForGoodKeeps
  <1>6. ASSUME NEW k \in Keys, Decoded(k) \/ DecodeFails(k) \/ BackoffEnds(k)
        PROVE  Inv'
    BY <1>6, DecodedKeeps, DecodeFailsKeeps, BackoffEndsKeeps
  <1>7. CASE UNCHANGED vars
    <2>1. UNCHANGED <<request, awaited, disk, net, probation, protected, prefetched>>
      BY <1>7 DEF vars, pools, memory
    <2>2. TypeInv' /\ PoolsSound' /\ Attended'
      BY <2>1 DEF Inv, TypeInv, PoolsSound, Attended
    <2>3. \A k : Cached(k)' = Cached(k)
      BY <2>1 DEF Cached
    <2>4. MemorySound'
      BY <2>1, <2>3 DEF Inv, MemorySound
    <2> QED BY <2>2, <2>4 DEF Inv
  <1> QED BY <1>1, <1>2, <1>3, <1>4, <1>5, <1>6, <1>7 DEF Next

LEMMA Invariant == Spec => []Inv
  BY InitInv, NextInv, PTL DEF Spec

\* A pool is what the invariant says of it.
LEMMA SoundIsPoolSound ==
    ASSUME NEW pool \in Pool, NEW slots, NEW holders, NEW queued,
           Sound(pool, slots, holders, queued, request)
    PROVE  PoolSound(pool, slots, holders, queued)
  <1>1. DOMAIN pool.entries = 1 .. Len(pool.entries)
    BY DEF Pool
  <1>2. \A i, j \in DOMAIN pool.entries :
           i < j /\ request[pool.entries[j]].priority = "critical"
             => request[pool.entries[i]].priority = "critical"
    BY <1>1 DEF Sound, InOrder
  <1> QED BY <1>2 DEF Sound, PoolSound

\* What a consumer of a range awaits is in flight, and the memory holds a range once
\* (the requests that #inFlight shares; MemoryRangeCache).
THEOREM RangesTyped == Spec => []RangeTypeOK
  <1>1. Inv => RangeTypeOK
    BY DEF Inv, TypeInv, MemorySound, Attended, RangeTypeOK
  <1> QED BY Invariant, <1>1, PTL

\* A slot is held by a request that uses it and none is idle while somebody
\* queues, demand queues in front of predictions, and the memory stays within its
\* bytes, with no prediction in the protected part (BoundedPriorityPool and
\* MemoryRangeCache under every order of consumers, answers and failures).
THEOREM ResourcesCorrect == Spec => []ResourcesConserved
  <1>1. Inv => ResourcesConserved
    <2> SUFFICES ASSUME Inv PROVE ResourcesConserved
      OBVIOUS
    <2>1. /\ AtIn(request, {"disk"}) = At("disk") /\ AtIn(request, {"disk queue"}) = At("disk queue")
          /\ AtIn(request, {"net", "decode"}) = At("net") \cup At("decode")
          /\ AtIn(request, {"net queue"}) = At("net queue")
      BY DEF AtIn, At
    <2>2. disk \in Pool /\ net \in Pool
      BY DEF Inv, TypeInv
    <2>3. PoolSound(disk, DiskSlots, At("disk"), At("disk queue"))
      BY <2>1, <2>2, SoundIsPoolSound DEF Inv, PoolsSound, DiskIs
    <2>4. PoolSound(net, NetSlots, At("net") \cup At("decode"), At("net queue"))
      BY <2>1, <2>2, SoundIsPoolSound DEF Inv, PoolsSound, NetIs
    <2> QED BY <2>3, <2>4 DEF Inv, MemorySound, ResourcesConserved
  <1> QED BY Invariant, <1>1, PTL
====
