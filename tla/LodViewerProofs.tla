--------------------------- MODULE LodViewerProofs ---------------------------
(***************************************************************************)
(* Theorems about the level-of-detail loop of the viewer, for any tree of  *)
(* tiles, any sizes of them, any budgets and any cuts to show.  The first  *)
(* part is about folds, the tree and the sizes of its nodes, the second    *)
(* about the planning of the next cut, the third about the slots of the    *)
(* arena and what is written to them, the last about the loop itself.      *)
(***************************************************************************)
EXTENDS LodViewer, TLAPS, FiniteSetTheorems, SequenceTheorems

\* A set of numbers has a least one.
LEMMA Least ==
    ASSUME NEW S, S \subseteq Nat, S # {}
    PROVE  \E m \in S : \A n \in S : m <= n
  <1>1. PICK m \in S : \A n \in S : <<n, m>> \notin OpToRel(<, Nat)
    BY NatLessThanWellFounded, WFMin
  <1>2. \A n \in S : m <= n
    <2> SUFFICES ASSUME NEW n \in S, n < m PROVE FALSE
      OBVIOUS
    <2> QED BY <1>1 DEF OpToRel
  <1> QED BY <1>2

\* What holds of 0 and is inherited by the next number.
LEMMA StepByStep ==
    ASSUME NEW N \in Nat, NEW S, 0 \in S, \A i \in 1 .. N : i - 1 \in S => i \in S
    PROVE  \A i \in 0 .. N : i \in S
  <1> SUFFICES ASSUME (0 .. N) \ S # {} PROVE FALSE
    OBVIOUS
  <1> DEFINE missing == (0 .. N) \ S
  <1>0. missing \subseteq Nat /\ missing # {}
    OBVIOUS
  <1> HIDE DEF missing
  <1>1. PICK m \in missing : \A n \in missing : m <= n
    BY <1>0, Least
  <1> USE DEF missing
  <1>2. m \in 1 .. N /\ m - 1 \in S
    BY <1>1
  <1> QED BY <1>1, <1>2

\* The greatest of the first numbers, as a fold takes it.
LEMMA MaxIs ==
    ASSUME NEW N \in Nat, NEW T, T \subseteq 1 .. N, T # {}
    PROVE  Max(T) \in T /\ Max(T) \in 1 .. N /\ \A n \in T : Max(T) >= n
  <1> DEFINE below == {N - n : n \in T}
  <1>1. \A n \in T : n \in Nat /\ N - n \in Nat
    OBVIOUS
  <1>2. below \subseteq Nat /\ below # {}
    BY <1>1
  <1>3. PICK m \in below : \A x \in below : m <= x
    <2> HIDE DEF below
    <2> QED BY <1>2, Least
  <1>4. PICK t \in T : m = N - t
    OBVIOUS
  <1>5. \A n \in T : t >= n
    <2> SUFFICES ASSUME NEW n \in T PROVE t >= n
      OBVIOUS
    <2>1. N - t <= N - n
      BY <1>3, <1>4
    <2> QED BY <2>1, <1>1
  <1>6. Max(T) \in T /\ \A n \in T : Max(T) >= n
    BY <1>5 DEF Max
  <1> QED BY <1>6

-----------------------------------------------------------------------------
(* The folds: what one step of them does, the whole does along the sequence. *)

\* The function a fold over the front of a sequence is, on any set of its indices.
Iterates(it, s, len, base, h) ==
    \A T \in SUBSET (1 .. len) :
        it[T] = IF T = {} THEN base ELSE h[<<it[T \ {Max(T)}], s[Max(T)]>>]

\* The function a fold is chosen as exists.
LEMMA FoldExists ==
    ASSUME NEW E, NEW s, NEW len \in Nat, \A i \in 1 .. len : s[i] \in E,
           NEW G, NEW base \in G, NEW h \in [G \X E -> G]
    PROVE  \E it \in [SUBSET (1 .. len) -> G] : Iterates(it, s, len, base, h)
  <1> DEFINE Good == {k \in 0 .. len :
                        \E it \in [SUBSET (1 .. k) -> G] : Iterates(it, s, k, base, h)}
  <1>1. 0 \in Good
    <2> DEFINE it == [T \in SUBSET (1 .. 0) |-> base]
    <2>1. it \in [SUBSET (1 .. 0) -> G] /\ \A T \in SUBSET (1 .. 0) : T = {}
      OBVIOUS
    <2>2. Iterates(it, s, 0, base, h)
      BY <2>1 DEF Iterates
    <2> QED BY <2>1, <2>2
  <1>2. ASSUME NEW k \in 1 .. len, k - 1 \in Good PROVE k \in Good
    <2>1. PICK it \in [SUBSET (1 .. k - 1) -> G] : Iterates(it, s, k - 1, base, h)
      BY <1>2
    <2> DEFINE Next1(T) == IF k \in T THEN h[<<it[T \ {k}], s[k]>>] ELSE it[T]
               jt == [T \in SUBSET (1 .. k) |-> Next1(T)]
    <2>2. \A T \in SUBSET (1 .. k) : T \ {k} \in SUBSET (1 .. k - 1) /\ (k \notin T => T \in SUBSET (1 .. k - 1))
      OBVIOUS
    <2>3. jt \in [SUBSET (1 .. k) -> G]
      <3> SUFFICES ASSUME NEW T \in SUBSET (1 .. k) PROVE Next1(T) \in G
        OBVIOUS
      <3> QED BY <2>1, <2>2
    <2>4. ASSUME NEW T \in SUBSET (1 .. k)
          PROVE  jt[T] = IF T = {} THEN base ELSE h[<<jt[T \ {Max(T)}], s[Max(T)]>>]
      <3>1. CASE k \in T
        <4>1. Max(T) = k
          <5>0. k \in Nat /\ T \subseteq 1 .. k /\ T # {}
            BY <3>1
          <5>1. Max(T) \in 1 .. k /\ Max(T) >= k
            BY <3>1, <5>0, MaxIs
          <5> QED BY <5>1
        <4>2. jt[T \ {k}] = it[T \ {k}]
          BY <2>2
        <4> QED BY <3>1, <4>1, <4>2
      <3>2. CASE k \notin T /\ T # {}
        <4>0. k - 1 \in Nat /\ T \subseteq 1 .. k - 1 /\ T # {}
          BY <3>2, <2>2
        <4>1. T \in SUBSET (1 .. k - 1) /\ Max(T) \in T
          BY <4>0, MaxIs
        <4>2. jt[T] = it[T] /\ jt[T \ {Max(T)}] = it[T \ {Max(T)}]
          BY <3>2, <4>1
        <4> QED BY <2>1, <3>2, <4>1, <4>2 DEF Iterates
      <3>3. CASE T = {}
        BY <2>1, <3>3 DEF Iterates
      <3> QED BY <3>1, <3>2, <3>3
    <2> HIDE DEF jt
    <2>5. Iterates(jt, s, k, base, h)
      BY <2>4 DEF Iterates
    <2> QED BY <2>3, <2>5
  <1> HIDE DEF Good
  <1>3. len \in Good
    BY <1>1, <1>2, StepByStep
  <1> QED BY <1>3 DEF Good

\* Of the sets a fold goes through, the ones in front.
LEMMA InFront ==
    ASSUME NEW i \in Nat, i # 0
    PROVE  Max(1 .. i) = i /\ (1 .. i) \ {i} = 1 .. i - 1 /\ 1 .. i # {}
  <1>1. 1 .. i \subseteq 1 .. i /\ 1 .. i # {} /\ i \in 1 .. i
    OBVIOUS
  <1>2. Max(1 .. i) \in 1 .. i /\ Max(1 .. i) >= i
    BY <1>1, MaxIs
  <1>3. Max(1 .. i) = i
    BY <1>2
  <1>4. (1 .. i) \ {i} = 1 .. i - 1
    OBVIOUS
  <1> QED BY <1>1, <1>3, <1>4

-----------------------------------------------------------------------------
(* Filtering. *)

\* Those goes through the sequence from its front.
LEMMA ThoseSteps ==
    ASSUME NEW E, NEW s \in Seq(E), NEW S
    PROVE  \E p : /\ p[0] = <<>> /\ Those(s, S) = p[Len(s)]
                  /\ \A i \in 1 .. Len(s) :
                        p[i] = IF s[i] \in S THEN Append(p[i - 1], s[i]) ELSE p[i - 1]
  <1> DEFINE Is(f) == f = [T \in SUBSET (DOMAIN s) |->
                              IF T = {} THEN <<>>
                              ELSE IF s[Max(T)] \in S THEN Append(f[T \ {Max(T)}], s[Max(T)])
                                   ELSE f[T \ {Max(T)}]]
             h == [x \in Seq(E) \X E |-> IF x[2] \in S THEN Append(x[1], x[2]) ELSE x[1]]
             f == CHOOSE f : Is(f)
  <1>1. Len(s) \in Nat /\ DOMAIN s = 1 .. Len(s) /\ \A i \in 1 .. Len(s) : s[i] \in E
    BY LenProperties, ElementOfSeq
  <1>2. h \in [Seq(E) \X E -> Seq(E)] /\ <<>> \in Seq(E)
    BY AppendProperties
  <1>3. PICK it \in [SUBSET (1 .. Len(s)) -> Seq(E)] : Iterates(it, s, Len(s), <<>>, h)
    BY <1>1, <1>2, FoldExists
  <1>4. Is(it)
    <2>1. ASSUME NEW T \in SUBSET (1 .. Len(s)), T # {}
          PROVE  it[T] = IF s[Max(T)] \in S THEN Append(it[T \ {Max(T)}], s[Max(T)])
                         ELSE it[T \ {Max(T)}]
      <3>1. Max(T) \in 1 .. Len(s) /\ T \ {Max(T)} \in SUBSET (1 .. Len(s))
        BY <1>1, <2>1, MaxIs
      <3>2. it[T] = h[<<it[T \ {Max(T)}], s[Max(T)]>>]
        BY <1>3, <2>1 DEF Iterates
      <3> QED BY <1>1, <1>3, <3>1, <3>2
    <2>2. it[{}] = <<>>
      BY <1>3 DEF Iterates
    <2> QED BY <1>1, <1>3, <2>1, <2>2
  <1> HIDE DEF Is, h
  <1>5. Is(f)
    BY <1>4
  <1>6. Those(s, S) = f[DOMAIN s]
    BY DEF Those, Is, FoldLeft, MapThenFoldSet
  <1> HIDE DEF f
  <1> DEFINE p == [i \in 0 .. Len(s) |-> f[1 .. i]]
  <1>7. p[0] = <<>>
    <2>1. 1 .. 0 = {} /\ f[{}] = <<>>
      BY <1>5 DEF Is
    <2> QED BY <1>1, <2>1
  <1>8. ASSUME NEW i \in 1 .. Len(s)
        PROVE  p[i] = IF s[i] \in S THEN Append(p[i - 1], s[i]) ELSE p[i - 1]
    <2>0. i \in Nat /\ i # 0 /\ 1 .. i \in SUBSET (1 .. Len(s))
      BY <1>1
    <2>f. Max(1 .. i) = i /\ (1 .. i) \ {i} = 1 .. i - 1 /\ 1 .. i # {}
      BY <2>0, InFront
    <2>1. f[1 .. i] = IF s[i] \in S THEN Append(f[1 .. i - 1], s[i]) ELSE f[1 .. i - 1]
      BY <1>1, <1>5, <2>0, <2>f DEF Is
    <2> QED BY <1>1, <2>1
  <1>9. Those(s, S) = p[Len(s)]
    BY <1>1, <1>6
  <1> HIDE DEF p
  <1> QED BY <1>7, <1>8, <1>9

\* What a sequence lists.
LEMMA Listed ==
    ASSUME NEW E, NEW s \in Seq(E)
    PROVE  /\ Len(s) \in Nat /\ DOMAIN s = 1 .. Len(s)
           /\ ToSet(s) = {s[i] : i \in 1 .. Len(s)} /\ ToSet(s) \subseteq E
           /\ \A i \in 1 .. Len(s) : s[i] \in E /\ s[i] \in ToSet(s)
           /\ IsInjective(s) <=> \A i, j \in 1 .. Len(s) : s[i] = s[j] => i = j
  <1>1. Len(s) \in Nat /\ DOMAIN s = 1 .. Len(s) /\ \A i \in 1 .. Len(s) : s[i] \in E
    BY LenProperties, ElementOfSeq
  <1>2. ToSet(s) = {s[i] : i \in 1 .. Len(s)}
    BY <1>1 DEF ToSet
  <1> QED BY <1>1, <1>2 DEF IsInjective

\* A sequence with one more element.
LEMMA AppendIs ==
    ASSUME NEW E, NEW s \in Seq(E), NEW x \in E
    PROVE  /\ Append(s, x) \in Seq(E) /\ ToSet(Append(s, x)) = ToSet(s) \union {x}
           /\ Len(Append(s, x)) = Len(s) + 1 /\ Append(s, x)[Len(s) + 1] = x
           /\ \A i \in 1 .. Len(s) : Append(s, x)[i] = s[i]
           /\ IsInjective(s) /\ x \notin ToSet(s) => IsInjective(Append(s, x))
  <1> DEFINE t == Append(s, x)
  <1>1. /\ t \in Seq(E) /\ Len(t) = Len(s) + 1 /\ t[Len(s) + 1] = x
        /\ \A i \in 1 .. Len(s) : t[i] = s[i]
    BY AppendProperties
  <1>2. Len(s) \in Nat /\ ToSet(s) = {s[i] : i \in 1 .. Len(s)}
    BY Listed
  <1>3. ToSet(t) = {t[i] : i \in 1 .. Len(t)}
    BY <1>1, Listed
  <1>4. ToSet(t) = ToSet(s) \union {x}
    <2>1. 1 .. Len(t) = (1 .. Len(s)) \union {Len(s) + 1}
      BY <1>1, <1>2
    <2> QED BY <1>1, <1>2, <1>3, <2>1
  <1>5. ASSUME IsInjective(s), x \notin ToSet(s) PROVE IsInjective(t)
    <2>1. \A i, j \in 1 .. Len(s) : s[i] = s[j] => i = j
      BY <1>5, Listed
    <2>2. \A i \in 1 .. Len(s) : s[i] # x
      BY <1>2, <1>5
    <2>3. \A i \in 1 .. Len(t) : i \in 1 .. Len(s) \/ i = Len(s) + 1
      BY <1>1, <1>2
    <2>4. \A i, j \in 1 .. Len(t) : t[i] = t[j] => i = j
      BY <1>1, <2>1, <2>2, <2>3
    <2> QED BY <1>1, <2>4, Listed
  <1> QED BY <1>1, <1>4, <1>5

\* What Those keeps: the elements that are in the set, each once if they were.
LEMMA ThoseIs ==
    ASSUME NEW E, NEW s \in Seq(E), NEW S
    PROVE  /\ Those(s, S) \in Seq(E) /\ ToSet(Those(s, S)) = ToSet(s) \intersect S
           /\ IsInjective(s) => IsInjective(Those(s, S))
           /\ ToSet(s) \subseteq S => Those(s, S) = s
  <1>1. PICK p : /\ p[0] = <<>> /\ Those(s, S) = p[Len(s)]
                 /\ \A i \in 1 .. Len(s) :
                        p[i] = IF s[i] \in S THEN Append(p[i - 1], s[i]) ELSE p[i - 1]
    BY ThoseSteps
  <1>2. /\ Len(s) \in Nat /\ ToSet(s) = {s[i] : i \in 1 .. Len(s)}
        /\ \A i \in 1 .. Len(s) : s[i] \in E /\ s[i] \in ToSet(s)
        /\ IsInjective(s) <=> \A i, j \in 1 .. Len(s) : s[i] = s[j] => i = j
    BY Listed
  <1> DEFINE Is(i) ==
                /\ p[i] \in Seq(E) /\ ToSet(p[i]) = {s[j] : j \in 1 .. i} \intersect S
                /\ IsInjective(s) => IsInjective(p[i])
                /\ ToSet(s) \subseteq S => Len(p[i]) = i /\ \A j \in 1 .. i : p[i][j] = s[j]
             Good == {i \in 0 .. Len(s) : Is(i)}
  <1>3. 0 \in Good
    <2>1. <<>> \in Seq(E) /\ Len(<<>>) = 0 /\ DOMAIN <<>> = {}
      OBVIOUS
    <2>2. ToSet(<<>>) = {} /\ IsInjective(<<>>)
      BY <2>1 DEF ToSet, IsInjective
    <2>3. {s[j] : j \in 1 .. 0} = {} /\ 0 \in 0 .. Len(s) /\ p[0] = <<>>
      BY <1>1, <1>2
    <2>4. ToSet(s) \subseteq S => Len(p[0]) = 0 /\ \A j \in 1 .. 0 : p[0][j] = s[j]
      BY <2>1, <2>3
    <2> QED BY <2>1, <2>2, <2>3, <2>4
  <1>4. ASSUME NEW i \in 1 .. Len(s), Is(i - 1) PROVE Is(i)
    <2>1. {s[j] : j \in 1 .. i} = {s[j] : j \in 1 .. i - 1} \union {s[i]}
      <3>1. 1 .. i = (1 .. i - 1) \union {i}
        BY <1>2
      <3> QED BY <3>1
    <2>2. CASE s[i] \in S
      <3>1. p[i] = Append(p[i - 1], s[i])
        BY <1>1, <2>2
      <3>2. s[i] \in E /\ p[i - 1] \in Seq(E)
        BY <1>2, <1>4
      <3>3. p[i] \in Seq(E) /\ ToSet(p[i]) = ToSet(p[i - 1]) \union {s[i]}
        BY <3>1, <3>2, AppendIs
      <3>4. ASSUME IsInjective(s) PROVE IsInjective(p[i])
        <4>1. s[i] \notin {s[j] : j \in 1 .. i - 1}
          BY <1>2, <3>4
        <4>2. s[i] \notin ToSet(p[i - 1]) /\ IsInjective(p[i - 1])
          BY <1>4, <3>4, <4>1
        <4> QED BY <3>1, <3>2, <4>2, AppendIs
      <3>5. ASSUME ToSet(s) \subseteq S
            PROVE  Len(p[i]) = i /\ \A j \in 1 .. i : p[i][j] = s[j]
        <4>1. Len(p[i - 1]) = i - 1 /\ \A j \in 1 .. i - 1 : p[i - 1][j] = s[j]
          BY <1>4, <3>5
        <4>2. /\ Len(p[i]) = Len(p[i - 1]) + 1 /\ p[i][Len(p[i - 1]) + 1] = s[i]
              /\ \A j \in 1 .. Len(p[i - 1]) : p[i][j] = p[i - 1][j]
          BY <3>1, <3>2, AppendIs
        <4>3. \A j \in 1 .. i : j \in 1 .. i - 1 \/ j = i
          BY <1>2
        <4> QED BY <1>2, <4>1, <4>2, <4>3
      <3>6. ToSet(p[i]) = {s[j] : j \in 1 .. i} \intersect S
        BY <1>4, <2>1, <2>2, <3>3
      <3> QED BY <3>3, <3>4, <3>5, <3>6
    <2>3. CASE s[i] \notin S
      <3>1. p[i] = p[i - 1]
        BY <1>1, <2>3
      <3>2. ~(ToSet(s) \subseteq S)
        BY <1>2, <2>3
      <3> QED BY <1>4, <2>1, <2>3, <3>1, <3>2
    <2> QED BY <2>2, <2>3
  <1>5. ASSUME NEW i \in 1 .. Len(s), i - 1 \in Good PROVE i \in Good
    <2>1. i \in 0 .. Len(s)
      BY <1>2, <1>5
    <2> HIDE DEF Is
    <2>2. Is(i - 1)
      BY <1>5
    <2>3. Is(i)
      BY <1>4, <1>5, <2>2
    <2> QED BY <2>1, <2>3
  <1>6. Len(s) \in Good
    <2> HIDE DEF Good
    <2>1. Len(s) \in Nat /\ 0 \in Good
      BY <1>2, <1>3
    <2>2. \A i \in 1 .. Len(s) : i - 1 \in Good => i \in Good
      BY <1>5
    <2>3. \A i \in 0 .. Len(s) : i \in Good
      BY <2>1, <2>2, StepByStep
    <2> QED BY <2>1, <2>3
  <1>7. Is(Len(s))
    BY <1>6
  <1>8. ASSUME ToSet(s) \subseteq S PROVE Those(s, S) = s
    BY <1>1, <1>7, <1>8, SeqEqual
  <1> QED BY <1>1, <1>2, <1>7, <1>8

-----------------------------------------------------------------------------
(* The tree. *)

\* A node and those above it.
Path(n) == {n} \union Ancestors[n]

\* The nodes above a node are closed under the parent ...
LEMMA AncestorsAre ==
    ASSUME NEW n \in Nodes
    PROVE  /\ Ancestors[n] \subseteq Nodes
           /\ n # Root => Parent[n] \in Ancestors[n]
           /\ \A x \in Ancestors[n] \ {Root} : Parent[x] \in Ancestors[n]
  <1>1. \A x \in Nodes \ {Root} : Parent[x] \in Nodes
    BY LodViewerAssumption
  <1> QED BY <1>1 DEF Ancestors

\* ... and the least such set.
LEMMA AncestorsLeast ==
    ASSUME NEW n \in Nodes, NEW S, S \subseteq Nodes,
           n # Root => Parent[n] \in S, \A x \in S \ {Root} : Parent[x] \in S
    PROVE  Ancestors[n] \subseteq S
  BY DEF Ancestors

\* Nothing is above the root.
LEMMA RootIsFirst == Ancestors[Root] = {}
  <1>1. Root \in Nodes
    BY LodViewerAssumption
  <1>2. Ancestors[Root] \subseteq {}
    <2> DEFINE S == {}
    <2>1. S \subseteq Nodes /\ (Root # Root => Parent[Root] \in S) /\ \A x \in S \ {Root} : Parent[x] \in S
      OBVIOUS
    <2> HIDE DEF S
    <2>2. Ancestors[Root] \subseteq S
      BY <1>1, <2>1, AncestorsLeast
    <2> QED BY <2>2 DEF S
  <1> QED BY <1>2

\* Above any other node are its parent and what is above that.
LEMMA ParentIsNext ==
    ASSUME NEW n \in Nodes, n # Root
    PROVE  Parent[n] \in Nodes /\ Ancestors[n] = Path(Parent[n])
  <1>1. Parent[n] \in Nodes
    BY LodViewerAssumption
  <1>2. Ancestors[n] \subseteq Path(Parent[n])
    <2> DEFINE S == Path(Parent[n])
    <2>1. S \subseteq Nodes /\ Parent[n] \in S
      BY <1>1, AncestorsAre DEF Path
    <2>2. \A x \in S \ {Root} : Parent[x] \in S
      BY <1>1, AncestorsAre DEF Path
    <2> HIDE DEF S
    <2>3. Ancestors[n] \subseteq S
      BY <2>1, <2>2, AncestorsLeast
    <2> QED BY <2>3 DEF S
  <1>3. Ancestors[Parent[n]] \subseteq Ancestors[n]
    BY <1>1, AncestorsAre, AncestorsLeast
  <1> QED BY <1>1, <1>2, <1>3, AncestorsAre DEF Path

\* What is above a node above is above.
LEMMA AboveAbove ==
    ASSUME NEW n \in Nodes, NEW a \in Ancestors[n]
    PROVE  a \in Nodes /\ Ancestors[a] \subseteq Ancestors[n]
  <1>1. a \in Nodes
    BY AncestorsAre
  <1>2. CASE a = Root
    <2>1. Ancestors[a] = {}
      BY <1>2, RootIsFirst
    <2> QED BY <1>1, <2>1
  <1>3. CASE a # Root
    <2>1. Parent[a] \in Ancestors[n]
      BY <1>3, AncestorsAre
    <2> QED BY <1>1, <2>1, AncestorsAre, AncestorsLeast
  <1> QED BY <1>1, <1>2, <1>3

\* The tree has no cycle.
LEMMA NotAboveItself ==
    ASSUME NEW n \in Nodes
    PROVE  n \notin Ancestors[n]
  <1> SUFFICES ASSUME n \in Ancestors[n] PROVE FALSE
    OBVIOUS
  <1>1. n # Root
    BY RootIsFirst
  <1> DEFINE S == {x \in Ancestors[n] : n \in Ancestors[x]}
  <1>2. S \subseteq Nodes
    BY AncestorsAre
  <1>3. Parent[n] \in S
    BY <1>1, ParentIsNext, AncestorsAre DEF Path
  <1>4. ASSUME NEW x \in S \ {Root} PROVE Parent[x] \in S
    <2>1. x \in Nodes /\ Parent[x] \in Ancestors[n] /\ n \in Path(Parent[x])
      BY AncestorsAre, ParentIsNext
    <2> QED BY <2>1 DEF Path
  <1>5. Ancestors[n] \subseteq S
    <2> HIDE DEF S
    <2> QED BY <1>2, <1>3, <1>4, AncestorsLeast
  <1>6. Root \in S
    BY <1>1, <1>5, LodViewerAssumption
  <1> QED BY <1>6, RootIsFirst

\* Of two nodes on the way to the root, one is above the other.
LEMMA OneWayUp ==
    ASSUME NEW n \in Nodes, NEW a \in Path(n), NEW b \in Path(n)
    PROVE  a = b \/ a \in Ancestors[b] \/ b \in Ancestors[a]
  <1>1. CASE a = n \/ b = n
    BY <1>1 DEF Path
  <1>2. CASE a \in Ancestors[n] /\ b \in Ancestors[n]
    <2> DEFINE S == {x \in Ancestors[n] : x = a \/ x \in Ancestors[a] \/ a \in Ancestors[x]}
    <2>1. n # Root
      BY <1>2, RootIsFirst
    <2>2. S \subseteq Nodes /\ a \in Nodes
      BY <1>2, AncestorsAre
    <2>3. Parent[n] \in S
      BY <1>2, <2>1, ParentIsNext, AncestorsAre DEF Path
    <2>4. ASSUME NEW x \in S \ {Root} PROVE Parent[x] \in S
      <3>1. x \in Nodes /\ Parent[x] \in Ancestors[n] /\ Ancestors[x] = Path(Parent[x])
        BY AncestorsAre, ParentIsNext
      <3>2. Parent[x] \in Ancestors[x]
        BY <3>1 DEF Path
      <3>3. CASE x = a
        BY <3>1, <3>2, <3>3
      <3>4. CASE x \in Ancestors[a]
        BY <2>2, <3>1, <3>4, AncestorsAre
      <3>5. CASE a \in Ancestors[x]
        BY <3>1, <3>5 DEF Path
      <3> QED BY <3>3, <3>4, <3>5
    <2>5. Ancestors[n] \subseteq S
      <3> HIDE DEF S
      <3> QED BY <2>2, <2>3, <2>4, AncestorsLeast
    <2> QED BY <1>2, <2>5
  <1> QED BY <1>1, <1>2 DEF Path

\* The way down from a node to one below passes a child of it.
LEMMA ChildOnTheWay ==
    ASSUME NEW x \in Nodes, NEW n \in Ancestors[x]
    PROVE  \E c \in Path(x) : c \in Nodes \ {Root} /\ Parent[c] = n
  <1> DEFINE S == {y \in Ancestors[x] : \E c \in Path(x) : c \in Nodes \ {Root} /\ Parent[c] = y}
  <1>1. S \subseteq Nodes /\ x # Root
    BY AncestorsAre, RootIsFirst
  <1>2. Parent[x] \in S
    BY <1>1, AncestorsAre DEF Path
  <1>3. ASSUME NEW y \in S \ {Root} PROVE Parent[y] \in S
    <2>1. y \in Nodes \ {Root} /\ y \in Path(x) /\ Parent[y] \in Ancestors[x]
      BY <1>1, AncestorsAre DEF Path
    <2> QED BY <2>1
  <1>4. Ancestors[x] \subseteq S
    <2> HIDE DEF S
    <2> QED BY <1>1, <1>2, <1>3, AncestorsLeast
  <1> QED BY <1>4

\* A node is shown when a node of the set is on its way to the root.
LEMMA RootShowsAll ==
    ASSUME NEW n \in Nodes
    PROVE  Root \in Path(n)
  BY LodViewerAssumption DEF Path

-----------------------------------------------------------------------------
(* Sizes. *)

\* The records of a set of nodes.
RecordsOf(S) == UNION {{n} \X (1 .. Records[n]) : n \in S}

\* The nodes are finitely many, each in its place of the order, and none is empty.
LEMMA NodesAre ==
    /\ Order \in Seq(Nodes) /\ IsInjective(Order) /\ ToSet(Order) = Nodes
    /\ IsFiniteSet(Nodes) /\ Root \in Nodes
    /\ \A n \in Nodes : Records[n] \in Nat /\ Records[n] >= 1
  <1>1. /\ Order \in Seq(Nodes) /\ IsInjective(Order) /\ ToSet(Order) = Nodes
        /\ Root \in Nodes /\ \A n \in Nodes : Records[n] \in Nat /\ Records[n] >= 1
    BY LodViewerAssumption DEF Nodes
  <1>2. Len(Order) \in Nat /\ ToSet(Order) = {Order[i] : i \in 1 .. Len(Order)}
    BY <1>1, Listed
  <1> DEFINE list == [i \in 1 .. Len(Order) |-> Order[i]]
  <1>3. list \in Surjection(1 .. Len(Order), Nodes)
    BY <1>1, <1>2 DEF Surjection
  <1>4. IsFiniteSet(1 .. Len(Order))
    BY <1>2, FS_Interval
  <1> HIDE DEF list
  <1>5. IsFiniteSet(Nodes)
    BY <1>3, <1>4, FS_Surjection
  <1> QED BY <1>1, <1>5

\* The size of a set of nodes is the number of their records.
LEMMA TotalIs ==
    ASSUME NEW S, S \subseteq Nodes
    PROVE  /\ IsFiniteSet(RecordsOf(S)) /\ Total[S] = Cardinality(RecordsOf(S))
           /\ Total[S] \in Nat
  <1> DEFINE part(n) == {n} \X (1 .. Records[n])
             parts == {part(n) : n \in S}
             list == [n \in S |-> part(n)]
  <1>1. list \in Surjection(S, parts)
    BY DEF Surjection
  <1>2. IsFiniteSet(S)
    BY NodesAre, FS_Subset
  <1> HIDE DEF list
  <1>3. IsFiniteSet(parts)
    BY <1>1, <1>2, FS_Surjection
  <1>4. ASSUME NEW n \in S
        PROVE  IsFiniteSet(part(n))
    <2>1. Records[n] \in Nat
      BY NodesAre
    <2>2. IsFiniteSet(1 .. Records[n])
      BY <2>1, FS_Interval
    <2>3. IsFiniteSet({n})
      BY FS_Singleton
    <2> QED BY <2>2, <2>3, FS_Product
  <1>5. IsFiniteSet(UNION parts)
    BY <1>3, <1>4, FS_UNION
  <1>6. RecordsOf(S) = UNION parts
    BY DEF RecordsOf
  <1>7. Total[S] = Cardinality(RecordsOf(S))
    BY DEF Total, RecordsOf
  <1> QED BY <1>5, <1>6, <1>7, FS_CardinalityType

\* Fewer nodes have no more records.
LEMMA TotalLess ==
    ASSUME NEW T, T \subseteq Nodes, NEW S, S \subseteq T
    PROVE  Total[S] <= Total[T]
  <1>1. RecordsOf(S) \subseteq RecordsOf(T)
    BY DEF RecordsOf
  <1>2. /\ IsFiniteSet(RecordsOf(T)) /\ Total[T] = Cardinality(RecordsOf(T))
        /\ Total[S] = Cardinality(RecordsOf(S))
    BY TotalIs
  <1> QED BY <1>1, <1>2, FS_Subset

\* The sizes of disjoint sets of nodes add up.
LEMMA TotalAdd ==
    ASSUME NEW S, S \subseteq Nodes, NEW T, T \subseteq Nodes, S \intersect T = {}
    PROVE  Total[S \union T] = Total[S] + Total[T]
  <1> DEFINE A == RecordsOf(S)
             B == RecordsOf(T)
  <1>1. /\ IsFiniteSet(A) /\ Total[S] = Cardinality(A) /\ Total[S] \in Nat
        /\ IsFiniteSet(B) /\ Total[T] = Cardinality(B) /\ Total[T] \in Nat
    BY TotalIs
  <1>2. A \intersect B = {} /\ RecordsOf(S \union T) = A \union B
    BY DEF RecordsOf
  <1>3. Total[S \union T] = Cardinality(RecordsOf(S \union T))
    <2>1. S \union T \subseteq Nodes
      OBVIOUS
    <2> QED BY <2>1, TotalIs
  <1> HIDE DEF A, B
  <1>4. Cardinality(A \union B) = Cardinality(A) + Cardinality(B) - Cardinality(A \intersect B)
    BY <1>1, FS_Union
  <1>5. Cardinality(A \intersect B) = 0
    BY <1>2, FS_EmptySet
  <1>6. Total[S \union T] = Cardinality(A) + Cardinality(B) - 0
    BY <1>2, <1>3, <1>4, <1>5
  <1> QED BY <1>1, <1>6

\* The size of one node ...
LEMMA TotalOne ==
    ASSUME NEW n \in Nodes
    PROVE  Total[{n}] = Records[n]
  <1>1. Records[n] \in Nat
    BY NodesAre
  <1>2. IsFiniteSet(1 .. Records[n]) /\ Cardinality(1 .. Records[n]) = Records[n]
    BY <1>1, FS_Interval
  <1>3. IsFiniteSet({n}) /\ Cardinality({n}) = 1
    BY FS_Singleton
  <1>4. Cardinality({n} \X (1 .. Records[n])) = Records[n]
    <2> DEFINE one == {n}
               records == 1 .. Records[n]
    <2>1. /\ IsFiniteSet(one) /\ Cardinality(one) = 1
          /\ IsFiniteSet(records) /\ Cardinality(records) = Records[n]
      BY <1>2, <1>3
    <2> HIDE DEF one, records
    <2>2. Cardinality(one \X records) = Cardinality(one) * Cardinality(records)
      BY <2>1, FS_Product
    <2>3. Cardinality(one \X records) = Records[n]
      BY <1>1, <2>1, <2>2
    <2> QED BY <2>3 DEF one, records
  <1>5. RecordsOf({n}) = {n} \X (1 .. Records[n])
    BY DEF RecordsOf
  <1>6. Total[{n}] = Cardinality(RecordsOf({n}))
    <2>1. {n} \subseteq Nodes
      OBVIOUS
    <2> QED BY <2>1, TotalIs
  <1> QED BY <1>1, <1>4, <1>5, <1>6

\* ... and of none.
LEMMA TotalNone == Total[{}] = 0
  <1>1. RecordsOf({}) = {}
    BY DEF RecordsOf
  <1> QED BY <1>1, TotalIs, FS_EmptySet

\* A set of nodes without some of them.
LEMMA TotalWithout ==
    ASSUME NEW S, S \subseteq Nodes, NEW T, T \subseteq S
    PROVE  Total[S \ T] = Total[S] - Total[T]
  <1>1. Total[(S \ T) \union T] = Total[S \ T] + Total[T]
    <2>1. S \ T \subseteq Nodes /\ T \subseteq Nodes /\ (S \ T) \intersect T = {}
      OBVIOUS
    <2> QED BY <2>1, TotalAdd
  <1>2. (S \ T) \union T = S
    OBVIOUS
  <1>3. Total[S \ T] \in Nat /\ Total[T] \in Nat
    <2>1. S \ T \subseteq Nodes /\ T \subseteq Nodes
      OBVIOUS
    <2> QED BY <2>1, TotalIs
  <1>4. Total[S] = Total[S \ T] + Total[T]
    BY <1>1, <1>2
  <1> QED BY <1>3, <1>4

\* Nodes one behind the other.
LEMMA OffsetIs ==
    ASSUME NEW nodes \in Seq(Nodes), IsInjective(nodes), NEW i \in 1 .. Len(nodes)
    PROVE  /\ Offset(nodes, i) \in Nat
           /\ Records[nodes[i]] \in Nat
           /\ Offset(nodes, i) + Records[nodes[i]] <= Total[ToSet(nodes)]
           /\ \A k \in 1 .. Len(nodes) :
                 i < k => Offset(nodes, i) + Records[nodes[i]] <= Offset(nodes, k)
  <1>1. /\ Len(nodes) \in Nat /\ ToSet(nodes) = {nodes[j] : j \in 1 .. Len(nodes)}
        /\ ToSet(nodes) \subseteq Nodes /\ \A j \in 1 .. Len(nodes) : nodes[j] \in Nodes
        /\ \A j, k \in 1 .. Len(nodes) : nodes[j] = nodes[k] => j = k
    BY Listed
  <1> DEFINE upto(k) == {nodes[j] : j \in 1 .. k}
  <1>2. upto(i - 1) \subseteq Nodes /\ {nodes[i]} \subseteq Nodes
    BY <1>1
  <1>3. upto(i - 1) \intersect {nodes[i]} = {}
    BY <1>1
  <1>4. upto(i - 1) \union {nodes[i]} = upto(i)
    <2>1. 1 .. i = (1 .. i - 1) \union {i}
      BY <1>1
    <2> QED BY <2>1
  <1>5. Offset(nodes, i) = Total[upto(i - 1)]
    BY DEF Offset
  <1>6. Total[upto(i)] = Total[upto(i - 1)] + Total[{nodes[i]}]
    <2> HIDE DEF upto
    <2> QED BY <1>2, <1>3, <1>4, TotalAdd
  <1>7. Total[{nodes[i]}] = Records[nodes[i]] /\ Records[nodes[i]] \in Nat
    BY <1>1, TotalOne, NodesAre
  <1>8. upto(i) \subseteq ToSet(nodes)
    BY <1>1
  <1>9. Total[upto(i)] <= Total[ToSet(nodes)]
    <2> HIDE DEF upto
    <2> QED BY <1>1, <1>8, TotalLess
  <1>10. ASSUME NEW k \in 1 .. Len(nodes), i < k
         PROVE  Total[upto(i)] <= Offset(nodes, k)
    <2>1. upto(i) \subseteq upto(k - 1) /\ upto(k - 1) \subseteq Nodes
      BY <1>1, <1>10
    <2>2. Offset(nodes, k) = Total[upto(k - 1)]
      BY DEF Offset
    <2> HIDE DEF upto
    <2> QED BY <2>1, <2>2, TotalLess
  <1>11. Total[upto(i - 1)] \in Nat
    <2> HIDE DEF upto
    <2> QED BY <1>2, TotalIs
  <1> HIDE DEF upto
  <1>12. Offset(nodes, i) + Records[nodes[i]] = Total[upto(i)]
    BY <1>5, <1>6, <1>7
  <1> QED BY <1>5, <1>7, <1>9, <1>10, <1>11, <1>12

\* The record q of the i-th node is of no other node.
LEMMA OneTile ==
    ASSUME NEW nodes \in Seq(Nodes), IsInjective(nodes),
           NEW i \in 1 .. Len(nodes), NEW k \in 1 .. Len(nodes), NEW q \in Int,
           Offset(nodes, i) < q, q <= Offset(nodes, i) + Records[nodes[i]],
           Offset(nodes, k) < q, q <= Offset(nodes, k) + Records[nodes[k]]
    PROVE  i = k
  <1>1. /\ Offset(nodes, i) \in Nat /\ Records[nodes[i]] \in Nat
        /\ i < k => Offset(nodes, i) + Records[nodes[i]] <= Offset(nodes, k)
    BY OffsetIs
  <1>2. /\ Offset(nodes, k) \in Nat /\ Records[nodes[k]] \in Nat
        /\ k < i => Offset(nodes, k) + Records[nodes[k]] <= Offset(nodes, i)
    BY OffsetIs
  <1>3. i \in Int /\ k \in Int
    BY Listed
  <1> QED BY <1>1, <1>2, <1>3

-----------------------------------------------------------------------------
(* Nodes in their order, positions in theirs. *)

\* The nodes of a set in the order of the tree.
LEMMA SortedIs ==
    ASSUME NEW S, S \subseteq Nodes
    PROVE  /\ Sorted[S] \in Seq(Nodes) /\ IsInjective(Sorted[S]) /\ ToSet(Sorted[S]) = S
  <1>1. Sorted[S] = Those(Order, S)
    BY DEF Sorted
  <1>2. /\ Those(Order, S) \in Seq(Nodes) /\ IsInjective(Those(Order, S))
        /\ ToSet(Those(Order, S)) = Nodes \intersect S
    BY NodesAre, ThoseIs
  <1> QED BY <1>1, <1>2

\* A sequence without repetition is as long as it has elements.
LEMMA LenOfDistinct ==
    ASSUME NEW E, NEW s \in Seq(E), IsInjective(s)
    PROVE  IsFiniteSet(ToSet(s)) /\ Cardinality(ToSet(s)) = Len(s)
  <1>1. /\ Len(s) \in Nat /\ ToSet(s) = {s[i] : i \in 1 .. Len(s)}
        /\ \A i, j \in 1 .. Len(s) : s[i] = s[j] => i = j
    BY Listed
  <1> DEFINE list == [i \in 1 .. Len(s) |-> s[i]]
  <1>2. list \in Surjection(1 .. Len(s), ToSet(s)) /\ list \in Injection(1 .. Len(s), ToSet(s))
    BY <1>1 DEF Surjection, Injection
  <1>3. IsFiniteSet(1 .. Len(s)) /\ Cardinality(1 .. Len(s)) = Len(s)
    <2>1. /\ IsFiniteSet(1 .. Len(s))
          /\ Cardinality(1 .. Len(s)) = IF 1 > Len(s) THEN 0 ELSE Len(s) - 1 + 1
      BY <1>1, FS_Interval
    <2> QED BY <1>1, <2>1
  <1> HIDE DEF list
  <1> QED BY <1>2, <1>3, FS_Surjection

\* The positions of a set in ascending order; all of them are where they were.
LEMMA AscendingIs ==
    ASSUME NEW S, S \subseteq Positions
    PROVE  /\ Ascending[S] \in Seq(Positions) /\ IsInjective(Ascending[S])
           /\ ToSet(Ascending[S]) = S /\ Len(Ascending[S]) = Cardinality(S)
           /\ S = Positions => \A p \in 1 .. Len(Ascending[S]) : Ascending[S][p] = p
  <1> DEFINE all == [p \in Positions |-> p]
  <1>1. Budget \in Nat
    BY LodViewerAssumption
  <1>2. all \in Seq(Positions) /\ Len(all) = Budget
    <2>1. Positions = 1 .. Budget /\ all \in [1 .. Budget -> Positions]
      BY DEF Positions
    <2> QED BY <1>1, <2>1
  <1>3. ToSet(all) = Positions /\ IsInjective(all)
    BY DEF ToSet, IsInjective
  <1>4. Ascending[S] = Those(all, S)
    BY DEF Ascending
  <1>5. \A p \in 1 .. Len(all) : all[p] = p
    BY <1>2 DEF Positions
  <1> HIDE DEF all
  <1>6. /\ Those(all, S) \in Seq(Positions) /\ IsInjective(Those(all, S))
        /\ ToSet(Those(all, S)) = Positions \intersect S
        /\ Positions \subseteq S => Those(all, S) = all
    BY <1>2, <1>3, ThoseIs
  <1>7. ToSet(Ascending[S]) = S
    BY <1>4, <1>6
  <1> QED BY <1>4, <1>5, <1>6, <1>7, LenOfDistinct

\* No element twice.
Distinct(s, len) == \A i, j \in 1 .. len : s[i] = s[j] => i = j

\* One sequence behind another.
LEMMA Joined ==
    ASSUME NEW E, NEW s \in Seq(E), NEW t \in Seq(E)
    PROVE  /\ s \o t \in Seq(E) /\ ToSet(s \o t) = ToSet(s) \union ToSet(t)
           /\ Len(s \o t) = Len(s) + Len(t)
           /\ \A i \in 1 .. Len(s) : i \in 1 .. Len(s \o t) /\ (s \o t)[i] = s[i]
           /\ \A i \in 1 .. Len(t) : Len(s) + i \in 1 .. Len(s \o t) /\ (s \o t)[Len(s) + i] = t[i]
           /\ \A j \in 1 .. Len(s \o t) :
                 j \in 1 .. Len(s) \/ \E i \in 1 .. Len(t) : j = Len(s) + i
           /\ IsInjective(s \o t) <=> IsInjective(s) /\ IsInjective(t) /\ ToSet(s) \intersect ToSet(t) = {}
  <1> DEFINE u == s \o t
             m == Len(s)
             n == Len(t)
  <1>0. /\ m \in Nat /\ n \in Nat /\ ToSet(s) = {s[i] : i \in 1 .. m} /\ ToSet(t) = {t[i] : i \in 1 .. n}
        /\ IsInjective(s) <=> Distinct(s, m)
        /\ IsInjective(t) <=> Distinct(t, n)
    BY Listed DEF Distinct
  <1>1. /\ u \in Seq(E) /\ Len(u) = m + n
        /\ \A i \in 1 .. m + n : u[i] = IF i <= m THEN s[i] ELSE t[i - m]
    BY ConcatProperties
  <1> HIDE DEF u, m, n
  <1>2. ToSet(u) = {u[i] : i \in 1 .. m + n} /\ (IsInjective(u) <=> Distinct(u, m + n))
    BY <1>1, Listed DEF Distinct
  <1>3. \A i \in 1 .. m : i \in 1 .. m + n /\ u[i] = s[i]
    BY <1>0, <1>1
  <1>4. ASSUME NEW i \in 1 .. n
        PROVE  m + i \in 1 .. m + n /\ u[m + i] = t[i]
    <2>1. m + i \in 1 .. m + n /\ ~(m + i <= m) /\ (m + i) - m = i
      BY <1>0
    <2>2. u[m + i] = IF m + i <= m THEN s[m + i] ELSE t[(m + i) - m]
      BY <1>1, <2>1
    <2> QED BY <2>1, <2>2
  <1>5. \A j \in 1 .. m + n : \/ j \in 1 .. m
                              \/ \E i \in 1 .. n : j = m + i
    <2> SUFFICES ASSUME NEW j \in 1 .. m + n, j \notin 1 .. m PROVE \E i \in 1 .. n : j = m + i
      OBVIOUS
    <2>1. j - m \in 1 .. n /\ j = m + (j - m)
      BY <1>0
    <2> QED BY <2>1
  <1>6. ToSet(u) = ToSet(s) \union ToSet(t)
    <2>1. ASSUME NEW j \in 1 .. m + n
          PROVE  u[j] \in ToSet(s) \union ToSet(t)
      <3>1. CASE j \in 1 .. m
        BY <1>0, <1>3, <3>1
      <3>2. CASE \E i \in 1 .. n : j = m + i
        BY <1>0, <1>4, <3>2
      <3> QED BY <1>5, <3>1, <3>2
    <2>2. \A x \in ToSet(s) \union ToSet(t) : \E j \in 1 .. m + n : u[j] = x
      BY <1>0, <1>3, <1>4
    <2> QED BY <1>2, <2>1, <2>2
  <1>7. ASSUME Distinct(u, m + n)
        PROVE  Distinct(s, m) /\ Distinct(t, n) /\ ToSet(s) \intersect ToSet(t) = {}
    <2>1. Distinct(s, m)
      BY <1>3, <1>7 DEF Distinct
    <2>2. ASSUME NEW i \in 1 .. n, NEW j \in 1 .. n, t[i] = t[j]
          PROVE  i = j
      <3>1. m + i = m + j
        BY <1>4, <1>7, <2>2 DEF Distinct
      <3> QED BY <1>0, <3>1
    <2>3. ASSUME NEW i \in 1 .. m, NEW j \in 1 .. n, s[i] = t[j]
          PROVE  FALSE
      <3>1. i = m + j
        BY <1>3, <1>4, <1>7, <2>3 DEF Distinct
      <3> QED BY <1>0, <3>1
    <2>4. ToSet(s) \intersect ToSet(t) = {}
      BY <1>0, <2>3
    <2> QED BY <2>1, <2>2, <2>4 DEF Distinct
  <1>8. ASSUME Distinct(s, m), Distinct(t, n), ToSet(s) \intersect ToSet(t) = {}
        PROVE  Distinct(u, m + n)
    <2> SUFFICES ASSUME NEW i \in 1 .. m + n, NEW j \in 1 .. m + n, u[i] = u[j] PROVE i = j
      BY DEF Distinct
    <2>0. \A a \in 1 .. m, b \in 1 .. n : s[a] # t[b]
      BY <1>0, <1>8
    <2>1. CASE i \in 1 .. m /\ j \in 1 .. m
      BY <1>3, <1>8, <2>1 DEF Distinct
    <2>2. CASE i \notin 1 .. m /\ j \notin 1 .. m
      <3>1. PICK a \in 1 .. n : i = m + a
        BY <1>5, <2>2
      <3>2. PICK b \in 1 .. n : j = m + b
        BY <1>5, <2>2
      <3>3. t[a] = t[b]
        BY <1>4, <3>1, <3>2
      <3> QED BY <1>8, <3>1, <3>2, <3>3 DEF Distinct
    <2>3. CASE i \in 1 .. m /\ j \notin 1 .. m
      BY <1>3, <1>4, <1>5, <2>0, <2>3
    <2>4. CASE i \notin 1 .. m /\ j \in 1 .. m
      BY <1>3, <1>4, <1>5, <2>0, <2>4
    <2> QED BY <2>1, <2>2, <2>3, <2>4
  <1>9. IsInjective(u) <=> IsInjective(s) /\ IsInjective(t) /\ ToSet(s) \intersect ToSet(t) = {}
    BY <1>0, <1>2, <1>7, <1>8
  <1> QED BY <1>1, <1>3, <1>4, <1>5, <1>6, <1>9 DEF u, m, n


-----------------------------------------------------------------------------
(* The cuts. *)

\* A cut under construction.
Groups == [cut : Seq(Nodes), added : Nat]

\* A replacement gives a group of nodes ...
LEMMA ReplaceTyped ==
    ASSUME NEW g \in Groups, NEW removed, removed \subseteq Nodes,
           NEW inserted \in Seq(Nodes), NEW limit
    PROVE  Replace(g, removed, inserted, limit) \in Groups
  <1>1. Those(g.cut, Nodes \ removed) \o inserted \in Seq(Nodes)
    <2>1. Those(g.cut, Nodes \ removed) \in Seq(Nodes)
      BY ThoseIs DEF Groups
    <2> QED BY <2>1, Joined
  <1>2. g.added + Total[ToSet(inserted)] \in Nat
    <2>1. ToSet(inserted) \subseteq Nodes
      BY Listed
    <2> QED BY <2>1, TotalIs DEF Groups
  <1> QED BY <1>1, <1>2 DEF Replace, Groups

\* The group with the nodes replaced, if it fits.
Replaced(r, g, removed, inserted, limit) ==
    /\ IsInjective(r.cut) /\ Total[ToSet(r.cut)] <= limit
    /\ ToSet(r.cut) = (ToSet(g.cut) \ removed) \union ToSet(inserted)

\* ... which is the same group or has the nodes inserted, within the limit.
LEMMA ReplaceIs ==
    ASSUME NEW g \in Groups, IsInjective(g.cut), NEW removed, removed \subseteq ToSet(g.cut),
           NEW inserted \in Seq(Nodes), IsInjective(inserted),
           (ToSet(g.cut) \ removed) \intersect ToSet(inserted) = {}, NEW limit \in Nat
    PROVE  LET r == Replace(g, removed, inserted, limit)
           IN  r = g \/ Replaced(r, g, removed, inserted, limit)
  <1> DEFINE r == Replace(g, removed, inserted, limit)
             stay == Those(g.cut, Nodes \ removed)
             cost == Total[ToSet(inserted)]
             used == Total[ToSet(g.cut)] - Total[removed] + cost
  <1>1. g.cut \in Seq(Nodes) /\ ToSet(g.cut) \subseteq Nodes /\ ToSet(inserted) \subseteq Nodes
    BY Listed DEF Groups
  <1>2. /\ stay \in Seq(Nodes) /\ IsInjective(stay)
        /\ ToSet(stay) = ToSet(g.cut) \intersect (Nodes \ removed)
    BY <1>1, ThoseIs
  <1>3. ToSet(stay) = ToSet(g.cut) \ removed
    BY <1>1, <1>2
  <1>4. /\ ToSet(stay \o inserted) = (ToSet(g.cut) \ removed) \union ToSet(inserted)
        /\ IsInjective(stay \o inserted)
    <2> HIDE DEF stay
    <2>1. ToSet(stay) \intersect ToSet(inserted) = {}
      BY <1>3
    <2> QED BY <1>2, <1>3, <2>1, Joined
  <1>5. Total[ToSet(stay \o inserted)] = used
    <2>1. Total[ToSet(g.cut) \ removed] = Total[ToSet(g.cut)] - Total[removed]
      BY <1>1, TotalWithout
    <2>2. ToSet(g.cut) \ removed \subseteq Nodes
      BY <1>1
    <2>3. Total[(ToSet(g.cut) \ removed) \union ToSet(inserted)]
            = Total[ToSet(g.cut) \ removed] + Total[ToSet(inserted)]
      BY <1>1, <2>2, TotalAdd
    <2> QED BY <1>4, <2>1, <2>3
  <1>6. used \in Int
    <2>1. removed \subseteq Nodes
      BY <1>1
    <2> QED BY <1>1, <2>1, TotalIs
  <1>7. r = g \/ (used <= limit /\ r = [cut |-> stay \o inserted, added |-> g.added + cost])
    BY <1>6 DEF Replace
  <1> HIDE DEF r, stay, cost, used
  <1>8. ASSUME r # g PROVE Replaced(r, g, removed, inserted, limit)
    <2>1. r.cut = stay \o inserted
      BY <1>7, <1>8
    <2> QED BY <1>4, <1>5, <1>7, <1>8, <2>1 DEF Replaced
  <1>9. r = g \/ Replaced(r, g, removed, inserted, limit)
    BY <1>8
  <1> QED BY <1>9 DEF r

\* A cut that may be shown: seen is what it has to show.
Fits(g, limit, seen) ==
    /\ g \in Groups /\ IsInjective(g.cut) /\ Antichain(ToSet(g.cut))
    /\ Total[ToSet(g.cut)] <= limit /\ seen \subseteq Shown(ToSet(g.cut))

\* Merging gives a group.
LEMMA CoarsenTyped ==
    ASSUME NEW g \in Groups, NEW n \in Nodes, NEW limit
    PROVE  Coarsen(g, n, limit) \in Groups
  <1>1. {p \in ToSet(g.cut) : n \in Ancestors[p]} \subseteq Nodes /\ <<n>> \in Seq(Nodes)
    BY Listed DEF Groups
  <1> QED BY <1>1, ReplaceTyped DEF Coarsen

\* A leaf is shown by a set of nodes if one of them is on its way to the root.
LEMMA ShownIs ==
    ASSUME NEW S, NEW leaf
    PROVE  leaf \in Shown(S) <=> leaf \in Leaves /\ \E n \in Path(leaf) : n \in S
  BY DEF Shown, Path

\* Merging a branch to a tile of the target leaves a cut within the limit.
LEMMA CoarsenFits ==
    ASSUME NEW limit \in Nat, NEW seen, NEW g, Fits(g, limit, seen), NEW n \in Nodes
    PROVE  Fits(Coarsen(g, n, limit), limit, seen)
  <1> DEFINE below == {p \in ToSet(g.cut) : n \in Ancestors[p]}
             r == Replace(g, below, <<n>>, limit)
  <1> SUFFICES ASSUME Path(n) \intersect ToSet(g.cut) = {}, r # g
               PROVE  Fits(r, limit, seen)
    BY DEF Coarsen, Path
  <1>1. /\ g \in Groups /\ ToSet(g.cut) \subseteq Nodes /\ below \subseteq ToSet(g.cut)
        /\ below \subseteq Nodes
    BY Listed DEF Fits, Groups
  <1>2. <<n>> \in Seq(Nodes) /\ ToSet(<<n>>) = {n} /\ IsInjective(<<n>>)
    BY DEF ToSet, IsInjective
  <1>3. n \notin ToSet(g.cut) /\ \A p \in ToSet(g.cut) : p \notin Ancestors[n]
    BY DEF Path
  <1>4. Replaced(r, g, below, <<n>>, limit)
    <2> HIDE DEF below
    <2>1. IsInjective(g.cut) /\ (ToSet(g.cut) \ below) \intersect ToSet(<<n>>) = {}
      BY <1>2, <1>3 DEF Fits
    <2> QED BY <1>1, <1>2, <2>1, ReplaceIs
  <1>5. r \in Groups
    <2> HIDE DEF below
    <2> QED BY <1>1, <1>2, ReplaceTyped
  <1>6. ToSet(r.cut) = (ToSet(g.cut) \ below) \union {n}
    BY <1>2, <1>4 DEF Replaced
  <1>7. Antichain(ToSet(r.cut))
    <2>1. \A p \in ToSet(g.cut) \ below : n \notin Ancestors[p] /\ p \notin Ancestors[n]
      BY <1>3
    <2>2. \A p, q \in ToSet(g.cut) : p \notin Ancestors[q]
      BY DEF Fits, Antichain
    <2>3. n \notin Ancestors[n]
      BY NotAboveItself
    <2> QED BY <1>6, <2>1, <2>2, <2>3 DEF Antichain
  <1>8. ASSUME NEW leaf \in seen
        PROVE  leaf \in Shown(ToSet(r.cut))
    <2>1. PICK p \in Path(leaf) : leaf \in Leaves /\ p \in ToSet(g.cut)
      BY <1>8, ShownIs DEF Fits
    <2>2. CASE p \notin below
      BY <1>6, <2>1, <2>2, ShownIs
    <2>3. CASE p \in below
      <3>1. n \in Ancestors[leaf]
        <4>1. leaf \in Nodes
          BY <2>1 DEF Leaves
        <4> QED BY <2>1, <2>3, <4>1, AboveAbove DEF Path
      <3> QED BY <1>6, <2>1, <3>1, ShownIs DEF Path
    <2> QED BY <2>2, <2>3
  <1> QED BY <1>4, <1>5, <1>7, <1>8 DEF Fits, Replaced

\* Nothing is below a leaf.
LEMMA LeafIsLast ==
    ASSUME NEW t \in Nodes, NEW n \in Ancestors[t]
    PROVE  n \in Nodes /\ n \notin Leaves
  BY ChildOnTheWay, AboveAbove DEF Leaves

\* The nodes a branch is replaced by.
Children(n, target) == {c \in Nodes \ {Root} : Parent[c] = n /\ Relevant(c, target)}
Below(n, target) == {t \in Nodes : n \in Ancestors[t]}

\* Splitting gives a group.
LEMMA RefineTyped ==
    ASSUME NEW g \in Groups, NEW n \in Nodes, NEW target \in Seq(Nodes), NEW limit
    PROVE  Refine(g, n, target, limit) \in Groups
  <1>1. {n} \subseteq Nodes /\ Sorted[Children(n, target)] \in Seq(Nodes)
    BY SortedIs DEF Children
  <1>2. Those(target, Below(n, target)) \in Seq(Nodes)
    BY ThoseIs
  <1>3. Replace(g, {n}, Sorted[Children(n, target)], limit) \in Groups
    BY <1>1, ReplaceTyped
  <1>4. Replace(g, {n}, Those(target, Below(n, target)), limit) \in Groups
    BY <1>1, <1>2, ReplaceTyped
  <1> QED BY <1>3, <1>4 DEF Refine, Children, Below

\* Some of the nodes under n take its place: none beside another, and what n
\* and the target show they show.
LEMMA BranchFits ==
    ASSUME NEW limit \in Nat, NEW seen, NEW g, Fits(g, limit, seen), NEW n \in ToSet(g.cut),
           NEW inserted \in Seq(Nodes), IsInjective(inserted), Antichain(ToSet(inserted)),
           \A t \in ToSet(inserted) : n \in Ancestors[t],
           \A leaf \in seen : n \in Path(leaf) => \E t \in ToSet(inserted) : t \in Path(leaf)
    PROVE  LET r == Replace(g, {n}, inserted, limit)
           IN  r = g \/ (Fits(r, limit, seen) /\ ToSet(g.cut) \ {n} \subseteq ToSet(r.cut))
  <1> DEFINE r == Replace(g, {n}, inserted, limit)
  <1> SUFFICES ASSUME r # g
               PROVE  Fits(r, limit, seen) /\ ToSet(g.cut) \ {n} \subseteq ToSet(r.cut)
    OBVIOUS
  <1>1. /\ g \in Groups /\ IsInjective(g.cut) /\ ToSet(g.cut) \subseteq Nodes /\ {n} \subseteq Nodes
        /\ n \in Nodes /\ ToSet(inserted) \subseteq Nodes /\ {n} \subseteq ToSet(g.cut)
    BY Listed DEF Fits, Groups
  <1>2. \A p, q \in ToSet(g.cut) : p \notin Ancestors[q]
    BY DEF Fits, Antichain
  <1>3. ASSUME NEW p \in ToSet(g.cut) \ {n}, NEW t \in ToSet(inserted)
        PROVE  p # t /\ p \notin Ancestors[t] /\ t \notin Ancestors[p]
    <2>1. p \in Nodes /\ t \in Nodes /\ n \in Ancestors[t]
      BY <1>1
    <2>2. p # t
      BY <1>2, <2>1
    <2>3. t \notin Ancestors[p]
      BY <1>2, <2>1, AboveAbove
    <2>4. p \notin Ancestors[t]
      BY <1>2, <2>1, OneWayUp DEF Path
    <2> QED BY <2>2, <2>3, <2>4
  <1>4. Replaced(r, g, {n}, inserted, limit)
    <2>1. (ToSet(g.cut) \ {n}) \intersect ToSet(inserted) = {}
      BY <1>3
    <2> QED BY <1>1, <2>1, ReplaceIs
  <1>5. r \in Groups
    BY <1>1, ReplaceTyped
  <1> HIDE DEF r
  <1>6. ToSet(r.cut) = (ToSet(g.cut) \ {n}) \union ToSet(inserted)
    BY <1>4 DEF Replaced
  <1>7. Antichain(ToSet(r.cut))
    BY <1>2, <1>3, <1>6 DEF Antichain
  <1>8. ASSUME NEW leaf \in seen
        PROVE  leaf \in Shown(ToSet(r.cut))
    <2>1. PICK p \in Path(leaf) : leaf \in Leaves /\ p \in ToSet(g.cut)
      BY <1>8, ShownIs DEF Fits
    <2>2. CASE p # n
      BY <1>6, <2>1, <2>2, ShownIs
    <2>3. CASE p = n
      BY <1>6, <1>8, <2>1, <2>3, ShownIs
    <2> QED BY <2>2, <2>3
  <1> QED BY <1>4, <1>5, <1>6, <1>7, <1>8 DEF Fits, Replaced

\* Splitting a tile leaves a cut within the limit, with all other tiles.
LEMMA RefineFits ==
    ASSUME NEW limit \in Nat, NEW target \in Seq(Nodes),
           IsInjective(target), Antichain(ToSet(target)),
           NEW seen, seen \subseteq Shown(ToSet(target)),
           NEW g, Fits(g, limit, seen), NEW n \in ToSet(g.cut)
    PROVE  LET r == Refine(g, n, target, limit)
           IN  Fits(r, limit, seen) /\ ToSet(g.cut) \ {n} \subseteq ToSet(r.cut)
  <1> DEFINE r == Refine(g, n, target, limit)
             children == Sorted[Children(n, target)]
             below == Those(target, Below(n, target))
             R(inserted) == Replace(g, {n}, inserted, limit)
  <1>1. CASE n \notin AboveTarget(target)
    <2>1. r = g
      BY <1>1 DEF Refine
    <2> QED BY <2>1
  <1>2. CASE n \in AboveTarget(target)
    <2>0. n \in Nodes
      BY Listed DEF Fits, Groups
    <2>1. PICK above \in ToSet(target) : n \in Ancestors[above]
      BY <1>2 DEF AboveTarget
    <2>2. \A t \in ToSet(target) : t \in Nodes
      BY Listed
    <2>3. n \notin Leaves
      BY <2>1, <2>2, LeafIsLast
    <2>4. \A p, q \in ToSet(target) : p \notin Ancestors[q]
      BY DEF Antichain
    <2>5. n \notin ToSet(target) /\ \A t \in ToSet(target) : t \notin Ancestors[n]
      BY <2>1, <2>2, <2>4, AboveAbove
    <2>6. ASSUME NEW leaf \in seen, n \in Path(leaf)
          PROVE  /\ n \in Ancestors[leaf] /\ leaf \in Nodes
                 /\ \E t \in ToSet(target) : t \in Path(leaf) /\ n \in Ancestors[t]
      <3>1. PICK t \in Path(leaf) : leaf \in Leaves /\ t \in ToSet(target)
        BY <2>6, ShownIs
      <3>2. leaf \in Nodes /\ n # leaf
        BY <2>3, <3>1 DEF Leaves
      <3>3. n = t \/ n \in Ancestors[t] \/ t \in Ancestors[n]
        BY <2>6, <3>1, <3>2, OneWayUp
      <3> QED BY <2>5, <2>6, <3>1, <3>2, <3>3 DEF Path
    <2>7. \/ R(children) = g
          \/ Fits(R(children), limit, seen) /\ ToSet(g.cut) \ {n} \subseteq ToSet(R(children).cut)
      <3>1. /\ children \in Seq(Nodes) /\ IsInjective(children)
            /\ ToSet(children) = Children(n, target)
        BY SortedIs DEF Children
      <3>2. \A c \in Children(n, target) : c \in Nodes /\ Ancestors[c] = Path(n)
        BY ParentIsNext DEF Children
      <3>3. Antichain(Children(n, target))
        <4> SUFFICES ASSUME NEW c \in Children(n, target), NEW d \in Children(n, target),
                            d \in Ancestors[c]
                     PROVE  FALSE
          BY DEF Antichain
        <4>1. d \in Path(n) /\ n \in Ancestors[d] /\ n \in Nodes
          BY <2>0, <3>2 DEF Path
        <4> QED BY <4>1, AboveAbove, NotAboveItself DEF Path
      <3>4. ASSUME NEW leaf \in seen, n \in Path(leaf)
            PROVE  \E c \in Children(n, target) : c \in Path(leaf)
        <4>1. /\ n \in Ancestors[leaf] /\ leaf \in Nodes
              /\ \E t \in ToSet(target) : t \in Path(leaf) /\ n \in Ancestors[t]
          BY <2>6, <3>4
        <4>2. PICK t \in ToSet(target) : t \in Path(leaf) /\ n \in Ancestors[t]
          BY <4>1
        <4>3. PICK c \in Path(leaf) : c \in Nodes \ {Root} /\ Parent[c] = n
          BY <4>1, ChildOnTheWay
        <4>4. c = t \/ c \in Ancestors[t] \/ t \in Ancestors[c]
          BY <4>1, <4>2, OneWayUp
        <4>5. Relevant(c, target)
          BY <4>2, <4>4 DEF Relevant, AboveTarget
        <4> QED BY <4>3, <4>5 DEF Children
      <3>5. \A c \in ToSet(children) : n \in Ancestors[c]
        BY <3>1, <3>2 DEF Path
      <3>6. Antichain(ToSet(children))
        BY <3>1, <3>3
      <3>7. \A leaf \in seen : n \in Path(leaf) => \E t \in ToSet(children) : t \in Path(leaf)
        BY <3>1, <3>4
      <3> HIDE DEF children
      <3> QED BY <3>1, <3>5, <3>6, <3>7, BranchFits
    <2>8. \/ R(below) = g
          \/ Fits(R(below), limit, seen) /\ ToSet(g.cut) \ {n} \subseteq ToSet(R(below).cut)
      <3>1. /\ below \in Seq(Nodes) /\ IsInjective(below)
            /\ ToSet(below) = ToSet(target) \intersect Below(n, target)
        BY ThoseIs
      <3>2. \A t \in ToSet(below) : n \in Ancestors[t]
        BY <3>1 DEF Below
      <3>3. Antichain(ToSet(below))
        BY <2>4, <3>1 DEF Antichain
      <3>4. \A leaf \in seen : n \in Path(leaf) => \E t \in ToSet(below) : t \in Path(leaf)
        BY <2>2, <2>6, <3>1 DEF Below
      <3> HIDE DEF below
      <3> QED BY <3>1, <3>2, <3>3, <3>4, BranchFits
    <2>9. r = IF R(children) # g THEN R(children) ELSE R(below)
      BY <1>2 DEF Refine, Children, Below
    <2> HIDE DEF children, below, R, r
    <2>10. r = g \/ (Fits(r, limit, seen) /\ ToSet(g.cut) \ {n} \subseteq ToSet(r.cut))
      BY <2>7, <2>8, <2>9
    <2> QED BY <2>10 DEF r
  <1> QED BY <1>1, <1>2

\* A step of the merging and one of the splitting.
CoarsenAll(groups, n, limit) == {Coarsen(g, n, limit) : g \in groups}
RefineAll(groups, n, target, limit) == {Refine(g, n, target, limit) : g \in groups}

\* The merging goes through the target from its front ...
LEMMA MergedSteps ==
    ASSUME NEW start \in Groups, NEW target \in Seq(Nodes), NEW limit
    PROVE  \E p : /\ p[0] = {start} /\ Merged(start, target, limit) = p[Len(target)]
                  /\ \A i \in 1 .. Len(target) : p[i] = CoarsenAll(p[i - 1], target[i], limit)
  <1> DEFINE Is(f) == f = [T \in SUBSET (DOMAIN target) |->
                              IF T = {} THEN {start}
                              ELSE CoarsenAll(f[T \ {Max(T)}], target[Max(T)], limit)]
             h == [x \in (SUBSET Groups) \X Nodes |-> CoarsenAll(x[1], x[2], limit)]
             f == CHOOSE f : Is(f)
  <1>1. /\ Len(target) \in Nat /\ DOMAIN target = 1 .. Len(target)
        /\ \A i \in 1 .. Len(target) : target[i] \in Nodes
    BY Listed DEF Groups
  <1>2. h \in [(SUBSET Groups) \X Nodes -> SUBSET Groups] /\ {start} \in SUBSET Groups
    BY CoarsenTyped DEF CoarsenAll
  <1>3. PICK it \in [SUBSET (1 .. Len(target)) -> SUBSET Groups] :
            Iterates(it, target, Len(target), {start}, h)
    <2> HIDE DEF h
    <2> QED BY <1>1, <1>2, FoldExists
  <1>4. Is(it)
    <2>1. ASSUME NEW T \in SUBSET (1 .. Len(target)), T # {}
          PROVE  it[T] = CoarsenAll(it[T \ {Max(T)}], target[Max(T)], limit)
      <3>1. Max(T) \in 1 .. Len(target) /\ T \ {Max(T)} \in SUBSET (1 .. Len(target))
        BY <1>1, <2>1, MaxIs
      <3>2. it[T] = h[<<it[T \ {Max(T)}], target[Max(T)]>>]
        BY <1>3, <2>1 DEF Iterates
      <3> QED BY <1>1, <1>3, <3>1, <3>2
    <2>2. it[{}] = {start}
      BY <1>3 DEF Iterates
    <2> QED BY <1>1, <1>3, <2>1, <2>2
  <1> HIDE DEF Is, h
  <1>5. Is(f)
    BY <1>4
  <1>6. Merged(start, target, limit) = f[DOMAIN target]
    BY DEF Merged, Is, CoarsenAll, FoldLeft, MapThenFoldSet
  <1> HIDE DEF f
  <1> DEFINE p == [i \in 0 .. Len(target) |-> f[1 .. i]]
  <1>7. p[0] = {start}
    <2>1. 1 .. 0 = {} /\ f[{}] = {start}
      BY <1>5 DEF Is
    <2> QED BY <1>1, <2>1
  <1>8. ASSUME NEW i \in 1 .. Len(target)
        PROVE  p[i] = CoarsenAll(p[i - 1], target[i], limit)
    <2>0. i \in Nat /\ i # 0 /\ 1 .. i \in SUBSET (1 .. Len(target))
      BY <1>1
    <2>f. Max(1 .. i) = i /\ (1 .. i) \ {i} = 1 .. i - 1 /\ 1 .. i # {}
      BY <2>0, InFront
    <2>1. f[1 .. i] = CoarsenAll(f[1 .. i - 1], target[i], limit)
      BY <1>1, <1>5, <2>0, <2>f DEF Is
    <2> QED BY <1>1, <2>1
  <1>9. Merged(start, target, limit) = p[Len(target)]
    BY <1>1, <1>6
  <1> HIDE DEF p
  <1> QED BY <1>7, <1>8, <1>9

\* ... and its result fits.
LEMMA MergedFits ==
    ASSUME NEW limit \in Nat, NEW seen, NEW start, Fits(start, limit, seen),
           NEW target \in Seq(Nodes), NEW g \in Merged(start, target, limit)
    PROVE  Fits(g, limit, seen)
  <1>0. start \in Groups
    BY DEF Fits
  <1>1. PICK p : /\ p[0] = {start} /\ Merged(start, target, limit) = p[Len(target)]
                 /\ \A i \in 1 .. Len(target) : p[i] = CoarsenAll(p[i - 1], target[i], limit)
    BY <1>0, MergedSteps
  <1> DEFINE Good == {i \in 0 .. Len(target) : \A b \in p[i] : Fits(b, limit, seen)}
  <1>2. Len(target) \in Nat /\ \A i \in 1 .. Len(target) : target[i] \in Nodes
    BY Listed
  <1>3. 0 \in Good
    BY <1>1, <1>2
  <1>4. ASSUME NEW i \in 1 .. Len(target), i - 1 \in Good PROVE i \in Good
    BY <1>1, <1>2, <1>4, CoarsenFits DEF CoarsenAll
  <1> HIDE DEF Good
  <1>5. Len(target) \in Good
    <2>1. \A i \in 1 .. Len(target) : i - 1 \in Good => i \in Good
      BY <1>4
    <2>2. \A i \in 0 .. Len(target) : i \in Good
      BY <1>2, <1>3, <2>1, StepByStep
    <2> QED BY <1>2, <2>2
  <1> QED BY <1>1, <1>5 DEF Good

\* The splitting goes through the merged cut from its front ...
LEMMA SplitSteps ==
    ASSUME NEW start \in Groups, NEW target \in Seq(Nodes), NEW limit
    PROVE  \E p : /\ p[0] = {start} /\ Split(start, target, limit) = p[Len(start.cut)]
                  /\ \A i \in 1 .. Len(start.cut) : p[i] = RefineAll(p[i - 1], start.cut[i], target, limit)
  <1> DEFINE Is(f) == f = [T \in SUBSET (DOMAIN start.cut) |->
                              IF T = {} THEN {start}
                              ELSE RefineAll(f[T \ {Max(T)}], start.cut[Max(T)], target, limit)]
             h == [x \in (SUBSET Groups) \X Nodes |-> RefineAll(x[1], x[2], target, limit)]
             f == CHOOSE f : Is(f)
  <1>1. /\ Len(start.cut) \in Nat /\ DOMAIN start.cut = 1 .. Len(start.cut)
        /\ \A i \in 1 .. Len(start.cut) : start.cut[i] \in Nodes
    BY Listed DEF Groups
  <1>2. h \in [(SUBSET Groups) \X Nodes -> SUBSET Groups] /\ {start} \in SUBSET Groups
    BY RefineTyped DEF RefineAll
  <1>3. PICK it \in [SUBSET (1 .. Len(start.cut)) -> SUBSET Groups] :
            Iterates(it, start.cut, Len(start.cut), {start}, h)
    <2> HIDE DEF h
    <2> QED BY <1>1, <1>2, FoldExists
  <1>4. Is(it)
    <2>1. ASSUME NEW T \in SUBSET (1 .. Len(start.cut)), T # {}
          PROVE  it[T] = RefineAll(it[T \ {Max(T)}], start.cut[Max(T)], target, limit)
      <3>1. Max(T) \in 1 .. Len(start.cut) /\ T \ {Max(T)} \in SUBSET (1 .. Len(start.cut))
        BY <1>1, <2>1, MaxIs
      <3>2. it[T] = h[<<it[T \ {Max(T)}], start.cut[Max(T)]>>]
        BY <1>3, <2>1 DEF Iterates
      <3> QED BY <1>1, <1>3, <3>1, <3>2
    <2>2. it[{}] = {start}
      BY <1>3 DEF Iterates
    <2> QED BY <1>1, <1>3, <2>1, <2>2
  <1> HIDE DEF Is, h
  <1>5. Is(f)
    BY <1>4
  <1>6. Split(start, target, limit) = f[DOMAIN start.cut]
    BY DEF Split, Is, RefineAll, FoldLeft, MapThenFoldSet
  <1> HIDE DEF f
  <1> DEFINE p == [i \in 0 .. Len(start.cut) |-> f[1 .. i]]
  <1>7. p[0] = {start}
    <2>1. 1 .. 0 = {} /\ f[{}] = {start}
      BY <1>5 DEF Is
    <2> QED BY <1>1, <2>1
  <1>8. ASSUME NEW i \in 1 .. Len(start.cut)
        PROVE  p[i] = RefineAll(p[i - 1], start.cut[i], target, limit)
    <2>0. i \in Nat /\ i # 0 /\ 1 .. i \in SUBSET (1 .. Len(start.cut))
      BY <1>1
    <2>f. Max(1 .. i) = i /\ (1 .. i) \ {i} = 1 .. i - 1 /\ 1 .. i # {}
      BY <2>0, InFront
    <2>1. f[1 .. i] = RefineAll(f[1 .. i - 1], start.cut[i], target, limit)
      BY <1>1, <1>5, <2>0, <2>f DEF Is
    <2> QED BY <1>1, <2>1
  <1>9. Split(start, target, limit) = p[Len(start.cut)]
    BY <1>1, <1>6
  <1> HIDE DEF p
  <1> QED BY <1>7, <1>8, <1>9

\* ... and its result fits.
LEMMA SplitFits ==
    ASSUME NEW limit \in Nat, NEW target \in Seq(Nodes),
           IsInjective(target), Antichain(ToSet(target)),
           NEW seen, seen \subseteq Shown(ToSet(target)),
           NEW start, Fits(start, limit, seen), NEW g \in Split(start, target, limit)
    PROVE  Fits(g, limit, seen)
  <1> DEFINE s == start.cut
             ahead(i) == {s[j] : j \in i + 1 .. Len(s)}
  <1>0. start \in Groups /\ s \in Seq(Nodes) /\ IsInjective(s)
    BY DEF Fits, Groups
  <1>1. PICK p : /\ p[0] = {start} /\ Split(start, target, limit) = p[Len(s)]
                 /\ \A i \in 1 .. Len(s) : p[i] = RefineAll(p[i - 1], s[i], target, limit)
    BY <1>0, SplitSteps
  <1> DEFINE Good == {i \in 0 .. Len(s) :
                        \A b \in p[i] : Fits(b, limit, seen) /\ ahead(i) \subseteq ToSet(b.cut)}
  <1>2. /\ Len(s) \in Nat /\ ToSet(s) = {s[i] : i \in 1 .. Len(s)}
        /\ \A i, j \in 1 .. Len(s) : s[i] = s[j] => i = j
    BY <1>0, Listed
  <1>3. 0 \in Good
    <2>1. ahead(0) \subseteq ToSet(start.cut)
      BY <1>2
    <2> HIDE DEF ahead
    <2> QED BY <1>1, <1>2, <2>1
  <1>4. ASSUME NEW i \in 1 .. Len(s), i - 1 \in Good PROVE i \in Good
    <2>1. s[i] \in ahead(i - 1) /\ ahead(i) \subseteq ahead(i - 1) \ {s[i]} /\ i \in 0 .. Len(s)
      BY <1>2
    <2>2. \A b \in p[i - 1] : Fits(b, limit, seen) /\ ahead(i - 1) \subseteq ToSet(b.cut)
      BY <1>4
    <2> HIDE DEF ahead, s
    <2>3. ASSUME NEW b \in p[i - 1]
          PROVE  LET r == Refine(b, s[i], target, limit)
                 IN  Fits(r, limit, seen) /\ ahead(i) \subseteq ToSet(r.cut)
      <3>1. Fits(b, limit, seen) /\ s[i] \in ToSet(b.cut)
        BY <2>1, <2>2
      <3>2. LET r == Refine(b, s[i], target, limit)
            IN  Fits(r, limit, seen) /\ ToSet(b.cut) \ {s[i]} \subseteq ToSet(r.cut)
        BY <3>1, RefineFits
      <3> QED BY <2>1, <2>2, <3>2
    <2> QED BY <1>1, <2>1, <2>3 DEF RefineAll
  <1> HIDE DEF Good
  <1>5. Len(s) \in Good
    <2> HIDE DEF s
    <2>1. \A i \in 1 .. Len(s) : i - 1 \in Good => i \in Good
      BY <1>4
    <2>2. \A i \in 0 .. Len(s) : i \in Good
      BY <1>2, <1>3, <2>1, StepByStep
    <2> QED BY <1>2, <2>2
  <1> QED BY <1>1, <1>5 DEF Good

\* The next cut is one, fits, and shows what the present one and the target both show.
LEMMA NextCutFits ==
    ASSUME NEW current \in Seq(Nodes), IsInjective(current), Antichain(ToSet(current)),
           NEW target \in Seq(Nodes), IsInjective(target), Antichain(ToSet(target)),
           NEW limit \in Nat, Records[Root] <= limit,
           NEW cut \in NextLodCut(current, target, limit)
    PROVE  /\ cut \subseteq Nodes /\ Antichain(cut) /\ Total[cut] <= limit
           /\ Shown(ToSet(current)) \intersect Shown(ToSet(target)) \subseteq Shown(cut)
  <1> DEFINE S == {n \in Nodes : Relevant(n, target)}
             kept == [cut |-> Those(current, S), added |-> 0]
             seen == Shown(ToSet(current)) \intersect Shown(ToSet(target))
  <1>1. CASE current = <<>> \/ Total[ToSet(current)] > limit
    <2>1. cut = {Root} /\ Root \in Nodes
      BY <1>1, NodesAre DEF NextLodCut
    <2>2. Total[cut] <= limit
      BY <2>1, TotalOne
    <2>3. Antichain(cut)
      BY <2>1, NotAboveItself DEF Antichain
    <2>4. ASSUME NEW leaf \in Leaves PROVE leaf \in Shown(cut)
      BY <2>1, RootShowsAll, ShownIs DEF Leaves
    <2> QED BY <2>1, <2>2, <2>3, <2>4, ShownIs
  <1>2. CASE ~(current = <<>> \/ Total[ToSet(current)] > limit)
    <2>0. PICK m \in Merged(kept, target, limit) : \E g \in Split(m, target, limit) : cut = ToSet(g.cut)
      BY <1>2 DEF NextLodCut
    <2>1. PICK g \in Split(m, target, limit) : cut = ToSet(g.cut)
      BY <2>0
    <2>2. /\ Those(current, S) \in Seq(Nodes) /\ IsInjective(Those(current, S))
          /\ ToSet(Those(current, S)) = ToSet(current) \intersect S
      BY ThoseIs
    <2>3. \A t \in ToSet(target) : t \in Nodes
      BY Listed
    <2>4. ToSet(current) \subseteq Nodes
      BY Listed
    <2>5. ASSUME NEW leaf \in seen PROVE leaf \in Shown(ToSet(current) \intersect S)
      <3>1. PICK a \in Path(leaf) : leaf \in Leaves /\ a \in ToSet(current)
        BY ShownIs
      <3>2. PICK b \in Path(leaf) : b \in ToSet(target)
        BY ShownIs
      <3>3. a = b \/ a \in Ancestors[b] \/ b \in Ancestors[a]
        BY <3>1, <3>2, OneWayUp DEF Leaves
      <3>4. a \in S
        BY <2>4, <3>1, <3>2, <3>3 DEF Relevant, AboveTarget
      <3> QED BY <3>1, <3>4, ShownIs
    <2>6. Total[ToSet(current)] <= limit /\ Total[ToSet(current) \intersect S] <= Total[ToSet(current)]
      <3>1. ToSet(current) \intersect S \subseteq ToSet(current)
        OBVIOUS
      <3>2. Total[ToSet(current)] \in Nat
        BY <2>4, TotalIs
      <3> QED BY <1>2, <2>4, <3>1, <3>2, TotalLess
    <2>7. Total[ToSet(current) \intersect S] \in Nat /\ Total[ToSet(current)] \in Nat
      <3>1. ToSet(current) \intersect S \subseteq Nodes
        BY <2>4
      <3> QED BY <2>4, <3>1, TotalIs
    <2>8. Antichain(ToSet(current) \intersect S)
      BY DEF Antichain
    <2>9. Fits(kept, limit, seen)
      <3>1. kept.cut = Those(current, S) /\ kept \in Groups
        BY <2>2 DEF Groups
      <3> HIDE DEF kept, S
      <3>2. Total[ToSet(kept.cut)] <= limit
        <4>1. ToSet(kept.cut) = ToSet(current) \intersect S
          BY <2>2, <3>1
        <4>2. Total[ToSet(current) \intersect S] <= limit
          BY <2>6, <2>7
        <4> QED BY <4>1, <4>2
      <3>3. seen \subseteq Shown(ToSet(kept.cut))
        BY <2>2, <2>5, <3>1
      <3> QED BY <2>2, <2>8, <3>1, <3>2, <3>3 DEF Fits
    <2> HIDE DEF kept
    <2>10. Fits(m, limit, seen)
      BY <2>1, <2>9, MergedFits
    <2>11. Fits(g, limit, seen)
      <3>1. seen \subseteq Shown(ToSet(target))
        OBVIOUS
      <3> HIDE DEF seen
      <3> QED BY <2>1, <2>10, <3>1, SplitFits
    <2>12. g.cut \in Seq(Nodes)
      BY <2>11 DEF Fits, Groups
    <2> QED BY <2>1, <2>11, <2>12, Listed DEF Fits
  <1> QED BY <1>1, <1>2

-----------------------------------------------------------------------------
(* The arena. *)

\* A node and the positions of its records.
Slots == [id : Nodes, at : Seq(Positions)]

\* Every node has one slot, as many positions as it has records, and shares none.
Placed(slots) ==
    /\ slots \in Seq(Slots) /\ IsInjective(Ids(slots))
    /\ \A x \in 1 .. Len(slots) :
          Len(slots[x].at) = Records[slots[x].id] /\ IsInjective(slots[x].at)
    /\ \A x, y \in 1 .. Len(slots) :
          x # y => ToSet(slots[x].at) \intersect ToSet(slots[y].at) = {}

\* The nodes of a sequence of slots.
LEMMA IdsAre ==
    ASSUME NEW slots \in Seq(Slots)
    PROVE  /\ Len(slots) \in Nat /\ DOMAIN slots = 1 .. Len(slots)
           /\ Ids(slots) \in Seq(Nodes) /\ Len(Ids(slots)) = Len(slots)
           /\ \A x \in 1 .. Len(slots) : /\ slots[x].id \in Nodes /\ slots[x].at \in Seq(Positions)
                                         /\ Ids(slots)[x] = slots[x].id
           /\ ToSet(Ids(slots)) = {slots[x].id : x \in 1 .. Len(slots)}
           /\ ToSet(slots) = {slots[x] : x \in 1 .. Len(slots)}
           /\ ToSet(Ids(slots)) \subseteq Nodes
           /\ IsInjective(Ids(slots)) <=>
                 \A x, y \in 1 .. Len(slots) : slots[x].id = slots[y].id => x = y
  <1>1. /\ Len(slots) \in Nat /\ DOMAIN slots = 1 .. Len(slots)
        /\ \A x \in 1 .. Len(slots) : slots[x] \in Slots
        /\ ToSet(slots) = {slots[x] : x \in 1 .. Len(slots)}
    BY Listed
  <1>2. \A x \in 1 .. Len(slots) : /\ slots[x].id \in Nodes /\ slots[x].at \in Seq(Positions)
                                   /\ Ids(slots)[x] = slots[x].id
    BY <1>1 DEF Slots, Ids
  <1>3. Ids(slots) \in [1 .. Len(slots) -> Nodes]
    BY <1>1, <1>2 DEF Ids
  <1>4. Ids(slots) \in Seq(Nodes) /\ Len(Ids(slots)) = Len(slots)
    BY <1>1, <1>3
  <1>5. /\ ToSet(Ids(slots)) = {Ids(slots)[x] : x \in 1 .. Len(slots)}
        /\ ToSet(Ids(slots)) \subseteq Nodes
        /\ IsInjective(Ids(slots)) <=>
              \A x, y \in 1 .. Len(slots) : Ids(slots)[x] = Ids(slots)[y] => x = y
    BY <1>4, Listed
  <1> QED BY <1>1, <1>2, <1>4, <1>5

\* A node is held by its slot.
LEMMA HeldIs ==
    ASSUME NEW slots, Placed(slots)
    PROVE  /\ \A x \in 1 .. Len(slots) : Held(slots, slots[x].id) = slots[x]
           /\ \A n \in ToSet(Ids(slots)) :
                 \E x \in 1 .. Len(slots) : Held(slots, n) = slots[x] /\ slots[x].id = n
  <1>1. /\ ToSet(slots) = {slots[x] : x \in 1 .. Len(slots)}
        /\ ToSet(Ids(slots)) = {slots[x].id : x \in 1 .. Len(slots)}
        /\ \A x, y \in 1 .. Len(slots) : slots[x].id = slots[y].id => x = y
    BY IdsAre DEF Placed
  <1>2. ASSUME NEW x \in 1 .. Len(slots) PROVE Held(slots, slots[x].id) = slots[x]
    BY <1>1 DEF Held
  <1> QED BY <1>1, <1>2

\* As many positions are occupied as the nodes have records, at most.
LEMMA OccupiedFits ==
    ASSUME NEW slots, Placed(slots)
    PROVE  /\ Occupied(slots) \subseteq Positions /\ IsFiniteSet(Occupied(slots))
           /\ Cardinality(Occupied(slots)) <= Total[ToSet(Ids(slots))]
  <1> DEFINE ids == ToSet(Ids(slots))
             at == [r \in RecordsOf(ids) |-> Held(slots, r[1]).at[r[2]]]
  <1>1. /\ DOMAIN slots = 1 .. Len(slots) /\ ids = {slots[x].id : x \in 1 .. Len(slots)}
        /\ \A x \in 1 .. Len(slots) : slots[x].at \in Seq(Positions) /\ slots[x].id \in Nodes
        /\ ids \subseteq Nodes
    BY IdsAre DEF Placed
  <1>2. \A x \in 1 .. Len(slots) :
            /\ ToSet(slots[x].at) = {slots[x].at[j] : j \in 1 .. Records[slots[x].id]}
            /\ ToSet(slots[x].at) \subseteq Positions
    BY <1>1, Listed DEF Placed
  <1>3. Occupied(slots) \subseteq Positions
    BY <1>1, <1>2 DEF Occupied
  <1>4. ASSUME NEW r \in RecordsOf(ids)
        PROVE  at[r] \in Occupied(slots)
    <2>1. PICK n \in ids : r \in {n} \X (1 .. Records[n])
      BY DEF RecordsOf
    <2>2. PICK x \in 1 .. Len(slots) : Held(slots, n) = slots[x] /\ slots[x].id = n
      BY <2>1, HeldIs
    <2>3. at[r] = slots[x].at[r[2]] /\ r[2] \in 1 .. Records[slots[x].id]
      BY <2>1, <2>2
    <2> QED BY <1>1, <1>2, <2>3 DEF Occupied
  <1>5. ASSUME NEW p \in Occupied(slots)
        PROVE  \E r \in RecordsOf(ids) : at[r] = p
    <2>1. PICK x \in 1 .. Len(slots) : p \in ToSet(slots[x].at)
      BY <1>1 DEF Occupied
    <2>2. PICK j \in 1 .. Records[slots[x].id] : p = slots[x].at[j]
      BY <1>2, <2>1
    <2>3. <<slots[x].id, j>> \in RecordsOf(ids) /\ slots[x].id \in ids
      BY <1>1, <2>2 DEF RecordsOf
    <2>4. at[<<slots[x].id, j>>] = slots[x].at[j]
      BY <2>3, HeldIs
    <2> QED BY <2>2, <2>3, <2>4
  <1>6. at \in Surjection(RecordsOf(ids), Occupied(slots))
    BY <1>4, <1>5 DEF Surjection
  <1>7. IsFiniteSet(RecordsOf(ids)) /\ Total[ids] = Cardinality(RecordsOf(ids))
    <2> HIDE DEF ids
    <2> QED BY <1>1, TotalIs
  <1> HIDE DEF at, ids
  <1>8. IsFiniteSet(Occupied(slots)) /\ Cardinality(Occupied(slots)) <= Cardinality(RecordsOf(ids))
    BY <1>6, <1>7, FS_Surjection
  <1> QED BY <1>3, <1>7, <1>8 DEF ids

\* The free positions suffice for what the budget leaves.
LEMMA FreeIs ==
    ASSUME NEW slots, Placed(slots)
    PROVE  /\ Free(slots) \in Seq(Positions) /\ IsInjective(Free(slots))
           /\ ToSet(Free(slots)) \intersect Occupied(slots) = {}
           /\ Budget - Total[ToSet(Ids(slots))] <= Len(Free(slots))
           /\ slots = <<>> => \A p \in 1 .. Len(Free(slots)) : Free(slots)[p] = p
  <1>1. /\ Occupied(slots) \subseteq Positions /\ IsFiniteSet(Occupied(slots))
        /\ Cardinality(Occupied(slots)) <= Total[ToSet(Ids(slots))]
    BY OccupiedFits
  <1> DEFINE S == Positions \ Occupied(slots)
  <1>2. /\ Ascending[S] \in Seq(Positions) /\ IsInjective(Ascending[S])
        /\ ToSet(Ascending[S]) = S /\ Len(Ascending[S]) = Cardinality(S)
        /\ S = Positions => \A p \in 1 .. Len(Ascending[S]) : Ascending[S][p] = p
    BY AscendingIs
  <1>3. Free(slots) = Ascending[S]
    BY DEF Free
  <1>4. Budget \in Nat /\ IsFiniteSet(Positions) /\ Cardinality(Positions) = Budget
    <2>1. Budget \in Nat /\ 0 \in Int /\ 1 \in Int /\ Budget \in Int
      BY LodViewerAssumption
    <2>2. /\ IsFiniteSet(1 .. Budget)
          /\ Cardinality(1 .. Budget) = IF 1 > Budget THEN 0 ELSE Budget - 1 + 1
      BY <2>1, FS_Interval
    <2> QED BY <2>1, <2>2 DEF Positions
  <1>5. Cardinality(S) = Budget - Cardinality(Occupied(slots))
    <2>1. Cardinality(S) = Cardinality(Positions) - Cardinality(Positions \intersect Occupied(slots))
      BY <1>4, FS_Difference
    <2>2. Positions \intersect Occupied(slots) = Occupied(slots)
      BY <1>1
    <2> QED BY <1>4, <2>1, <2>2
  <1>6. Cardinality(Occupied(slots)) \in Nat /\ Total[ToSet(Ids(slots))] \in Nat
    BY <1>1, FS_CardinalityType, IdsAre, TotalIs DEF Placed
  <1>7. slots = <<>> => Occupied(slots) = {}
    BY DEF Occupied
  <1>8. slots = <<>> => S = Positions
    BY <1>7
  <1> HIDE DEF S
  <1>9. ToSet(Ascending[S]) \intersect Occupied(slots) = {}
    BY <1>2 DEF S
  <1> QED BY <1>1, <1>2, <1>3, <1>4, <1>5, <1>6, <1>8, <1>9

\* Slots of different nodes and positions can be put together.
LEMMA PlacedTogether ==
    ASSUME NEW a, Placed(a), NEW b, Placed(b),
           ToSet(Ids(a)) \intersect ToSet(Ids(b)) = {}, Occupied(a) \intersect Occupied(b) = {}
    PROVE  /\ Placed(a \o b) /\ ToSet(Ids(a \o b)) = ToSet(Ids(a)) \union ToSet(Ids(b))
           /\ \A x \in 1 .. Len(a \o b) :
                 \/ \E i \in 1 .. Len(a) : (a \o b)[x] = a[i]
                 \/ \E i \in 1 .. Len(b) : (a \o b)[x] = b[i]
  <1> DEFINE c == a \o b
             m == Len(a)
  <1>1. /\ c \in Seq(Slots)
        /\ \A i \in 1 .. m : i \in 1 .. Len(c) /\ c[i] = a[i]
        /\ \A i \in 1 .. Len(b) : m + i \in 1 .. Len(c) /\ c[m + i] = b[i]
        /\ \A j \in 1 .. Len(c) : j \in 1 .. m \/ \E i \in 1 .. Len(b) : j = m + i
    BY Joined DEF Placed
  <1>2. /\ a \in Seq(Slots) /\ m \in Nat /\ DOMAIN a = 1 .. m
        /\ ToSet(Ids(a)) = {a[x].id : x \in 1 .. m}
        /\ \A x, y \in 1 .. m : a[x].id = a[y].id => x = y
    BY IdsAre DEF Placed
  <1>3. /\ b \in Seq(Slots) /\ Len(b) \in Nat /\ DOMAIN b = 1 .. Len(b)
        /\ ToSet(Ids(b)) = {b[x].id : x \in 1 .. Len(b)}
        /\ \A x, y \in 1 .. Len(b) : b[x].id = b[y].id => x = y
    BY IdsAre DEF Placed
  <1> HIDE DEF c, m
  <1>4. /\ ToSet(Ids(c)) = {c[x].id : x \in 1 .. Len(c)}
        /\ IsInjective(Ids(c)) <=> \A x, y \in 1 .. Len(c) : c[x].id = c[y].id => x = y
    BY <1>1, IdsAre
  <1>5. ToSet(Ids(c)) = ToSet(Ids(a)) \union ToSet(Ids(b))
    <2>1. \A x \in 1 .. Len(c) : c[x].id \in ToSet(Ids(a)) \union ToSet(Ids(b))
      BY <1>1, <1>2, <1>3
    <2>2. \A n \in ToSet(Ids(a)) \union ToSet(Ids(b)) : \E x \in 1 .. Len(c) : c[x].id = n
      <3>1. \A x \in 1 .. m : \E z \in 1 .. Len(c) : c[z].id = a[x].id
        BY <1>1
      <3>2. \A y \in 1 .. Len(b) : \E z \in 1 .. Len(c) : c[z].id = b[y].id
        BY <1>1
      <3>3. \A n \in ToSet(Ids(a)) : \E x \in 1 .. m : n = a[x].id
        BY <1>2
      <3>4. \A n \in ToSet(Ids(b)) : \E y \in 1 .. Len(b) : n = b[y].id
        BY <1>3
      <3> QED BY <3>1, <3>2, <3>3, <3>4
    <2> QED BY <1>4, <2>1, <2>2
  <1>6. \A x \in 1 .. m, y \in 1 .. Len(b) :
            a[x].id # b[y].id /\ ToSet(a[x].at) \intersect ToSet(b[y].at) = {}
    <2> SUFFICES ASSUME NEW x \in 1 .. m, NEW y \in 1 .. Len(b)
                 PROVE  a[x].id # b[y].id /\ ToSet(a[x].at) \intersect ToSet(b[y].at) = {}
      OBVIOUS
    <2>1. ToSet(a[x].at) \subseteq Occupied(a)
      BY <1>2 DEF Occupied
    <2>2. ToSet(b[y].at) \subseteq Occupied(b)
      BY <1>3 DEF Occupied
    <2>3. a[x].id \in ToSet(Ids(a)) /\ b[y].id \in ToSet(Ids(b))
      BY <1>2, <1>3
    <2> QED BY <2>1, <2>2, <2>3
  <1>7. ASSUME NEW x \in 1 .. Len(c), NEW y \in 1 .. Len(c), x # y
        PROVE  c[x].id # c[y].id /\ ToSet(c[x].at) \intersect ToSet(c[y].at) = {}
    <2>1. CASE x \in 1 .. m /\ y \in 1 .. m
      <3>1. c[x] = a[x] /\ c[y] = a[y]
        BY <1>1, <2>1
      <3>2. a[x].id # a[y].id
        BY <1>2, <1>7, <2>1
      <3>3. ToSet(a[x].at) \intersect ToSet(a[y].at) = {}
        BY <1>7, <2>1 DEF Placed, m
      <3> QED BY <3>1, <3>2, <3>3
    <2>2. CASE x \in 1 .. m /\ y \notin 1 .. m
      <3>1. PICK j \in 1 .. Len(b) : y = m + j
        BY <1>1, <2>2
      <3>2. c[x] = a[x] /\ c[y] = b[j]
        BY <1>1, <2>2, <3>1
      <3>3. a[x].id # b[j].id /\ ToSet(a[x].at) \intersect ToSet(b[j].at) = {}
        BY <1>6, <2>2
      <3> QED BY <3>2, <3>3
    <2>3. CASE x \notin 1 .. m /\ y \in 1 .. m
      <3>1. PICK i \in 1 .. Len(b) : x = m + i
        BY <1>1, <2>3
      <3>2. c[y] = a[y] /\ c[x] = b[i]
        BY <1>1, <2>3, <3>1
      <3>3. a[y].id # b[i].id /\ ToSet(a[y].at) \intersect ToSet(b[i].at) = {}
        BY <1>6, <2>3
      <3> QED BY <3>2, <3>3
    <2>4. CASE x \notin 1 .. m /\ y \notin 1 .. m
      <3>1. PICK i \in 1 .. Len(b) : x = m + i
        BY <1>1, <2>4
      <3>2. PICK j \in 1 .. Len(b) : y = m + j
        BY <1>1, <2>4
      <3>3. i # j /\ c[x] = b[i] /\ c[y] = b[j]
        BY <1>1, <1>7, <3>1, <3>2
      <3>4. b[i].id # b[j].id
        BY <1>3, <3>3
      <3>5. ToSet(b[i].at) \intersect ToSet(b[j].at) = {}
        BY <3>3 DEF Placed
      <3> QED BY <3>3, <3>4, <3>5
    <2> QED BY <2>1, <2>2, <2>3, <2>4
  <1>8. \A x \in 1 .. Len(c) : Len(c[x].at) = Records[c[x].id] /\ IsInjective(c[x].at)
    <2>1. \A i \in 1 .. m : Len(a[i].at) = Records[a[i].id] /\ IsInjective(a[i].at)
      BY DEF Placed, m
    <2>2. \A i \in 1 .. Len(b) : Len(b[i].at) = Records[b[i].id] /\ IsInjective(b[i].at)
      BY DEF Placed
    <2> SUFFICES ASSUME NEW x \in 1 .. Len(c)
                 PROVE  Len(c[x].at) = Records[c[x].id] /\ IsInjective(c[x].at)
      OBVIOUS
    <2>3. (\E i \in 1 .. m : c[x] = a[i]) \/ \E i \in 1 .. Len(b) : c[x] = b[i]
      BY <1>1
    <2> QED BY <2>1, <2>2, <2>3
  <1>9. Placed(c)
    <2>1. \A x, y \in 1 .. Len(c) : c[x].id = c[y].id => x = y
      BY <1>7
    <2> QED BY <1>1, <1>4, <1>7, <1>8, <2>1 DEF Placed
  <1>10. \A x \in 1 .. Len(c) :
                 \/ \E i \in 1 .. m : c[x] = a[i]
                 \/ \E i \in 1 .. Len(b) : c[x] = b[i]
    BY <1>1
  <1> QED BY <1>5, <1>9, <1>10 DEF c, m

\* Nodes that stay where they are.
LEMMA KeptPlaced ==
    ASSUME NEW slots, Placed(slots), NEW retained \in Seq(Nodes), IsInjective(retained),
           ToSet(retained) \subseteq ToSet(Ids(slots))
    PROVE  LET kept == [i \in DOMAIN retained |-> Held(slots, retained[i])]
           IN  /\ Placed(kept) /\ Len(kept) = Len(retained)
               /\ ToSet(Ids(kept)) = ToSet(retained)
               /\ \A i \in 1 .. Len(kept) : kept[i] \in ToSet(slots)
  <1> DEFINE kept == [i \in DOMAIN retained |-> Held(slots, retained[i])]
  <1>1. /\ Len(retained) \in Nat /\ DOMAIN retained = 1 .. Len(retained)
        /\ ToSet(retained) = {retained[i] : i \in 1 .. Len(retained)}
        /\ \A i, j \in 1 .. Len(retained) : retained[i] = retained[j] => i = j
    BY Listed
  <1>2. /\ slots \in Seq(Slots) /\ ToSet(slots) = {slots[x] : x \in 1 .. Len(slots)}
        /\ \A x \in 1 .. Len(slots) : slots[x] \in Slots
    BY Listed DEF Placed
  <1>3. ASSUME NEW i \in 1 .. Len(retained)
        PROVE  \E x \in 1 .. Len(slots) : kept[i] = slots[x] /\ slots[x].id = retained[i]
    <2>1. retained[i] \in ToSet(retained) /\ i \in DOMAIN retained
      BY <1>1
    <2>2. kept[i] = Held(slots, retained[i])
      BY <2>1
    <2>3. \E x \in 1 .. Len(slots) : Held(slots, retained[i]) = slots[x] /\ slots[x].id = retained[i]
      BY <2>1, HeldIs
    <2> QED BY <2>2, <2>3
  <1>4. kept \in [1 .. Len(retained) -> Slots]
    BY <1>1, <1>2, <1>3
  <1>5. kept \in Seq(Slots) /\ Len(kept) = Len(retained)
    BY <1>1, <1>4
  <1> HIDE DEF kept
  <1>6. \A i \in 1 .. Len(kept) : kept[i].id = retained[i]
    BY <1>3, <1>5
  <1>7. /\ ToSet(Ids(kept)) = {kept[x].id : x \in 1 .. Len(kept)}
        /\ IsInjective(Ids(kept)) <=>
              \A x, y \in 1 .. Len(kept) : kept[x].id = kept[y].id => x = y
    BY <1>5, IdsAre
  <1>8. ToSet(Ids(kept)) = ToSet(retained) /\ IsInjective(Ids(kept))
    BY <1>1, <1>5, <1>6, <1>7
  <1>9. \A x \in 1 .. Len(kept) : Len(kept[x].at) = Records[kept[x].id] /\ IsInjective(kept[x].at)
    BY <1>3, <1>5 DEF Placed
  <1>10. ASSUME NEW x \in 1 .. Len(kept), NEW y \in 1 .. Len(kept), x # y
         PROVE  ToSet(kept[x].at) \intersect ToSet(kept[y].at) = {}
    <2>1. PICK i \in 1 .. Len(slots) : kept[x] = slots[i] /\ slots[i].id = retained[x]
      BY <1>3, <1>5
    <2>2. PICK j \in 1 .. Len(slots) : kept[y] = slots[j] /\ slots[j].id = retained[y]
      BY <1>3, <1>5
    <2>3. i # j
      BY <1>1, <1>5, <1>10, <2>1, <2>2
    <2> QED BY <2>1, <2>2, <2>3 DEF Placed
  <1>11. Placed(kept)
    BY <1>5, <1>8, <1>9, <1>10 DEF Placed
  <1>12. \A i \in 1 .. Len(kept) : kept[i] \in ToSet(slots)
    BY <1>2, <1>3, <1>5
  <1> QED BY <1>5, <1>8, <1>11, <1>12 DEF kept

\* Nodes that take the first of some positions, one behind the other.
LEMMA FreshPlaced ==
    ASSUME NEW free \in Seq(Positions), IsInjective(free),
           NEW added \in Seq(Nodes), IsInjective(added), Total[ToSet(added)] <= Len(free)
    PROVE  LET At(i) == SubSeq(free, Offset(added, i) + 1, Offset(added, i) + Records[added[i]])
               fresh == [i \in DOMAIN added |-> [id |-> added[i], at |-> At(i)]]
           IN  /\ Placed(fresh) /\ Len(fresh) = Len(added)
               /\ ToSet(Ids(fresh)) = ToSet(added) /\ Occupied(fresh) \subseteq ToSet(free)
               /\ \A i \in 1 .. Len(added) :
                     /\ fresh[i].id = added[i]
                     /\ \A j \in 1 .. Records[added[i]] :
                           /\ Offset(added, i) + j \in 1 .. Len(free)
                           /\ fresh[i].at[j] = free[Offset(added, i) + j]
  <1> DEFINE At(i) == SubSeq(free, Offset(added, i) + 1, Offset(added, i) + Records[added[i]])
             fresh == [i \in DOMAIN added |-> [id |-> added[i], at |-> At(i)]]
  <1>1. /\ Len(added) \in Nat /\ DOMAIN added = 1 .. Len(added)
        /\ ToSet(added) = {added[i] : i \in 1 .. Len(added)}
        /\ \A i \in 1 .. Len(added) : added[i] \in Nodes
        /\ \A i, j \in 1 .. Len(added) : added[i] = added[j] => i = j
        /\ ToSet(added) \subseteq Nodes
    BY Listed
  <1>2. /\ Len(free) \in Nat /\ ToSet(free) = {free[p] : p \in 1 .. Len(free)}
        /\ \A p \in 1 .. Len(free) : free[p] \in Positions /\ free[p] \in ToSet(free)
        /\ \A p, q \in 1 .. Len(free) : free[p] = free[q] => p = q
    BY Listed
  <1>3. ASSUME NEW i \in 1 .. Len(added)
        PROVE  /\ At(i) \in Seq(Positions) /\ Len(At(i)) = Records[added[i]]
               /\ \A j \in 1 .. Records[added[i]] :
                     /\ Offset(added, i) + j \in 1 .. Len(free)
                     /\ At(i)[j] = free[Offset(added, i) + j]
    <2> DEFINE o == Offset(added, i)
               r == Records[added[i]]
    <2>1. o \in Nat /\ r \in Nat /\ r >= 1 /\ o + r <= Total[ToSet(added)]
      BY <1>1, OffsetIs, NodesAre
    <2>2. Total[ToSet(added)] \in Nat
      BY <1>1, TotalIs
    <2> HIDE DEF o, r
    <2>3. o + r <= Len(free)
      BY <1>2, <2>1, <2>2
    <2>4. \A k \in o + 1 .. o + r : free[k] \in Positions
      BY <1>2, <2>1, <2>3
    <2>5. o + 1 \in Int /\ o + r \in Int /\ o + 1 <= o + r /\ (o + r) - (o + 1) + 1 = r
      BY <2>1
    <2>6. /\ SubSeq(free, o + 1, o + r) \in Seq(Positions)
          /\ Len(SubSeq(free, o + 1, o + r)) = r
          /\ \A j \in 1 .. r : SubSeq(free, o + 1, o + r)[j] = free[(o + 1) + j - 1]
      BY <2>4, <2>5, SubSeqProperties
    <2>7. \A j \in 1 .. r : o + j \in 1 .. Len(free) /\ (o + 1) + j - 1 = o + j
      BY <1>2, <2>1, <2>3
    <2>8. \A j \in 1 .. r : SubSeq(free, o + 1, o + r)[j] = free[o + j]
      BY <2>6, <2>7
    <2> QED BY <2>6, <2>7, <2>8 DEF o, r
  <1> HIDE DEF At
  <1>4. fresh \in [1 .. Len(added) -> Slots]
    BY <1>1, <1>3 DEF Slots
  <1>5. fresh \in Seq(Slots) /\ Len(fresh) = Len(added)
    BY <1>1, <1>4
  <1>6. \A i \in 1 .. Len(added) : fresh[i].id = added[i] /\ fresh[i].at = At(i)
    BY <1>1
  <1> HIDE DEF fresh
  <1>7. /\ ToSet(Ids(fresh)) = {fresh[x].id : x \in 1 .. Len(fresh)}
        /\ IsInjective(Ids(fresh)) <=>
              \A x, y \in 1 .. Len(fresh) : fresh[x].id = fresh[y].id => x = y
        /\ DOMAIN fresh = 1 .. Len(fresh)
    BY <1>5, IdsAre
  <1>8. ToSet(Ids(fresh)) = ToSet(added) /\ IsInjective(Ids(fresh))
    BY <1>1, <1>5, <1>6, <1>7
  <1>9. ASSUME NEW i \in 1 .. Len(added)
        PROVE  /\ Len(fresh[i].at) = Records[fresh[i].id] /\ IsInjective(fresh[i].at)
               /\ ToSet(fresh[i].at) \subseteq ToSet(free)
               /\ ToSet(fresh[i].at) = {free[Offset(added, i) + j] : j \in 1 .. Records[added[i]]}
    <2>1. /\ ToSet(At(i)) = {At(i)[j] : j \in 1 .. Len(At(i))}
          /\ IsInjective(At(i)) <=> \A j, k \in 1 .. Len(At(i)) : At(i)[j] = At(i)[k] => j = k
      BY <1>3, Listed
    <2>2. Offset(added, i) \in Nat /\ Records[added[i]] \in Nat
      BY OffsetIs
    <2>3. \A j, k \in 1 .. Records[added[i]] : At(i)[j] = At(i)[k] => j = k
      <3> SUFFICES ASSUME NEW j \in 1 .. Records[added[i]], NEW k \in 1 .. Records[added[i]],
                          At(i)[j] = At(i)[k]
                   PROVE  j = k
        OBVIOUS
      <3>a. Offset(added, i) + j \in 1 .. Len(free) /\ At(i)[j] = free[Offset(added, i) + j]
        BY <1>3
      <3>b. Offset(added, i) + k \in 1 .. Len(free) /\ At(i)[k] = free[Offset(added, i) + k]
        BY <1>3
      <3>1. Offset(added, i) + j = Offset(added, i) + k
        BY <1>2, <3>a, <3>b
      <3> QED BY <2>2, <3>1
    <2>4. ToSet(At(i)) = {free[Offset(added, i) + j] : j \in 1 .. Records[added[i]]}
      <3>1. ToSet(At(i)) = {At(i)[j] : j \in 1 .. Records[added[i]]}
        BY <1>3, <2>1
      <3>2. \A j \in 1 .. Records[added[i]] : At(i)[j] = free[Offset(added, i) + j]
        BY <1>3
      <3> QED BY <3>1, <3>2
    <2>5. ToSet(At(i)) \subseteq ToSet(free)
      <3>1. \A j \in 1 .. Records[added[i]] : free[Offset(added, i) + j] \in ToSet(free)
        BY <1>2, <1>3
      <3> QED BY <2>4, <3>1
    <2>6. IsInjective(At(i))
      BY <1>3, <2>1, <2>3
    <2> QED BY <1>3, <1>6, <2>4, <2>5, <2>6
  <1>10. ASSUME NEW i \in 1 .. Len(added), NEW k \in 1 .. Len(added), i # k
         PROVE  ToSet(fresh[i].at) \intersect ToSet(fresh[k].at) = {}
    <2> SUFFICES ASSUME NEW a \in 1 .. Records[added[i]], NEW b \in 1 .. Records[added[k]],
                        free[Offset(added, i) + a] = free[Offset(added, k) + b]
                 PROVE  FALSE
      <3>1. /\ ToSet(fresh[i].at) = {free[Offset(added, i) + j] : j \in 1 .. Records[added[i]]}
            /\ ToSet(fresh[k].at) = {free[Offset(added, k) + j] : j \in 1 .. Records[added[k]]}
        BY <1>9
      <3> QED BY <3>1
    <2>a. Offset(added, i) + a \in 1 .. Len(free) /\ Offset(added, k) + b \in 1 .. Len(free)
      BY <1>3
    <2>1. Offset(added, i) + a = Offset(added, k) + b
      BY <1>2, <2>a
    <2>2. /\ Offset(added, i) \in Nat /\ Records[added[i]] \in Nat
          /\ Offset(added, k) \in Nat /\ Records[added[k]] \in Nat
      BY OffsetIs
    <2> DEFINE q == Offset(added, i) + a
    <2>3. /\ q \in Int /\ Offset(added, i) < q /\ q <= Offset(added, i) + Records[added[i]]
          /\ Offset(added, k) < q /\ q <= Offset(added, k) + Records[added[k]]
      <3>1. \A o, r \in Nat : \A x \in 1 .. r : o + x \in Int /\ o < o + x /\ o + x <= o + r
        OBVIOUS
      <3>2. q \in Int /\ Offset(added, i) < q /\ q <= Offset(added, i) + Records[added[i]]
        BY <2>2, <3>1
      <3>3. q = Offset(added, k) + b
        BY <2>1
      <3>4. Offset(added, k) < q /\ q <= Offset(added, k) + Records[added[k]]
        BY <2>2, <3>1, <3>3
      <3> QED BY <3>2, <3>4
    <2> HIDE DEF q
    <2> QED BY <1>10, <2>3, OneTile
  <1>11. Placed(fresh)
    BY <1>5, <1>8, <1>9, <1>10 DEF Placed
  <1>12. Occupied(fresh) \subseteq ToSet(free)
    BY <1>5, <1>7, <1>9 DEF Occupied
  <1>13. \A i \in 1 .. Len(added) :
                     /\ fresh[i].id = added[i]
                     /\ \A j \in 1 .. Records[added[i]] :
                           /\ Offset(added, i) + j \in 1 .. Len(free)
                           /\ fresh[i].at[j] = free[Offset(added, i) + j]
    BY <1>3, <1>6
  <1> QED BY <1>5, <1>8, <1>11, <1>12, <1>13 DEF fresh, At

\* The slots a plan gives: the nodes that stay have theirs, and in an empty
\* arena the others lie one behind the other.
PlanFits(plan, slots, retained, added) ==
    /\ Placed(plan) /\ ToSet(Ids(plan)) = ToSet(retained) \union ToSet(added)
    /\ \A x \in 1 .. Len(plan) :
          plan[x].id \notin ToSet(added) => plan[x] \in ToSet(slots)
    /\ retained = <<>> =>
          \A x \in 1 .. Len(plan), i \in 1 .. Len(added) :
             plan[x].id = added[i] =>
                \A j \in 1 .. Records[added[i]] : plan[x].at[j] = Offset(added, i) + j

\* planIncrementalArena gives every tile of a cut within the budget a slot.
LEMMA PlanIs ==
    ASSUME NEW slots, Placed(slots), NEW retained \in Seq(Nodes), IsInjective(retained),
           ToSet(retained) \subseteq ToSet(Ids(slots)),
           NEW added \in Seq(Nodes), IsInjective(added),
           ToSet(retained) \intersect ToSet(added) = {},
           Total[ToSet(retained) \union ToSet(added)] <= Budget
    PROVE  PlanFits(PlanSlots(slots, retained, added), slots, retained, added)
  <1> DEFINE kept == [i \in DOMAIN retained |-> Held(slots, retained[i])]
             At(i) == SubSeq(Free(kept), Offset(added, i) + 1, Offset(added, i) + Records[added[i]])
             fresh == [i \in DOMAIN added |-> [id |-> added[i], at |-> At(i)]]
             plan == PlanSlots(slots, retained, added)
  <1>1. /\ Placed(kept) /\ Len(kept) = Len(retained)
        /\ ToSet(Ids(kept)) = ToSet(retained)
        /\ \A i \in 1 .. Len(kept) : kept[i] \in ToSet(slots)
    BY KeptPlaced
  <1>2. plan = kept \o fresh
    BY DEF PlanSlots
  <1> HIDE DEF kept, plan
  <1>3. /\ Free(kept) \in Seq(Positions) /\ IsInjective(Free(kept))
        /\ ToSet(Free(kept)) \intersect Occupied(kept) = {}
        /\ Budget - Total[ToSet(Ids(kept))] <= Len(Free(kept))
        /\ kept = <<>> => \A p \in 1 .. Len(Free(kept)) : Free(kept)[p] = p
    BY <1>1, FreeIs
  <1>4. /\ Len(added) \in Nat /\ ToSet(added) \subseteq Nodes
        /\ ToSet(added) = {added[i] : i \in 1 .. Len(added)}
        /\ \A i, j \in 1 .. Len(added) : added[i] = added[j] => i = j
    BY Listed
  <1>5. ToSet(retained) \subseteq Nodes
    BY Listed
  <1>6. Total[ToSet(added)] <= Len(Free(kept))
    <2>1. Total[ToSet(retained) \union ToSet(added)] = Total[ToSet(retained)] + Total[ToSet(added)]
      BY <1>4, <1>5, TotalAdd
    <2>2. Total[ToSet(retained)] \in Nat /\ Total[ToSet(added)] \in Nat /\ Budget \in Nat
      BY <1>4, <1>5, TotalIs, LodViewerAssumption
    <2>3. Len(Free(kept)) \in Nat
      BY <1>3, Listed
    <2>4. Budget - Total[ToSet(retained)] <= Len(Free(kept))
      BY <1>1, <1>3
    <2> QED BY <2>1, <2>2, <2>3, <2>4
  <1>7. /\ Placed(fresh) /\ Len(fresh) = Len(added)
        /\ ToSet(Ids(fresh)) = ToSet(added) /\ Occupied(fresh) \subseteq ToSet(Free(kept))
        /\ \A i \in 1 .. Len(added) :
              /\ fresh[i].id = added[i]
              /\ \A j \in 1 .. Records[added[i]] :
                    /\ Offset(added, i) + j \in 1 .. Len(Free(kept))
                    /\ fresh[i].at[j] = Free(kept)[Offset(added, i) + j]
    BY <1>3, <1>6, FreshPlaced
  <1> HIDE DEF fresh
  <1>8. ToSet(Ids(kept)) \intersect ToSet(Ids(fresh)) = {}
    BY <1>1, <1>7
  <1>9. Occupied(kept) \intersect Occupied(fresh) = {}
    BY <1>3, <1>7
  <1>10. /\ Placed(plan) /\ ToSet(Ids(plan)) = ToSet(Ids(kept)) \union ToSet(Ids(fresh))
         /\ \A x \in 1 .. Len(plan) :
               \/ \E i \in 1 .. Len(kept) : plan[x] = kept[i]
               \/ \E i \in 1 .. Len(fresh) : plan[x] = fresh[i]
    BY <1>1, <1>2, <1>7, <1>8, <1>9, PlacedTogether
  <1>11. ASSUME NEW x \in 1 .. Len(plan), plan[x].id \notin ToSet(added)
         PROVE  plan[x] \in ToSet(slots)
    <2>1. \A i \in 1 .. Len(fresh) : plan[x] # fresh[i]
      BY <1>4, <1>7, <1>11
    <2> QED BY <1>1, <1>10, <2>1
  <1>12. ASSUME retained = <<>>, NEW x \in 1 .. Len(plan), NEW i \in 1 .. Len(added),
                plan[x].id = added[i], NEW j \in 1 .. Records[added[i]]
         PROVE  plan[x].at[j] = Offset(added, i) + j
    <2>1. Len(kept) = 0 /\ kept = <<>>
      <3>1. kept \in Seq(Slots) /\ Len(kept) = 0
        BY <1>1, <1>12 DEF Placed
      <3> QED BY <3>1, EmptySeq
    <2>2. PICK k \in 1 .. Len(added) : plan[x] = fresh[k]
      BY <1>7, <1>10, <2>1
    <2>3. k = i
      BY <1>4, <1>7, <1>12, <2>2
    <2>4. /\ Offset(added, i) + j \in 1 .. Len(Free(kept))
          /\ plan[x].at[j] = Free(kept)[Offset(added, i) + j]
      BY <1>7, <2>2, <2>3
    <2> QED BY <1>3, <2>1, <2>4
  <1>13. /\ Placed(plan) /\ ToSet(Ids(plan)) = ToSet(retained) \union ToSet(added)
    BY <1>1, <1>7, <1>10
  <1>14. /\ \A x \in 1 .. Len(plan) : plan[x].id \notin ToSet(added) => plan[x] \in ToSet(slots)
         /\ retained = <<>> =>
               \A x \in 1 .. Len(plan), i \in 1 .. Len(added) :
                  plan[x].id = added[i] =>
                     \A j \in 1 .. Records[added[i]] : plan[x].at[j] = Offset(added, i) + j
    BY <1>11, <1>12
  <1> QED BY <1>13, <1>14 DEF plan, PlanFits

\* The level a tile is staged at.
LevelOf(n, sh) == IF n \in Streamed /\ ~sh THEN "base" ELSE "full"

\* Where the records of a tile are in the staged geometry, and at which level.
LEMMA StagedIs ==
    ASSUME NEW load \in Seq(Nodes), IsInjective(load), NEW sh,
           NEW i \in 1 .. Len(load), NEW j \in 1 .. Records[load[i]]
    PROVE  /\ Offset(load, i) + j \in DOMAIN Staged(load, sh)
           /\ Staged(load, sh)[Offset(load, i) + j] = <<load[i], j, LevelOf(load[i], sh)>>
  <1> DEFINE q == Offset(load, i) + j
             Tile(r) == CHOOSE k \in DOMAIN load :
                           Offset(load, k) < r /\ r <= Offset(load, k) + Records[load[k]]
  <1>1. /\ Offset(load, i) \in Nat /\ Records[load[i]] \in Nat
        /\ Offset(load, i) + Records[load[i]] <= Total[ToSet(load)]
    BY OffsetIs
  <1>2. DOMAIN load = 1 .. Len(load) /\ ToSet(load) \subseteq Nodes
    BY Listed
  <1>3. Total[ToSet(load)] \in Nat
    BY <1>2, TotalIs
  <1>4. q \in 1 .. Total[ToSet(load)] /\ q - Offset(load, i) = j
    BY <1>1, <1>3
  <1>5. q \in Int /\ Offset(load, i) < q /\ q <= Offset(load, i) + Records[load[i]]
    BY <1>1
  <1> HIDE DEF q
  <1>6. ASSUME NEW k \in 1 .. Len(load), Offset(load, k) < q, q <= Offset(load, k) + Records[load[k]]
        PROVE  k = i
    BY <1>5, <1>6, OneTile
  <1>7. Tile(q) = i
    BY <1>2, <1>5, <1>6
  <1>8. Staged(load, sh) = [r \in 1 .. Total[ToSet(load)] |->
            <<load[Tile(r)], r - Offset(load, Tile(r)), LevelOf(load[Tile(r)], sh)>>]
    BY DEF Staged, LevelOf
  <1> HIDE DEF Tile
  <1>9. Staged(load, sh)[q] = <<load[i], j, LevelOf(load[i], sh)>>
    BY <1>4, <1>7, <1>8
  <1> QED BY <1>4, <1>8, <1>9 DEF q

\* What a commit writes: the loaded tiles in their slots, the others as they were.
LEMMA WrittenIs ==
    ASSUME NEW s, Placed(s.slots), s.load \in Seq(Nodes), IsInjective(s.load),
           ToSet(s.load) \subseteq ToSet(Ids(s.slots)), s.rebuild \in BOOLEAN,
           s.rebuild => /\ ToSet(Ids(s.slots)) \subseteq ToSet(s.load)
                        /\ \A x \in 1 .. Len(s.slots), i \in 1 .. Len(s.load) :
                              s.slots[x].id = s.load[i] =>
                                 \A j \in 1 .. Records[s.load[i]] :
                                    s.slots[x].at[j] = Offset(s.load, i) + j,
           NEW x \in 1 .. Len(s.slots), NEW j \in 1 .. Records[s.slots[x].id]
    PROVE  Written(s)[s.slots[x].at[j]]
              = IF s.slots[x].id \in ToSet(s.load)
                THEN <<s.slots[x].id, j, LevelOf(s.slots[x].id, s.sh)>>
                ELSE texture[s.slots[x].at[j]]
  <1> DEFINE staged == Staged(s.load, s.sh)
             Place(i) == Held(s.slots, s.load[i]).at
             Writers(p) == {i \in DOMAIN s.load : p \in ToSet(Place(i))}
             Copied(i, p) == staged[Offset(s.load, i) + (CHOOSE k \in DOMAIN Place(i) : Place(i)[k] = p)]
             pos == s.slots[x].at[j]
             n == s.slots[x].id
  <1>1. /\ Len(s.load) \in Nat /\ DOMAIN s.load = 1 .. Len(s.load)
        /\ ToSet(s.load) = {s.load[i] : i \in 1 .. Len(s.load)}
        /\ \A i, k \in 1 .. Len(s.load) : s.load[i] = s.load[k] => i = k
        /\ \A i \in 1 .. Len(s.load) : s.load[i] \in ToSet(s.load)
    BY Listed
  <1>2. \A y \in 1 .. Len(s.slots) : s.slots[y].at \in Seq(Positions) /\ s.slots[y].id \in Nodes
    BY IdsAre DEF Placed
  <1>3. n \in ToSet(Ids(s.slots))
    BY IdsAre DEF Placed
  <1>4. /\ DOMAIN s.slots[x].at = 1 .. Records[n]
        /\ pos \in Positions /\ pos \in ToSet(s.slots[x].at)
        /\ \A k \in 1 .. Records[n] : s.slots[x].at[k] = pos => k = j
    <2>1. s.slots[x].at \in Seq(Positions) /\ Len(s.slots[x].at) = Records[n] /\ IsInjective(s.slots[x].at)
      BY <1>2 DEF Placed
    <2> QED BY <2>1, Listed
  <1>5. Written(s) = [p \in Positions |->
            IF s.rebuild THEN IF p \in DOMAIN staged THEN staged[p] ELSE Blank
            ELSE IF Writers(p) = {} THEN texture[p] ELSE Copied(Max(Writers(p)), p)]
    BY DEF Written
  <1>6. ASSUME NEW i \in 1 .. Len(s.load), s.load[i] = n
        PROVE  staged[Offset(s.load, i) + j] = <<n, j, LevelOf(n, s.sh)>>
               /\ Offset(s.load, i) + j \in DOMAIN staged
    <2>1. j \in 1 .. Records[s.load[i]]
      BY <1>6
    <2> QED BY <1>6, <2>1, StagedIs
  <1> HIDE DEF staged, n, pos
  <1>7. CASE s.rebuild
    <2>1. n \in ToSet(s.load)
      BY <1>3, <1>7
    <2>2. PICK i \in 1 .. Len(s.load) : s.load[i] = n
      BY <1>1, <2>1
    <2>3. pos = Offset(s.load, i) + j
      BY <1>7, <2>2 DEF pos, n
    <2>4. Written(s)[pos] = staged[pos]
      BY <1>4, <1>5, <1>6, <1>7, <2>2, <2>3
    <2>5. Written(s)[pos] = <<n, j, LevelOf(n, s.sh)>>
      BY <1>6, <2>2, <2>3, <2>4
    <2> QED BY <2>1, <2>5 DEF pos, n
  <1>8. CASE ~s.rebuild
    <2>1. ASSUME NEW i \in 1 .. Len(s.load)
          PROVE  \E y \in 1 .. Len(s.slots) : /\ Held(s.slots, s.load[i]) = s.slots[y]
                                              /\ s.slots[y].id = s.load[i]
      <3>1. s.load[i] \in ToSet(Ids(s.slots))
        BY <1>1
      <3> QED BY <3>1, HeldIs
    <2>2. ASSUME NEW i \in 1 .. Len(s.load), pos \in ToSet(Place(i))
          PROVE  s.load[i] = n
      <3>1. PICK y \in 1 .. Len(s.slots) : Place(i) = s.slots[y].at /\ s.slots[y].id = s.load[i]
        BY <2>1
      <3>2. y = x
        BY <1>4, <2>2, <3>1 DEF Placed
      <3> QED BY <3>1, <3>2 DEF n
    <2>3. Written(s)[pos] = IF Writers(pos) = {} THEN texture[pos] ELSE Copied(Max(Writers(pos)), pos)
      BY <1>4, <1>5, <1>8
    <2>4. CASE n \in ToSet(s.load)
      <3>1. PICK i \in 1 .. Len(s.load) : s.load[i] = n
        BY <1>1, <2>4
      <3>2. Place(i) = s.slots[x].at
        BY <3>1, HeldIs DEF n
      <3>3. Writers(pos) = {i}
        BY <1>1, <1>4, <2>2, <3>1, <3>2
      <3>4. Max({i}) = i
        <4>1. {i} \subseteq 1 .. Len(s.load) /\ {i} # {}
          OBVIOUS
        <4>2. Max({i}) \in {i}
          BY <1>1, <4>1, MaxIs
        <4> QED BY <4>2
      <3>5. (CHOOSE k \in DOMAIN Place(i) : Place(i)[k] = pos) = j
        <4>1. j \in DOMAIN Place(i) /\ Place(i)[j] = pos
          BY <1>4, <3>2 DEF pos, n
        <4>2. \A k \in DOMAIN Place(i) : Place(i)[k] = pos => k = j
          BY <1>4, <3>2
        <4> HIDE DEF Place
        <4> QED BY <4>1, <4>2
      <3>6. Copied(i, pos) = staged[Offset(s.load, i) + j]
        BY <3>5
      <3>7. Written(s)[pos] = Copied(i, pos)
        <4> HIDE DEF Writers, Copied
        <4> QED BY <2>3, <3>3, <3>4
      <3>8. Written(s)[pos] = <<n, j, LevelOf(n, s.sh)>>
        BY <1>6, <3>1, <3>6, <3>7
      <3> QED BY <2>4, <3>8 DEF pos, n
    <2>5. CASE n \notin ToSet(s.load)
      <3>1. Writers(pos) = {}
        BY <1>1, <2>2, <2>5
      <3> QED BY <2>3, <2>5, <3>1 DEF pos, n
    <2> QED BY <2>4, <2>5
  <1> QED BY <1>7, <1>8

-----------------------------------------------------------------------------
(* The loop. *)

\* A group that is loaded.
Syncs == [limit : {InitialBudget, Budget}, complete : BOOLEAN, slots : Seq(Slots),
          load : Seq(Nodes), pending : SUBSET Nodes, sh : BOOLEAN, rebuild : BOOLEAN,
          assembled : BOOLEAN, failure : {"none", "load", "assembly"}]

\* A cut of the tree, as a sequence.
CutOf(nodes) == nodes \in Seq(Nodes) /\ IsInjective(nodes) /\ Antichain(ToSet(nodes))

\* The texture holds what the slots say.
Drawn(slots, records, base) ==
    \A x \in 1 .. Len(slots) : \A j \in 1 .. Records[slots[x].id] :
        records[slots[x].at[j]]
            = <<slots[x].id, j, IF slots[x].id \in base THEN "base" ELSE "full">>

\* What a group under way may rely on.
Planned(s) ==
    /\ Placed(s.slots) /\ Antichain(ToSet(Ids(s.slots)))
    /\ IsInjective(s.load) /\ ToSet(s.load) \subseteq ToSet(Ids(s.slots))
    /\ s.rebuild => /\ ToSet(Ids(s.slots)) \subseteq ToSet(s.load)
                    /\ \A x \in 1 .. Len(s.slots), i \in 1 .. Len(s.load) :
                          s.slots[x].id = s.load[i] =>
                             \A j \in 1 .. Records[s.load[i]] :
                                s.slots[x].at[j] = Offset(s.load, i) + j

\* The arena: a slot for every tile of a cut, with the records of the tile in it.
ArenaSound ==
    /\ Placed(arena) /\ Antichain(Resident) /\ baseOnly \subseteq Resident
    /\ Drawn(arena, texture, baseOnly)

\* A group replaces the arena as it is, and keeps what it shows of the cut chosen.
SyncSound ==
    sync # NoSync =>
        /\ sync \in Syncs /\ Planned(sync)
        /\ \A x \in 1 .. Len(sync.slots) :
              sync.slots[x].id \notin ToSet(sync.load) => sync.slots[x] \in ToSet(arena)
        /\ Shown(Resident) \intersect Shown(ToSet(chosen.ids))
              \subseteq Shown(ToSet(Ids(sync.slots)))

\* The inductive invariant: the arena, the cut chosen and the group planned.
LodInv == ArenaSound /\ CutOf(chosen.ids) /\ SyncSound

\* The two limits a cut is planned for.
LEMMA LimitIs ==
    ASSUME NEW limit \in {InitialBudget, Budget}
    PROVE  limit \in Nat /\ Records[Root] <= limit /\ limit <= Budget /\ 1 <= limit
  <1>1. /\ InitialBudget \in Nat /\ Budget \in Nat /\ Records[Root] \in Nat /\ Records[Root] >= 1
        /\ Records[Root] <= InitialBudget /\ InitialBudget <= Budget
    BY LodViewerAssumption, NodesAre
  <1> QED BY <1>1

\* A group for a cut that fits is one the arena can take.
LEMMA GroupPlanned ==
    ASSUME ArenaSound, NEW cut, cut \subseteq Nodes, Antichain(cut),
           NEW limit \in {InitialBudget, Budget}, Total[cut] <= limit,
           NEW target, NEW upgrades
    PROVE  LET s == Group(cut, target, upgrades, limit)
           IN  /\ s \in Syncs /\ Planned(s) /\ ToSet(Ids(s.slots)) = cut
               /\ \A x \in 1 .. Len(s.slots) :
                     s.slots[x].id \notin ToSet(s.load) => s.slots[x] \in ToSet(arena)
  <1> DEFINE stay == (cut \intersect Resident) \ upgrades
             go == cut \ (Resident \ upgrades)
             retained == Sorted[stay]
             load == Sorted[go]
             plan == PlanSlots(arena, retained, load)
             s == Group(cut, target, upgrades, limit)
  <1>1. stay \subseteq Nodes /\ go \subseteq Nodes
    OBVIOUS
  <1>2. stay \intersect go = {} /\ stay \union go = cut /\ stay \subseteq Resident
    OBVIOUS
  <1>3. s = [limit |-> limit, complete |-> cut = ToSet(target),
             slots |-> plan, load |-> load,
             pending |-> ToSet(load), sh |-> upgrades # {}, rebuild |-> arena = <<>>,
             assembled |-> assembler /\ load # <<>>, failure |-> "none"]
    BY DEF Group
  <1>4. Resident = {} => stay = {}
    BY <1>2
  <1> HIDE DEF stay, go
  <1>5. retained \in Seq(Nodes) /\ IsInjective(retained) /\ ToSet(retained) = stay
    BY <1>1, SortedIs
  <1>6. load \in Seq(Nodes) /\ IsInjective(load) /\ ToSet(load) = go
    BY <1>1, SortedIs
  <1> HIDE DEF retained, load
  <1>7. Total[ToSet(retained) \union ToSet(load)] <= Budget
    <2>1. limit \in Nat /\ limit <= Budget /\ Total[cut] \in Nat /\ Budget \in Nat
      BY LimitIs, TotalIs, LodViewerAssumption
    <2>2. Total[cut] <= Budget
      BY <2>1
    <2> QED BY <1>2, <1>5, <1>6, <2>2
  <1>8. /\ Placed(plan) /\ ToSet(Ids(plan)) = ToSet(retained) \union ToSet(load)
        /\ \A x \in 1 .. Len(plan) : plan[x].id \notin ToSet(load) => plan[x] \in ToSet(arena)
        /\ retained = <<>> =>
              \A x \in 1 .. Len(plan), i \in 1 .. Len(load) :
                 plan[x].id = load[i] =>
                    \A j \in 1 .. Records[load[i]] : plan[x].at[j] = Offset(load, i) + j
    <2>1. Placed(arena) /\ ToSet(retained) \subseteq ToSet(Ids(arena))
      BY <1>2, <1>5 DEF ArenaSound, Resident
    <2>2. ToSet(retained) \intersect ToSet(load) = {}
      BY <1>2, <1>5, <1>6
    <2>3. PlanFits(plan, arena, retained, load)
      BY <1>5, <1>6, <1>7, <2>1, <2>2, PlanIs
    <2> HIDE DEF plan
    <2> QED BY <2>3 DEF PlanFits
  <1> HIDE DEF plan, s
  <1>9. /\ s.limit = limit /\ s.slots = plan /\ s.load = load
        /\ s.rebuild = (arena = <<>>)
    BY <1>3
  <1>10. s \in Syncs
    <2>1. plan \in Seq(Slots)
      BY <1>8 DEF Placed
    <2>2. ToSet(load) \in SUBSET Nodes
      BY <1>1, <1>6
    <2> QED BY <1>3, <1>6, <2>1, <2>2 DEF Syncs
  <1>11. ToSet(Ids(plan)) = cut
    BY <1>2, <1>5, <1>6, <1>8
  <1>12. ASSUME arena = <<>>
         PROVE  retained = <<>> /\ ToSet(Ids(plan)) \subseteq ToSet(load)
    <2>1. Resident = {}
      BY <1>12 DEF Resident, Ids, ToSet
    <2>2. ToSet(retained) = {}
      BY <1>4, <1>5, <2>1
    <2>3. retained = <<>>
      <3>1. /\ Len(retained) \in Nat
            /\ \A i \in 1 .. Len(retained) : retained[i] \in ToSet(retained)
        BY <1>5, Listed
      <3>2. Len(retained) = 0
        BY <2>2, <3>1
      <3> QED BY <1>5, <3>2, EmptySeq
    <2> QED BY <1>8, <2>2, <2>3
  <1>13. Planned(s)
    <2>1. /\ Placed(s.slots) /\ Antichain(ToSet(Ids(s.slots)))
          /\ IsInjective(s.load) /\ ToSet(s.load) \subseteq ToSet(Ids(s.slots))
      BY <1>6, <1>8, <1>9, <1>11
    <2>2. ASSUME s.rebuild
          PROVE  /\ ToSet(Ids(s.slots)) \subseteq ToSet(s.load)
                 /\ \A x \in 1 .. Len(s.slots), i \in 1 .. Len(s.load) :
                          s.slots[x].id = s.load[i] =>
                             \A j \in 1 .. Records[s.load[i]] :
                                s.slots[x].at[j] = Offset(s.load, i) + j
      <3>1. arena = <<>>
        BY <1>9, <2>2
      <3> QED BY <1>8, <1>9, <1>12, <3>1
    <2> QED BY <2>1, <2>2 DEF Planned
  <1>14. \A x \in 1 .. Len(s.slots) :
                     s.slots[x].id \notin ToSet(s.load) => s.slots[x] \in ToSet(arena)
    BY <1>8, <1>9
  <1> QED BY <1>9, <1>10, <1>11, <1>13, <1>14 DEF s

\* Planning keeps the invariant: the group has the slots for its cut.
LEMMA SynchronizeSound ==
    ASSUME LodInv, NEW limit \in {InitialBudget, Budget}, Synchronize(limit), UNCHANGED gpu
    PROVE  LodInv'
  <1>0. PICK target \in IF chosen.limit = limit /\ ~moved THEN {chosen.ids} ELSE Selections(limit) :
             \E cut \in NextLodCut(Ids(arena), target, limit) : \E upgrades :
                /\ chosen' = [ids |-> target, limit |-> limit]
                /\ \/ sync' = NoSync
                   \/ sync' = Group(cut, target, upgrades, limit)
    BY DEF Synchronize
  <1>1. PICK cut \in NextLodCut(Ids(arena), target, limit) : \E upgrades :
                /\ chosen' = [ids |-> target, limit |-> limit]
                /\ \/ sync' = NoSync
                   \/ sync' = Group(cut, target, upgrades, limit)
    BY <1>0
  <1>2. PICK upgrades : sync' = NoSync \/ sync' = Group(cut, target, upgrades, limit)
    BY <1>1
  <1>3. CutOf(target)
    BY LodViewerAssumption DEF Selections, CutOf, LodInv
  <1>4. CutOf(Ids(arena)) /\ ToSet(Ids(arena)) = Resident
    BY IdsAre DEF LodInv, ArenaSound, Placed, CutOf, Resident
  <1>5. /\ cut \subseteq Nodes /\ Antichain(cut) /\ Total[cut] <= limit
        /\ Shown(Resident) \intersect Shown(ToSet(target)) \subseteq Shown(cut)
    BY <1>1, <1>3, <1>4, LimitIs, NextCutFits DEF CutOf
  <1>6. chosen'.ids = target
    BY <1>1
  <1>7. arena' = arena /\ baseOnly' = baseOnly /\ texture' = texture
    BY DEF gpu
  <1>8. ArenaSound'
    BY <1>7 DEF LodInv, ArenaSound, Resident
  <1>9. CutOf(chosen.ids)'
    BY <1>3, <1>6 DEF CutOf
  <1>10. SyncSound'
    <2> SUFFICES ASSUME sync' # NoSync PROVE SyncSound'
      BY DEF SyncSound
    <2> DEFINE s == Group(cut, target, upgrades, limit)
    <2>1. sync' = s
      BY <1>2
    <2>2. /\ s \in Syncs /\ Planned(s) /\ ToSet(Ids(s.slots)) = cut
          /\ \A x \in 1 .. Len(s.slots) :
                s.slots[x].id \notin ToSet(s.load) => s.slots[x] \in ToSet(arena)
      BY <1>5, GroupPlanned DEF LodInv
    <2>3. Resident' = Resident
      BY <1>7 DEF Resident
    <2> HIDE DEF s
    <2> QED BY <1>5, <1>6, <1>7, <2>1, <2>2, <2>3 DEF SyncSound
  <1> QED BY <1>8, <1>9, <1>10 DEF LodInv

\* A commit shows the slots of its group.
LEMMA CommitSound ==
    ASSUME LodInv, CommitCut
    PROVE  LodInv' /\ Shown(Resident) \intersect Shown(ToSet(chosen.ids)) \subseteq Shown(Resident')
  <1> DEFINE s == sync
             ids == ToSet(Ids(s.slots))
             loaded == ToSet(s.load)
  <1>1. /\ s \in Syncs /\ Planned(s)
        /\ \A x \in 1 .. Len(s.slots) : s.slots[x].id \notin loaded => s.slots[x] \in ToSet(arena)
        /\ Shown(Resident) \intersect Shown(ToSet(chosen.ids)) \subseteq Shown(ids)
    BY DEF CommitCut, LodInv, SyncSound
  <1>2. /\ arena' = s.slots /\ texture' = Written(s) /\ sync' = NoSync /\ chosen' = chosen
        /\ baseOnly' = ((baseOnly \intersect ids) \ loaded)
                          \union (IF s.sh THEN {} ELSE loaded \intersect Streamed)
    BY DEF CommitCut
  <1>3. Placed(s.slots) /\ s.load \in Seq(Nodes) /\ IsInjective(s.load) /\ loaded \subseteq ids
    BY <1>1 DEF Planned, Syncs
  <1>4. Resident' = ids
    BY <1>2 DEF Resident
  <1>5. baseOnly' \subseteq ids
    BY <1>2, <1>3
  <1>6. ASSUME NEW x \in 1 .. Len(s.slots), NEW j \in 1 .. Records[s.slots[x].id]
        PROVE  texture'[s.slots[x].at[j]] = <<s.slots[x].id, j,
                  IF s.slots[x].id \in baseOnly' THEN "base" ELSE "full">>
    <2> DEFINE slot == s.slots[x]
    <2>1. Written(s)[slot.at[j]]
              = IF slot.id \in loaded THEN <<slot.id, j, LevelOf(slot.id, s.sh)>>
                ELSE texture[slot.at[j]]
      <3>1. s.rebuild \in BOOLEAN
        BY <1>1 DEF Syncs
      <3> QED BY <1>1, <1>3, <3>1, WrittenIs DEF Planned
    <2>2. slot.id \in ids
      BY <1>3, IdsAre DEF Placed
    <2>3. CASE slot.id \in loaded
      <3>1. slot.id \in baseOnly' <=> slot.id \in Streamed /\ ~s.sh
        BY <1>2, <2>3
      <3> QED BY <1>2, <2>1, <2>3, <3>1 DEF LevelOf
    <2>4. CASE slot.id \notin loaded
      <3>1. slot \in ToSet(arena)
        BY <1>1, <2>4
      <3>2. PICK y \in 1 .. Len(arena) : slot = arena[y]
        BY <3>1, IdsAre DEF LodInv, ArenaSound, Placed
      <3>3. texture[slot.at[j]] = <<slot.id, j, IF slot.id \in baseOnly THEN "base" ELSE "full">>
        BY <3>2 DEF LodInv, ArenaSound, Drawn
      <3>4. slot.id \in baseOnly' <=> slot.id \in baseOnly
        BY <1>2, <2>2, <2>4
      <3> QED BY <1>2, <2>1, <2>4, <3>3, <3>4
    <2> QED BY <2>3, <2>4
  <1>7. Drawn(arena', texture', baseOnly')
    BY <1>2, <1>6 DEF Drawn
  <1>8. ArenaSound'
    BY <1>1, <1>2, <1>4, <1>5, <1>7 DEF ArenaSound, Planned
  <1>9. CutOf(chosen.ids)'
    BY <1>2 DEF LodInv
  <1>10. SyncSound'
    BY <1>2 DEF SyncSound
  <1> QED BY <1>1, <1>4, <1>8, <1>9, <1>10 DEF LodInv

\* A group that goes on is the same group.
SameGroup ==
    sync' # NoSync =>
        /\ sync # NoSync /\ sync' \in Syncs
        /\ sync'.slots = sync.slots /\ sync'.load = sync.load /\ sync'.rebuild = sync.rebuild

\* A step that leaves the group alone.
LEMMA GoesOn ==
    ASSUME LodInv, sync' = sync
    PROVE  SameGroup
  BY DEF LodInv, SyncSound, SameGroup

\* What leaves the arena and the cut chosen alone, and of the group the slots.
LEMMA UnderWay ==
    ASSUME LodInv, UNCHANGED <<chosen, gpu>>, SameGroup
    PROVE  LodInv'
  <1>1. /\ arena' = arena /\ baseOnly' = baseOnly /\ texture' = texture /\ chosen' = chosen
        /\ Resident' = Resident
    BY DEF gpu, Resident
  <1>2. ArenaSound' /\ CutOf(chosen.ids)'
    BY <1>1 DEF LodInv, ArenaSound
  <1>3. SyncSound'
    <2> SUFFICES ASSUME sync' # NoSync PROVE SyncSound'
      BY DEF SyncSound
    <2>1. /\ sync # NoSync /\ sync' \in Syncs
          /\ sync'.slots = sync.slots /\ sync'.load = sync.load /\ sync'.rebuild = sync.rebuild
      BY DEF SameGroup
    <2>2. Planned(sync)
      BY <2>1 DEF LodInv, SyncSound
    <2>3. Planned(sync')
      BY <2>1, <2>2 DEF Planned
    <2> QED BY <1>1, <2>1, <2>3 DEF LodInv, SyncSound
  <1> QED BY <1>2, <1>3 DEF LodInv

\* The invariant holds at first ...
LEMMA InitSound == Init => LodInv
  <1> SUFFICES ASSUME Init PROVE LodInv
    OBVIOUS
  <1>1. arena = <<>> /\ baseOnly = {} /\ sync = NoSync /\ chosen.ids = <<>>
    BY DEF Init, NoTarget
  <1>2. <<>> \in Seq(Slots) /\ <<>> \in Seq(Nodes) /\ Len(<<>>) = 0 /\ DOMAIN <<>> = {}
    OBVIOUS
  <1>3. ToSet(<<>>) = {} /\ IsInjective(<<>>)
    BY <1>2 DEF ToSet, IsInjective
  <1>4. Ids(<<>>) = <<>>
    BY <1>2 DEF Ids
  <1>5. Antichain({})
    BY DEF Antichain
  <1>6. Resident = {}
    BY <1>1, <1>3, <1>4 DEF Resident
  <1>7. \A x \in 1 .. Len(arena) : FALSE
    BY <1>1, <1>2
  <1>8. ArenaSound
    BY <1>1, <1>2, <1>3, <1>4, <1>5, <1>6, <1>7 DEF ArenaSound, Placed, Drawn
  <1>9. CutOf(chosen.ids)
    BY <1>1, <1>2, <1>3, <1>5 DEF CutOf
  <1> QED BY <1>1, <1>8, <1>9 DEF LodInv, SyncSound

\* ... after the bundle is disposed of ...
LEMMA DisposeSound == ASSUME Dispose PROVE LodInv'
  <1>1. arena' = <<>> /\ baseOnly' = {} /\ sync' = NoSync /\ chosen'.ids = <<>>
    BY DEF Dispose, NoTarget
  <1>2. <<>> \in Seq(Slots) /\ <<>> \in Seq(Nodes) /\ Len(<<>>) = 0 /\ DOMAIN <<>> = {}
    OBVIOUS
  <1>3. ToSet(<<>>) = {} /\ IsInjective(<<>>)
    BY <1>2 DEF ToSet, IsInjective
  <1>4. Ids(<<>>) = <<>>
    BY <1>2 DEF Ids
  <1>5. Antichain({})
    BY DEF Antichain
  <1>6. Resident' = {}
    BY <1>1, <1>3, <1>4 DEF Resident
  <1>7. \A x \in 1 .. Len(arena') : FALSE
    BY <1>1, <1>2
  <1>8. ArenaSound'
    BY <1>1, <1>2, <1>3, <1>4, <1>5, <1>6, <1>7 DEF ArenaSound, Placed, Drawn
  <1>9. CutOf(chosen.ids)'
    BY <1>1, <1>2, <1>3, <1>5 DEF CutOf
  <1> QED BY <1>1, <1>8, <1>9 DEF LodInv, SyncSound

\* ... and after every step, which keeps what was shown of the cut chosen.
LEMMA StepSound ==
    ASSUME LodInv, [Next]_vars
    PROVE  LodInv' /\ (bundle' # "disposed" =>
              Shown(Resident) \intersect Shown(ToSet(chosen.ids)) \subseteq Shown(Resident'))
  <1> DEFINE Kept == Shown(Resident) \intersect Shown(ToSet(chosen.ids)) \subseteq Shown(Resident')
  <1> SUFFICES LodInv' /\ (bundle' # "disposed" => Kept)
    OBVIOUS
  <1>0. UNCHANGED gpu => Kept
    BY DEF gpu, Resident
  <1> HIDE DEF Kept
  <1>1. CASE LoadBundle
    <2>1. InitialBudget \in {InitialBudget, Budget} /\ Synchronize(InitialBudget) /\ UNCHANGED gpu
      BY <1>1 DEF LoadBundle
    <2> QED BY <1>0, <2>1, SynchronizeSound
  <1>2. CASE Interact
    <2>1. UNCHANGED <<chosen, gpu>> /\ sync' = sync
      BY <1>2 DEF Interact
    <2> QED BY <1>0, <2>1, GoesOn, UnderWay
  <1>3. CASE Rest
    <2>1. UNCHANGED <<chosen, gpu>> /\ sync' = sync
      BY <1>3 DEF Rest
    <2> QED BY <1>0, <2>1, GoesOn, UnderWay
  <1>4. CASE TimerFires
    <2>1. CASE sync # NoSync
      <3>1. UNCHANGED <<chosen, gpu>> /\ sync' = sync
        BY <1>4, <2>1 DEF TimerFires
      <3> QED BY <1>0, <3>1, GoesOn, UnderWay
    <2>2. CASE sync = NoSync
      <3>1. Budget \in {InitialBudget, Budget} /\ Synchronize(Budget) /\ UNCHANGED gpu
        BY <1>4, <2>2 DEF TimerFires
      <3> QED BY <1>0, <3>1, SynchronizeSound
    <2> QED BY <2>1, <2>2
  <1>5. CASE Dispose
    <2>1. bundle' = "disposed"
      BY <1>5 DEF Dispose
    <2> QED BY <1>5, <2>1, DisposeSound
  <1>i. sync # NoSync => sync \in Syncs
    BY DEF LodInv, SyncSound
  <1>6. ASSUME NEW n \in Nodes, TileLoaded(n) PROVE LodInv' /\ Kept
    <2>1. UNCHANGED <<chosen, gpu>>
      BY <1>6 DEF TileLoaded
    <2>2. sync # NoSync /\ sync' = [sync EXCEPT !.pending = @ \ {n}]
      BY <1>6 DEF TileLoaded
    <2>3. SameGroup
      BY <1>i, <2>2 DEF SameGroup, Syncs
    <2> QED BY <1>0, <2>1, <2>3, UnderWay
  <1>7. ASSUME NEW n \in Nodes, TileFails(n) PROVE LodInv' /\ Kept
    <2>1. UNCHANGED <<chosen, gpu>>
      BY <1>7 DEF TileFails
    <2>2. sync # NoSync /\ sync' = [sync EXCEPT !.pending = @ \ {n}, !.failure = "load"]
      BY <1>7 DEF TileFails
    <2>3. SameGroup
      BY <1>i, <2>2 DEF SameGroup, Syncs
    <2> QED BY <1>0, <2>1, <2>3, UnderWay
  <1>8. CASE AssemblyFails
    <2>1. UNCHANGED <<chosen, gpu>>
      BY <1>8 DEF AssemblyFails
    <2>2. sync # NoSync /\ sync' = [sync EXCEPT !.pending = {}, !.failure = "assembly"]
      BY <1>8 DEF AssemblyFails
    <2>3. SameGroup
      BY <1>i, <2>2 DEF SameGroup, Syncs
    <2> QED BY <1>0, <2>1, <2>3, UnderWay
  <1>9. CASE CommitCut
    BY <1>9, CommitSound DEF Kept
  <1>10. CASE LoadFails
    <2>1. UNCHANGED <<chosen, gpu>> /\ sync' = NoSync
      BY <1>10 DEF LoadFails
    <2>2. SameGroup
      BY <2>1 DEF SameGroup
    <2> QED BY <1>0, <2>1, <2>2, UnderWay
  <1>11. CASE RetryWithoutAssembly
    <2>1. sync # NoSync /\ Synchronize(sync.limit) /\ UNCHANGED gpu
      BY <1>11 DEF RetryWithoutAssembly
    <2>2. sync.limit \in {InitialBudget, Budget}
      BY <1>i, <2>1 DEF Syncs
    <2> DEFINE limit == sync.limit
    <2>3. limit \in {InitialBudget, Budget} /\ Synchronize(limit)
      BY <2>1, <2>2
    <2> HIDE DEF limit
    <2> QED BY <1>0, <2>1, <2>3, SynchronizeSound
  <1>12. CASE UNCHANGED vars
    <2>1. UNCHANGED <<chosen, gpu>> /\ sync' = sync
      BY <1>12 DEF vars
    <2> QED BY <1>0, <2>1, GoesOn, UnderWay
  <1> QED BY <1>1, <1>2, <1>3, <1>4, <1>5, <1>6, <1>7, <1>8, <1>9, <1>10, <1>11, <1>12 DEF Next

\* So it always holds.
LEMMA LodInvHolds == Spec => []LodInv
  <1>1. LodInv /\ [Next]_vars => LodInv'
    BY StepSound
  <1> QED BY <1>1, InitSound, PTL DEF Spec

(* Whatever tiles come and go, in whatever order they are loaded and with   *)
(* whatever failures: the arena that commitGeometry leaves holds a cut of   *)
(* the tree, each record of it at one position of its own and in the level  *)
(* the tile was loaded with.                                                *)
THEOREM ArenaCorrect == Spec => []ArenaShowsTheCut
  <1>1. LodInv => ArenaShowsTheCut
    <2> SUFFICES ASSUME LodInv PROVE ArenaShowsTheCut
      OBVIOUS
    <2>1. /\ DOMAIN arena = 1 .. Len(arena)
          /\ \A x \in 1 .. Len(arena) : arena[x].at \in Seq(Positions)
      BY IdsAre DEF LodInv, ArenaSound, Placed
    <2>2. Antichain(Resident) /\ IsInjective(Ids(arena)) /\ baseOnly \subseteq Resident
      BY DEF LodInv, ArenaSound, Placed
    <2>3. \A x, y \in DOMAIN arena :
              x # y => ToSet(arena[x].at) \intersect ToSet(arena[y].at) = {}
      BY <2>1 DEF LodInv, ArenaSound, Placed
    <2>4. ASSUME NEW x \in DOMAIN arena
          PROVE  /\ Len(arena[x].at) = Records[arena[x].id]
                 /\ DOMAIN arena[x].at = 1 .. Records[arena[x].id]
      <3>1. Len(arena[x].at) = Records[arena[x].id] /\ arena[x].at \in Seq(Positions)
        BY <2>1 DEF LodInv, ArenaSound, Placed
      <3> QED BY <3>1, LenProperties
    <2>5. ASSUME NEW x \in DOMAIN arena, NEW i \in DOMAIN arena[x].at
          PROVE  texture[arena[x].at[i]] =
                    <<arena[x].id, i, IF arena[x].id \in baseOnly THEN "base" ELSE "full">>
      BY <2>1, <2>4 DEF LodInv, ArenaSound, Drawn
    <2> QED BY <2>2, <2>3, <2>4, <2>5 DEF ArenaShowsTheCut
  <1> QED BY <1>1, LodInvHolds, PTL

(* No commit of a budget-limited step towards the cut selected opens a hole: *)
(* a leaf that was shown, and is to be shown, is shown after the step.       *)
THEOREM CoverageCorrect == Spec => CoverageKept
  <1>1. LodInv /\ [Next]_vars =>
            [bundle' # "disposed" =>
                Shown(Resident) \intersect Shown(ToSet(chosen.ids)) \subseteq Shown(Resident')]_vars
    BY StepSound
  <1> QED BY <1>1, LodInvHolds, PTL DEF Spec, CoverageKept

==============================================================================
