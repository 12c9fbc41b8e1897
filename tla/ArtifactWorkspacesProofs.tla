------------------------ MODULE ArtifactWorkspacesProofs ------------------------
(***************************************************************************)
(* Theorems about ArtifactWorkspaces: an artifact can be restored for ever, *)
(* a stage computes from its inputs as they are, and work is kept until it  *)
(* is published.                                                           *)
(***************************************************************************)
EXTENDS ArtifactWorkspaces, TLAPS

-----------------------------------------------------------------------------
(* The invariant.                                                          *)

\* A Pod is at work in its workspace directory.
Works(p) == pod[p].at \in {"load", "restore", "compute", "publish", "put", "clean", "failing"}

\* The parent that a manifest of the run has.
ParentOf(r) == IF Kind[r] = "overlay" THEN Binding(r) ELSE None

\* The rows: an artifact is bound once, of a run that has an upstream artifact,
\* and what was published without a Pod beside is final.
Bound(r) ==
    /\ Upstream[r] # None => artifact[Upstream[r]] # None
    /\ artifact[r] # None => status[r] \in {"success", "failed"}
Final(r) ==
    /\ status[r] = "success" /\ PodsOf(r) = {}
    /\ manifest[r] = artifact[r] /\ made[r] = Resolved(artifact[r])
RowInv(r) ==
    /\ status[r] = "absent" => artifact[r] = None /\ manifest[r] = None
    /\ status[r] # "absent" => Bound(r)
    /\ status[r] = "success" => artifact[r] # None
    /\ artifact[r] # None => artifact[r].parent = ParentOf(r)
    /\ artifact[r] # None /\ r \notin beside => Final(r)

\* A run has one Pod, and a directory one Pod at work.
PodInv(p) ==
    /\ pod[p].run = None => pod[p] = Idle
    /\ pod[p].run # None => /\ status[pod[p].run] # "absent"
                            /\ \A q \in Pods : pod[q].run = pod[p].run => q = p
    /\ pod[p].at \in {"load", "restore"} => Upstream[pod[p].run] # None
    /\ pod[p].at \in {"prepare", "load", "restore", "compute"} => pod[p].files = NoFiles
    /\ Works(p) /\ Kind[pod[p].run] # "overlay" => holder[Workspace(pod[p].run)] = p

\* The cache vouches for what is there.
CacheInv ==
    \A d \in Runs, q \in Paths :
        file[d][q] # None => file[d][q].vouched \in {None, file[d][q].is}

\* What is being restored, and what is being published.
InputsInv(p) ==
    LET r == pod[p].run
    IN pod[p].at = "restore" =>
         /\ pod[p].todo \subseteq Managed(r)
         /\ \A q \in Paths :
              IF q \in Managed(r)
              THEN q \notin pod[p].todo =>
                     ContentOf(Here(r)[q]) = Resolved(artifact[Upstream[r]])[q]
              ELSE Reuses[r] # None => Here(r)[q] = None

Sent(r, files, q) == Entries(r, files)[q] # None => blob[files[q]] # None
OutputInv(p) ==
    LET r == pod[p].run
    IN /\ pod[p].at \in {"publish", "put"} =>
            \A q \in Paths :
              /\ ContentOf(Here(r)[q]) = pod[p].work[q]
              /\ IF q \in pod[p].todo
                 THEN pod[p].work[q] # None /\ pod[p].files[q] \in {None, pod[p].work[q]}
                 ELSE pod[p].files[q] = pod[p].work[q] /\ Sent(r, pod[p].files, q)
       /\ pod[p].at \in {"clean", "commit"} =>
            pod[p].files = pod[p].work /\ manifest[r] = Manifest(r, pod[p].files)

\* A manifest object has its blobs, and the collector never wants one of them.
ManifestInv(r) ==
    manifest[r] # None =>
        /\ manifest[r].parent = ParentOf(r)
        /\ \A q \in Paths : manifest[r].files[q] # None => blob[manifest[r].files[q]] # None
CollectInv == collector # AtRest => Quiescent /\ collector \cap Marked = {}

Inv ==
    /\ WorkspaceTypeOK /\ CacheInv /\ CollectInv /\ WorkKeptUntilPublished
    /\ \A r \in Runs : RowInv(r) /\ ManifestInv(r)
    /\ \A p \in Pods : PodInv(p) /\ InputsInv(p) /\ OutputInv(p)

-----------------------------------------------------------------------------
(* Types. *)

\* The kinds and the relatives of a run.
LEMMA RunFacts ==
  ASSUME NEW r \in Runs
  PROVE  /\ Kind[r] \in {"workspace", "product", "overlay"}
         /\ Upstream[r] \in Runs \cup {None} /\ Reuses[r] \in Runs \cup {None}
         /\ Workspace(r) \in Runs /\ r # None
         /\ Kind[r] = "overlay" => Workspace(r) = r /\ Upstream[r] \in Runs
         /\ Workspace(r) # r => Kind[Workspace(r)] # "overlay"
         /\ Selected[r] \subseteq Paths
  BY WorkspacesAssumption, NoneAssumption DEF Workspace

\* What a manifest and those below it name.
LEMMA ResolvedType ==
  ASSUME NEW m \in Manifests
  PROVE  /\ Resolved(m) \in Inventories
         /\ m # None /\ m.files \in Inventories
  BY NoneAssumption DEF Resolved, Manifests, Bindings, PlainManifests, Inventories, Overlaid

\* A run that exists restores an artifact, and what is laid over one is bound to it.
LEMMA Inputs ==
  ASSUME Inv, NEW r \in Runs, status[r] # "absent", Upstream[r] # None
  PROVE  /\ Upstream[r] \in Runs /\ artifact[Upstream[r]] \in Manifests
         /\ Resolved(artifact[Upstream[r]]) \in Inventories
         /\ Managed(r) \subseteq Paths
         /\ Kind[r] = "overlay" =>
              /\ artifact[Upstream[r]] \in PlainManifests
              /\ Binding(r) \in Bindings /\ Binding(r) # None
  <1>1. /\ Upstream[r] \in Runs
        /\ Kind[r] = "overlay" => Kind[Upstream[r]] # "overlay"
        /\ Selected[r] \subseteq Paths
    BY RunFacts, WorkspacesAssumption
  <1>2. artifact[Upstream[r]] \in Manifests /\ artifact[Upstream[r]].parent = ParentOf(Upstream[r])
    <2>1. RowInv(r) /\ RowInv(Upstream[r]) /\ artifact[Upstream[r]] \in Manifests \cup {None}
      BY <1>1 DEF Inv, WorkspaceTypeOK
    <2> QED BY <2>1 DEF RowInv, Bound
  <1>3. Resolved(artifact[Upstream[r]]) \in Inventories
    BY <1>2, ResolvedType
  <1>4. ASSUME Kind[r] = "overlay"
        PROVE  artifact[Upstream[r]] \in PlainManifests
    <2>1. artifact[Upstream[r]].parent = None
      BY <1>1, <1>2, <1>4 DEF ParentOf
    <2> QED BY <1>2, <2>1 DEF Manifests, PlainManifests
  <1>5. ASSUME Kind[r] = "overlay"
        PROVE  Binding(r) \in Bindings /\ Binding(r) # None
    <2>1. Binding(r) \in Bindings
      BY <1>1, <1>4, <1>5 DEF Binding, Bindings
    <2> QED BY <2>1, NoneAssumption
  <1> QED BY <1>1, <1>2, <1>3, <1>4, <1>5 DEF Managed

\* The entries and the manifest that a publication of the run makes.
LEMMA ManifestType ==
  ASSUME Inv, NEW r \in Runs, status[r] # "absent", NEW files \in Inventories
  PROVE  /\ Entries(r, files) \in Inventories
         /\ Manifest(r, files) \in Manifests /\ Manifest(r, files).files = Entries(r, files)
         /\ Manifest(r, files).parent = ParentOf(r)
  <1>1. Entries(r, files) \in Inventories
    <2>1. CASE Kind[r] # "overlay"
      BY <2>1 DEF Entries
    <2>2. CASE Kind[r] = "overlay"
      BY <2>2 DEF Entries, Inventories
    <2> QED BY <2>1, <2>2
  <1>2. ParentOf(r) \in Bindings \cup {None}
    BY Inputs, RunFacts, NoneAssumption DEF ParentOf
  <1>3. Manifest(r, files) = [files |-> Entries(r, files), parent |-> ParentOf(r)]
    BY DEF Manifest, ParentOf
  <1> QED BY <1>1, <1>2, <1>3 DEF Manifests

\* The files of a workspace.
LEMMA HereType ==
  ASSUME WorkspaceTypeOK, NEW r \in Runs
  PROVE  /\ Here(r) \in [Paths -> FileRows \cup {None}]
         /\ Snapshot(r) \in Inventories
         /\ \A q \in Paths : /\ ContentOf(Here(r)[q]) \in Contents \cup {None}
                             /\ Snapshot(r)[q] = ContentOf(Here(r)[q])
                             /\ ContentOf(Here(r)[q]) = None <=> Here(r)[q] = None
  <1>1. Here(r) \in [Paths -> FileRows \cup {None}]
    BY RunFacts DEF Here, WorkspaceTypeOK
  <1>2. \A q \in Paths : /\ ContentOf(Here(r)[q]) \in Contents \cup {None}
                         /\ ContentOf(Here(r)[q]) = None <=> Here(r)[q] = None
    BY <1>1, NoneAssumption DEF ContentOf, FileRows
  <1> QED BY <1>1, <1>2 DEF Snapshot, Inventories

\* A Pod that is doing something does it for a run that exists.
LEMMA PodFacts ==
  ASSUME Inv, NEW p \in Pods
  PROVE  /\ pod[p] \in PodRows /\ PodInv(p) /\ InputsInv(p) /\ OutputInv(p)
         /\ pod[p].run = None <=> pod[p] = Idle
         /\ pod[p].at # "none" =>
              /\ pod[p].run \in Runs /\ status[pod[p].run] # "absent"
              /\ RowInv(pod[p].run) /\ ManifestInv(pod[p].run)
              /\ PodsOf(pod[p].run) = {p}
  <1>1. pod[p] \in PodRows /\ PodInv(p) /\ InputsInv(p) /\ OutputInv(p)
    BY DEF Inv, WorkspaceTypeOK
  <1>2. Idle.run = None /\ Idle.at = "none"
    BY DEF Idle
  <1>3. pod[p].at # "none" => pod[p].run \in Runs /\ status[pod[p].run] # "absent"
    BY <1>1, <1>2 DEF PodInv, PodRows
  <1>4. pod[p].at # "none" => PodsOf(pod[p].run) = {p}
    BY <1>1, <1>3, NoneAssumption DEF PodInv, PodsOf
  <1> QED BY <1>1, <1>2, <1>3, <1>4 DEF PodInv, Inv

\* Who is doing nothing, and what a Pod is in a place.
LEMMA IdleFacts == /\ Idle \in PodRows /\ Idle.run = None /\ Idle.at = "none"
                   /\ NoFiles \in Inventories /\ \A q \in Paths : NoFiles[q] = None
  BY DEF Idle, PodRows, Positions, Inventories, NoFiles

\* The types of the rows after a step of the control plane or the maintenance.
LEMMA OthersType ==
  ASSUME Inv, NEW r \in Runs, CreateRun(r) \/ Halt(r) \/ PublishByHand(r)
  PROVE  WorkspaceTypeOK'
  <1>1. WorkspaceTypeOK
    BY DEF Inv
  <1>2. CASE CreateRun(r)
    BY <1>1, <1>2 DEF WorkspaceTypeOK, CreateRun, store, local, AtRest
  <1>3. CASE Halt(r)
    BY <1>1, <1>3 DEF WorkspaceTypeOK, Halt, store, local, AtRest
  <1>4. CASE PublishByHand(r)
    <2>1. manifest[r] \in Manifests
      BY <1>1, <1>4 DEF WorkspaceTypeOK, PublishByHand
    <2>2. Resolved(manifest[r]) \in Inventories
      BY <2>1, ResolvedType
    <2> QED BY <1>1, <1>4, <2>1, <2>2 DEF WorkspaceTypeOK, PublishByHand, store, local, AtRest
  <1> QED BY <1>2, <1>3, <1>4

LEMMA CollectionType ==
  ASSUME WorkspaceTypeOK, CollectBegin \/ CollectBlob \/ CollectEnd \/ Age
  PROVE  WorkspaceTypeOK'
  <1>1. CASE CollectBegin
    BY <1>1 DEF WorkspaceTypeOK, CollectBegin, rows, store, local, AtRest
  <1>2. CASE CollectBlob
    <2>1. PICK c \in collector : /\ blob' = [blob EXCEPT ![c] = None]
                                 /\ collector' = collector \ {c}
      BY <1>2 DEF CollectBlob
    <2>2. collector \subseteq Contents
      BY <1>2 DEF WorkspaceTypeOK, CollectBlob
    <2>3. blob' \in [Contents -> BlobRows \cup {None}]
      BY <2>1, <2>2 DEF WorkspaceTypeOK
    <2>4. \A x \in Contents : blob'[x] # None => blob'[x].is = x
      BY <2>1, <2>2 DEF WorkspaceTypeOK
    <2>5. collector' \subseteq Contents
      BY <2>1, <2>2
    <2> QED BY <1>2, <2>3, <2>4, <2>5 DEF WorkspaceTypeOK, CollectBlob, rows, local
  <1>3. CASE CollectEnd
    BY <1>3 DEF WorkspaceTypeOK, CollectEnd, rows, store, local, AtRest
  <1>4. CASE Age
    <2>1. blob' = [c \in Contents |-> IF blob[c] = None THEN None ELSE [blob[c] EXCEPT !.old = TRUE]]
      BY <1>4 DEF Age
    <2>2. \A c \in Contents : blob[c] # None => blob[c] \in BlobRows
      BY DEF WorkspaceTypeOK
    <2>3. \A c \in Contents : blob[c] # None =>
             [blob[c] EXCEPT !.old = TRUE] \in BlobRows /\ [blob[c] EXCEPT !.old = TRUE].is = blob[c].is
      BY <2>2 DEF BlobRows
    <2>4. blob' \in [Contents -> BlobRows \cup {None}]
      BY <2>1, <2>3
    <2>5. \A c \in Contents : blob'[c] # None => blob'[c].is = c
      BY <2>1, <2>3 DEF WorkspaceTypeOK
    <2> QED BY <1>4, <2>4, <2>5 DEF WorkspaceTypeOK, Age, rows, local, AtRest
  <1> QED BY <1>1, <1>2, <1>3, <1>4

\* A Pod that moves on within its run.
LEMMA GoType ==
  ASSUME WorkspaceTypeOK, NEW p \in Pods, NEW at \in Positions, NEW todo \in SUBSET Paths,
         Go(p, at, todo)
  PROVE  /\ pod' \in [Pods -> PodRows]
         /\ \A q \in Pods \ {p} : pod'[q] = pod[q]
         /\ pod'[p].at = at /\ pod'[p].todo = todo /\ pod'[p].run = pod[p].run
         /\ pod'[p].files = pod[p].files /\ pod'[p].work = pod[p].work
  <1>1. pod \in [Pods -> PodRows] /\ pod[p] \in PodRows
    BY DEF WorkspaceTypeOK
  <1>2. PICK row \in PodRows : /\ row.at = at /\ row.todo = todo /\ row.run = pod[p].run
                               /\ row.files = pod[p].files /\ row.work = pod[p].work
                               /\ pod' = [pod EXCEPT ![p] = row]
    <2> DEFINE row == [pod[p] EXCEPT !.at = at, !.todo = todo]
    <2>1. /\ row \in PodRows /\ row.at = at /\ row.todo = todo /\ row.run = pod[p].run
          /\ row.files = pod[p].files /\ row.work = pod[p].work
      BY <1>1 DEF PodRows
    <2>2. pod' = [pod EXCEPT ![p] = row]
      BY <1>1 DEF Go
    <2> HIDE DEF row
    <2> QED BY <2>1, <2>2
  <1> QED BY <1>1, <1>2

LEMMA RaiseType ==
  ASSUME WorkspaceTypeOK, NEW p \in Pods, Raise(p)
  PROVE  /\ pod' \in [Pods -> PodRows]
         /\ \A q \in Pods \ {p} : pod'[q] = pod[q]
         /\ pod'[p].at = "failing" /\ pod'[p].run = pod[p].run
  BY GoType DEF Raise, Positions

\* The types after a step of a Pod that restores or computes.
LEMMA RestoringType ==
  ASSUME Inv, NEW p \in Pods,
         Prepare(p) \/ Load(p) \/ RestoreFile(p) \/ Restored(p) \/ Compute(p) \/ HandlerFails(p)
  PROVE  WorkspaceTypeOK'
  <1>0. WorkspaceTypeOK /\ pod[p] \in PodRows
    BY PodFacts DEF Inv
  <1>1. pod[p].at # "none"
    BY DEF Prepare, Load, RestoreFile, Restored, Compute, HandlerFails
  <1> DEFINE r == pod[p].run
             d == Workspace(r)
  <1>2. r \in Runs /\ d \in Runs /\ status[r] # "absent"
    BY <1>1, PodFacts, RunFacts
  <1> HIDE DEF r, d
  <1>3. CASE Prepare(p)
    <2>1. pod' \in [Pods -> PodRows]
      BY <1>0, <1>3, GoType DEF Prepare, Positions
    <2>2. dir' \in [Runs -> {"unmade", "kept", "removed"}] /\ holder' \in [Runs -> Pods \cup {None}]
      <3>1. /\ dir \in [Runs -> {"unmade", "kept", "removed"}]
            /\ holder \in [Runs -> Pods \cup {None}]
        BY <1>0 DEF WorkspaceTypeOK
      <3>2. /\ dir' = dir \/ dir' = [dir EXCEPT ![d] = "kept"]
            /\ holder' = holder \/ holder' = [holder EXCEPT ![d] = p]
        BY <1>3 DEF Prepare, local, d, r
      <3> QED BY <1>2, <3>1, <3>2
    <2>3. file' \in [Runs -> [Paths -> FileRows \cup {None}]]
      BY <1>0, <1>2, <1>3 DEF Prepare, WorkspaceTypeOK, local, d, r, NoFiles
    <2> QED BY <1>0, <1>3, <2>1, <2>2, <2>3 DEF Prepare, WorkspaceTypeOK, rows, store, AtRest
  <1>4. CASE Load(p)
    <2>0. Managed(r) \subseteq Paths
      BY <1>2, RunFacts DEF Managed
    <2>1. pod' \in [Pods -> PodRows]
      BY <1>0, <1>4, <2>0, GoType, RaiseType DEF Load, Positions, r
    <2>2. Pruned(r) \in [Paths -> FileRows \cup {None}]
      BY <1>0, <1>2, HereType DEF Pruned
    <2>3. file' \in [Runs -> [Paths -> FileRows \cup {None}]]
      BY <1>0, <1>2, <1>4, <2>2 DEF Load, WorkspaceTypeOK, r
    <2> QED BY <1>0, <1>4, <2>1, <2>3 DEF Load, WorkspaceTypeOK, rows, store, AtRest
  <1>5. CASE RestoreFile(p)
    <2>1. PICK q \in pod[p].todo, cached \in BOOLEAN :
            LET c == Resolved(artifact[Upstream[r]])[q]
                f == file[d][q]
            IN IF Reusable(f, c) \/ Fetchable(c)
               THEN /\ file' = [file EXCEPT ![d][q] =
                           IF f # None /\ Vouched(f) = c THEN f
                           ELSE Verified(c, cached /\ Kind[r] # "overlay")]
                    /\ Go(p, "restore", pod[p].todo \ {q})
               ELSE Raise(p) /\ UNCHANGED file
      BY <1>5 DEF RestoreFile, r, d
    <2> DEFINE c == Resolved(artifact[Upstream[r]])[q]
               f == file[d][q]
    <2>2. q \in Paths /\ q \in Managed(r) /\ Upstream[r] # None
      BY <1>0, <1>5, PodFacts DEF PodRows, RestoreFile, InputsInv, PodInv, r
    <2>3. c \in Contents
      BY <1>2, <2>2, Inputs DEF Managed, Inventories
    <2>4. f \in FileRows \cup {None}
      BY <1>0, <1>2, <2>2 DEF WorkspaceTypeOK
    <2> HIDE DEF c
    <2>5. Verified(c, cached /\ Kind[r] # "overlay") \in FileRows
      BY <2>3 DEF Verified, FileRows
    <2>6. pod' \in [Pods -> PodRows]
      <3>1. pod[p].todo \ {q} \in SUBSET Paths /\ "restore" \in Positions
        BY <1>0 DEF PodRows, Positions
      <3> QED BY <1>0, <2>1, <3>1, GoType, RaiseType DEF c
    <2>7. file' \in [Runs -> [Paths -> FileRows \cup {None}]]
      <3>1. ASSUME NEW g \in FileRows \cup {None}, file' = [file EXCEPT ![d][q] = g]
            PROVE  file' \in [Runs -> [Paths -> FileRows \cup {None}]]
        BY <1>0, <1>2, <2>2, <3>1 DEF WorkspaceTypeOK
      <3>2. \/ UNCHANGED file
            \/ file' = [file EXCEPT ![d][q] = f]
            \/ file' = [file EXCEPT ![d][q] = Verified(c, cached /\ Kind[r] # "overlay")]
        BY <2>1 DEF c
      <3>3. CASE UNCHANGED file
        BY <1>0, <3>3 DEF WorkspaceTypeOK
      <3> HIDE DEF f
      <3> QED BY <2>4, <2>5, <3>1, <3>2, <3>3
    <2> QED BY <1>0, <1>5, <2>6, <2>7 DEF RestoreFile, WorkspaceTypeOK, rows, store, AtRest
  <1>6. CASE Restored(p)
    BY <1>0, <1>6, GoType DEF Restored, KeepAll, WorkspaceTypeOK, rows, store, local, Positions, AtRest
  <1>7. CASE Compute(p)
    <2>1. PICK q \in Paths, c \in Contents :
             file' = [file EXCEPT ![d][q] = Written(file[d][q], c)]
      BY <1>7 DEF Compute, d, r
    <2>2. Written(file[d][q], c) \in FileRows
      BY DEF Written, FileRows
    <2>3. file' \in [Runs -> [Paths -> FileRows \cup {None}]]
      BY <1>0, <1>2, <2>1, <2>2 DEF WorkspaceTypeOK
    <2> QED BY <1>0, <1>7, <2>3 DEF Compute, WorkspaceTypeOK, rows, store, AtRest
  <1>8. CASE HandlerFails(p)
    BY <1>0, <1>8, RaiseType DEF HandlerFails, KeepAll, WorkspaceTypeOK, rows, store, local, AtRest
  <1> QED BY <1>3, <1>4, <1>5, <1>6, <1>7, <1>8

\* The types after a step of a Pod that publishes or ends.
LEMMA PublishingType ==
  ASSUME Inv, NEW p \in Pods,
         \/ PublishBegin(p) \/ HashFile(p) \/ Put(p) \/ UploadManifest(p) \/ Clean(p)
         \/ Commit(p) \/ RecordFailure(p) \/ Kill(p)
  PROVE  WorkspaceTypeOK'
  <1>0. WorkspaceTypeOK /\ pod[p] \in PodRows
    BY PodFacts DEF Inv
  <1>1. pod[p] # Idle
    BY IdleFacts DEF PublishBegin, HashFile, Put, UploadManifest, Clean, Commit, RecordFailure, Kill
  <1> DEFINE r == pod[p].run
             d == Workspace(r)
             files == pod[p].files
  <1>2. r \in Runs /\ d \in Runs /\ (pod[p].at # "none" => status[r] # "absent")
    BY <1>0, <1>1, PodFacts, RunFacts DEF PodRows
  <1>3. files \in Inventories /\ pod[p].work \in Inventories /\ pod[p].todo \in SUBSET Paths
    BY <1>0 DEF PodRows
  <1>4. pod[p].at # "none" => Manifest(r, files) \in Manifests
    BY <1>2, <1>3, ManifestType
  <1>5. holder \in [Runs -> Pods \cup {None}] /\
        [x \in Runs |-> IF holder[x] = p THEN None ELSE holder[x]] \in [Runs -> Pods \cup {None}]
    BY <1>0 DEF WorkspaceTypeOK
  <1>6. [pod EXCEPT ![p] = Idle] \in [Pods -> PodRows]
    BY <1>0, IdleFacts DEF WorkspaceTypeOK
  <1> HIDE DEF r, d, files
  <1>7. CASE PublishBegin(p)
    <2>1. Included(r) \in SUBSET Paths /\ Snapshot(r) \in Inventories
      BY <1>0, <1>2, HereType DEF Included
    <2>2. CASE pod' = [pod EXCEPT ![p].at = "publish", ![p].todo = Included(r), ![p].work = Snapshot(r)]
      <3>1. pod' \in [Pods -> PodRows]
        BY <1>0, <2>1, <2>2 DEF WorkspaceTypeOK, PodRows, Positions
      <3> QED BY <1>0, <1>7, <3>1 DEF PublishBegin, KeepAll, WorkspaceTypeOK, rows, store, local, AtRest
    <2>3. CASE Raise(p)
      BY <1>0, <1>7, <2>3, RaiseType
         DEF PublishBegin, KeepAll, WorkspaceTypeOK, rows, store, local, AtRest
    <2> QED BY <1>7, <2>2, <2>3 DEF PublishBegin, r
  <1>8. CASE HashFile(p)
    <2>1. PICK q \in pod[p].todo :
            LET c    == ContentOf(Here(r)[q])
                held == blob[c] # None \/ Entries(r, [NoFiles EXCEPT ![q] = c])[q] = None
            IN IF c = None THEN Raise(p)
               ELSE pod' = [pod EXCEPT ![p].files[q] = c,
                                       ![p].at = IF held THEN "publish" ELSE "put",
                                       ![p].todo = IF held THEN @ \ {q} ELSE @]
      BY <1>8 DEF HashFile, r
    <2>2. q \in Paths
      BY <1>3
    <2>3. ContentOf(Here(r)[q]) \in Contents \cup {None}
      BY <1>0, <1>2, <2>2, HereType
    <2>4. CASE Raise(p)
      BY <1>0, <1>8, <2>4, RaiseType
         DEF HashFile, KeepAll, WorkspaceTypeOK, rows, store, local, AtRest
    <2>5. ASSUME NEW at \in {"publish", "put"}, NEW todo \in {pod[p].todo, pod[p].todo \ {q}},
                 NEW c \in Contents \cup {None},
                 pod' = [pod EXCEPT ![p].files[q] = c, ![p].at = at, ![p].todo = todo]
          PROVE  WorkspaceTypeOK'
      <3>1. pod' \in [Pods -> PodRows]
        <4>1. todo \in SUBSET Paths /\ at \in Positions
          BY <1>3 DEF Positions
        <4>2. [files EXCEPT ![q] = c] \in Inventories
          BY <1>3, <2>2 DEF Inventories
        <4>3. pod' = [pod EXCEPT ![p] = [pod[p] EXCEPT !.files = [files EXCEPT ![q] = c],
                                                       !.at = at, !.todo = todo]]
          BY <1>0, <2>5 DEF files, WorkspaceTypeOK
        <4> QED BY <1>0, <4>1, <4>2, <4>3 DEF WorkspaceTypeOK, PodRows
      <3> QED BY <1>0, <1>8, <3>1
              DEF HashFile, KeepAll, WorkspaceTypeOK, rows, store, local, AtRest
    <2>6. CASE ContentOf(Here(r)[q]) # None
      BY <2>1, <2>3, <2>5, <2>6
    <2> QED BY <2>1, <2>4, <2>6
  <1>9. CASE Put(p)
    <2>1. PICK q \in {x \in pod[p].todo : files[x] # None} :
            /\ Here(r)[q] # None
            /\ blob' = IF blob[files[q]] # None THEN blob
                       ELSE [blob EXCEPT ![files[q]] = [is |-> ContentOf(Here(r)[q]), old |-> FALSE]]
            /\ Go(p, "publish", pod[p].todo \ {q}) \/ Raise(p)
      BY <1>9 DEF Put, r, files
    <2>2. q \in Paths /\ files[q] \in Contents /\ ContentOf(Here(r)[q]) = files[q]
      <3>1. OutputInv(p) /\ q \in Paths
        BY <1>3, PodFacts
      <3> QED BY <1>3, <1>9, <2>1, <3>1 DEF Put, OutputInv, Inventories, r, files
    <2>3. [is |-> files[q], old |-> FALSE] \in BlobRows
      BY <2>2 DEF BlobRows
    <2>4. /\ blob' \in [Contents -> BlobRows \cup {None}]
          /\ \A c \in Contents : blob'[c] # None => blob'[c].is = c
      BY <1>0, <2>1, <2>2, <2>3 DEF WorkspaceTypeOK
    <2>5. pod' \in [Pods -> PodRows]
      <3>1. pod[p].todo \ {q} \in SUBSET Paths /\ "publish" \in Positions
        BY <1>3 DEF Positions
      <3> QED BY <1>0, <2>1, <3>1, GoType, RaiseType
    <2> QED BY <1>0, <1>9, <2>4, <2>5 DEF Put, WorkspaceTypeOK, rows, local, AtRest
  <1>10. CASE UploadManifest(p)
    <2>1. pod' \in [Pods -> PodRows]
      BY <1>0, <1>10, GoType, RaiseType DEF UploadManifest, Positions
    <2>2. manifest' \in [Runs -> Manifests \cup {None}]
      BY <1>0, <1>2, <1>4, <1>10 DEF UploadManifest, WorkspaceTypeOK, Key, r, files
    <2> QED BY <1>0, <1>10, <2>1, <2>2 DEF UploadManifest, WorkspaceTypeOK, rows, local, AtRest
  <1>11. CASE Clean(p)
    <2>1. pod' \in [Pods -> PodRows]
      BY <1>0, <1>11 DEF Clean, WorkspaceTypeOK, PodRows, Positions
    <2>2. dir' \in [Runs -> {"unmade", "kept", "removed"}]
      BY <1>0, <1>11, <1>2 DEF Clean, WorkspaceTypeOK, d, r
    <2>3. file' \in [Runs -> [Paths -> FileRows \cup {None}]]
      BY <1>0, <1>11, <1>2 DEF Clean, WorkspaceTypeOK, NoFiles, d, r
    <2> QED BY <1>0, <1>5, <1>11, <2>1, <2>2, <2>3 DEF Clean, WorkspaceTypeOK, rows, store, AtRest
  <1>12. CASE Commit(p)
    <2>1. pod' \in [Pods -> PodRows]
      BY <1>0, <1>6, <1>12, GoType DEF Commit, Positions
    <2>2. CASE UNCHANGED rows
      BY <1>0, <1>12, <2>1, <2>2 DEF Commit, WorkspaceTypeOK, rows, store, local, AtRest
    <2>3. CASE ~UNCHANGED rows
      <3>0. /\ status' = [status EXCEPT ![r] = "success"]
            /\ artifact' = [artifact EXCEPT ![r] = Manifest(r, files)]
            /\ pod[p].at # "none"
        BY <1>12, <2>3 DEF Commit, r, files
      <3>1. /\ artifact' \in [Runs -> Manifests \cup {None}]
            /\ status' \in [Runs -> {"absent", "running", "success", "failed"}]
        BY <1>0, <1>2, <1>4, <3>0 DEF WorkspaceTypeOK
      <3>2. Kind[r] = "overlay" => Overlaid(Resolved(artifact[Upstream[r]]), pod[p].work) \in Inventories
        <4>1. Kind[r] = "overlay" => Resolved(artifact[Upstream[r]]) \in Inventories
          BY <1>2, <1>12, Inputs, RunFacts, NoneAssumption DEF Commit
        <4> QED BY <1>3, <4>1 DEF Overlaid, Inventories
      <3>3. made' \in [Runs -> Inventories \cup {None}] /\ beside' \subseteq Runs
        BY <1>0, <1>2, <1>3, <1>12, <2>3, <3>2 DEF Commit, WorkspaceTypeOK, r
      <3> QED BY <1>0, <1>12, <2>1, <3>1, <3>3 DEF Commit, WorkspaceTypeOK, store, local, AtRest
    <2> QED BY <2>2, <2>3
  <1>13. CASE RecordFailure(p)
    BY <1>0, <1>6, <1>13 DEF RecordFailure, WorkspaceTypeOK, store, local, AtRest
  <1>14. CASE Kill(p)
    BY <1>0, <1>5, <1>6, <1>14 DEF Kill, WorkspaceTypeOK, rows, store, AtRest
  <1> QED BY <1>7, <1>8, <1>9, <1>10, <1>11, <1>12, <1>13, <1>14

\* The types are kept.
LEMMA TypeNext == ASSUME Inv, [Next]_vars PROVE WorkspaceTypeOK'
  <1>0. WorkspaceTypeOK
    BY DEF Inv
  <1>1. ASSUME NEW p \in Pods, NEW r \in Runs, StartPod(p, r)
        PROVE  WorkspaceTypeOK'
    <2>1. [Idle EXCEPT !.at = "prepare", !.run = r] \in PodRows
      BY IdleFacts DEF PodRows, Positions
    <2>2. pod' \in [Pods -> PodRows] /\ starts' \in 0..MaxStarts
      BY <1>0, <1>1, <2>1, WorkspacesAssumption DEF StartPod, WorkspaceTypeOK
    <2> QED BY <1>0, <1>1, <2>2 DEF StartPod, WorkspaceTypeOK, rows, store, local, AtRest
  <1>2. CASE UNCHANGED vars
    BY <1>0, <1>2 DEF vars, rows, store, local, WorkspaceTypeOK, AtRest
  <1> QED BY <1>0, <1>1, <1>2, OthersType, CollectionType, RestoringType, PublishingType
          DEF Next, PodStep


-----------------------------------------------------------------------------
(* What a step leaves alone. *)

\* An artifact row is written once.
LEMMA ArtifactStays ==
  ASSUME Inv, [Next]_vars, NEW r \in Runs, artifact[r] # None
  PROVE  artifact'[r] = artifact[r]
  <1>1. RowInv(r) /\ artifact \in [Runs -> Manifests \cup {None}]
    BY DEF Inv, WorkspaceTypeOK
  <1>2. status[r] # "running"
    BY <1>1 DEF RowInv, Bound
  <1>3. ASSUME NEW x \in Runs, CreateRun(x) \/ Halt(x)
        PROVE  UNCHANGED artifact
    BY <1>3 DEF CreateRun, Halt
  <1>4. ASSUME NEW x \in Runs, PublishByHand(x)
        PROVE  artifact'[r] = artifact[r]
    BY <1>1, <1>2, <1>4 DEF PublishByHand
  <1>5. ASSUME NEW p \in Pods, NEW x \in Runs, StartPod(p, x)
        PROVE  UNCHANGED artifact
    BY <1>5 DEF StartPod, rows
  <1>6. ASSUME NEW p \in Pods, PodStep(p)
        PROVE  artifact'[r] = artifact[r]
    <2>1. CASE Commit(p)
      BY <1>1, <1>2, <2>1 DEF Commit, rows
    <2> QED BY <1>6, <2>1
            DEF PodStep, Prepare, Load, RestoreFile, Restored, Compute, HandlerFails, PublishBegin,
                HashFile, Put, UploadManifest, Clean, RecordFailure, Kill, rows, KeepAll
  <1>7. ASSUME CollectBegin \/ CollectBlob \/ CollectEnd \/ Age \/ UNCHANGED vars
        PROVE  UNCHANGED artifact
    BY <1>7 DEF CollectBegin, CollectBlob, CollectEnd, Age, vars, rows
  <1> QED BY <1>3, <1>4, <1>5, <1>6, <1>7 DEF Next

\* A run that exists goes on existing, and what it restores and lays its work over
\* stays what it is.
LEMMA StatusStays ==
  ASSUME Inv, [Next]_vars, NEW r \in Runs, status[r] # "absent"
  PROVE  status'[r] # "absent"
  <1>1. status \in [Runs -> {"absent", "running", "success", "failed"}]
    BY DEF Inv, WorkspaceTypeOK
  <1>2. ASSUME NEW x \in Runs, CreateRun(x) \/ Halt(x) \/ PublishByHand(x)
        PROVE  status'[r] # "absent"
    BY <1>1, <1>2 DEF CreateRun, Halt, PublishByHand
  <1>3. ASSUME NEW p \in Pods, PodStep(p)
        PROVE  status'[r] # "absent"
    <2>1. CASE Commit(p)
      BY <1>1, <2>1 DEF Commit, rows
    <2>2. CASE RecordFailure(p)
      BY <1>1, <2>2 DEF RecordFailure
    <2> QED BY <1>3, <2>1, <2>2
            DEF PodStep, Prepare, Load, RestoreFile, Restored, Compute, HandlerFails, PublishBegin,
                HashFile, Put, UploadManifest, Clean, Kill, rows, KeepAll
  <1>4. ASSUME \/ CollectBegin \/ CollectBlob \/ CollectEnd \/ Age \/ UNCHANGED vars
               \/ \E p \in Pods, x \in Runs : StartPod(p, x)
        PROVE  UNCHANGED status
    BY <1>4 DEF CollectBegin, CollectBlob, CollectEnd, Age, vars, rows, StartPod
  <1> QED BY <1>2, <1>3, <1>4 DEF Next

LEMMA UpstreamStays ==
  ASSUME Inv, [Next]_vars, NEW r \in Runs, status[r] # "absent"
  PROVE  /\ Upstream[r] # None =>
              /\ artifact'[Upstream[r]] = artifact[Upstream[r]]
              /\ Managed(r)' = Managed(r)
         /\ ParentOf(r)' = ParentOf(r)
         /\ \A files : /\ Entries(r, files)' = Entries(r, files)
                       /\ Manifest(r, files)' = Manifest(r, files)
  <1>1. Upstream[r] # None => artifact'[Upstream[r]] = artifact[Upstream[r]]
    <2>1. Upstream[r] # None => Upstream[r] \in Runs /\ artifact[Upstream[r]] # None
      BY RunFacts DEF Inv, RowInv, Bound
    <2> QED BY <2>1, ArtifactStays
  <1>2. Kind[r] = "overlay" => artifact'[Upstream[r]] = artifact[Upstream[r]]
    BY <1>1, RunFacts, NoneAssumption
  <1>3. Binding(r)' = [key |-> Upstream[r], is |-> artifact'[Upstream[r]]]
    BY DEF Binding
  <1>4. ParentOf(r)' = ParentOf(r)
    BY <1>2, <1>3 DEF ParentOf, Binding
  <1>5. ASSUME NEW files
        PROVE  Entries(r, files)' = Entries(r, files)
    BY <1>2 DEF Entries, Resolved, Overlaid
  <1>6. ASSUME NEW files
        PROVE  Manifest(r, files)' = Manifest(r, files)
    BY <1>2, <1>5 DEF Manifest, Binding
  <1>7. Upstream[r] # None => Managed(r)' = Managed(r)
    BY <1>1 DEF Managed, Resolved, Overlaid
  <1> QED BY <1>1, <1>4, <1>5, <1>6, <1>7

\* The entries of a manifest are told path by path.
LEMMA EntryOf ==
  ASSUME NEW r, NEW files, NEW others, NEW q \in Paths, files[q] = others[q]
  PROVE  /\ Entries(r, files)[q] = Entries(r, others)[q]
         /\ Entries(r, files)[q] \in {None, files[q]}
  BY DEF Entries

\* A Pod is moved by its own steps and by being started.
LEMMA PodStays ==
  ASSUME Inv, [Next]_vars, NEW p \in Pods, ~PodStep(p), \A r \in Runs : ~StartPod(p, r)
  PROVE  pod'[p] = pod[p]
  <1>1. pod \in [Pods -> PodRows]
    BY DEF Inv, WorkspaceTypeOK
  <1>2. ASSUME NEW r \in Runs, CreateRun(r) \/ Halt(r) \/ PublishByHand(r)
        PROVE  UNCHANGED pod
    BY <1>2 DEF CreateRun, Halt, PublishByHand
  <1>3. ASSUME NEW q \in Pods, NEW r \in Runs, StartPod(q, r)
        PROVE  pod'[p] = pod[p]
    BY <1>1, <1>3 DEF StartPod
  <1>4. ASSUME NEW q \in Pods, PodStep(q)
        PROVE  pod'[p] = pod[p]
    <2>1. q # p
      BY <1>4
    <2>2. \E x : pod' = [pod EXCEPT ![q] = x]
      <3>1. pod[q] \in PodRows
        BY <1>1
      <3>2. ASSUME NEW at, NEW todo, Go(q, at, todo)
            PROVE  pod' = [pod EXCEPT ![q] = [pod[q] EXCEPT !.at = at, !.todo = todo]]
        BY <1>1, <3>1, <3>2 DEF Go
      <3>3. CASE Prepare(q) \/ Load(q) \/ RestoreFile(q) \/ Restored(q) \/ HandlerFails(q)
        BY <3>2, <3>3 DEF Prepare, Load, RestoreFile, Restored, HandlerFails, Raise
      <3>4. CASE Put(q) \/ UploadManifest(q)
        BY <3>2, <3>4 DEF Put, UploadManifest, Raise
      <3>5. CASE Compute(q)
        <4>1. pod' = [pod EXCEPT ![q] = pod[q]]
          BY <1>1, <3>5 DEF Compute
        <4> QED BY <4>1
      <3>6. CASE PublishBegin(q)
        <4>1. CASE Raise(q)
          BY <3>2, <4>1 DEF Raise
        <4>2. CASE ~Raise(q)
          <5>1. pod' = [pod EXCEPT ![q] = [pod[q] EXCEPT
                          !.at = "publish", !.todo = Included(pod[q].run), !.work = Snapshot(pod[q].run)]]
            BY <1>1, <3>1, <3>6, <4>2 DEF PublishBegin
          <5> QED BY <5>1
        <4> QED BY <4>1, <4>2
      <3>7. CASE HashFile(q)
        <4>1. CASE Raise(q)
          BY <3>2, <4>1 DEF Raise
        <4>2. CASE ~Raise(q)
          <5>1. PICK x \in pod[q].todo :
                 LET c    == ContentOf(Here(pod[q].run)[x])
                     held == blob[c] # None \/ Entries(pod[q].run, [NoFiles EXCEPT ![x] = c])[x] = None
                 IN pod' = [pod EXCEPT ![q].files[x] = c,
                                       ![q].at = IF held THEN "publish" ELSE "put",
                                       ![q].todo = IF held THEN @ \ {x} ELSE @]
            BY <3>7, <4>2 DEF HashFile
          <5> DEFINE c    == ContentOf(Here(pod[q].run)[x])
                     held == blob[c] # None \/ Entries(pod[q].run, [NoFiles EXCEPT ![x] = c])[x] = None
          <5>2. pod' = [pod EXCEPT ![q] = [pod[q] EXCEPT
                          !.files = [pod[q].files EXCEPT ![x] = c],
                          !.at = IF held THEN "publish" ELSE "put",
                          !.todo = IF held THEN pod[q].todo \ {x} ELSE pod[q].todo]]
            <6> HIDE DEF c, held
            <6>1. pod' = [pod EXCEPT ![q].files[x] = c,
                                     ![q].at = IF held THEN "publish" ELSE "put",
                                     ![q].todo = IF held THEN @ \ {x} ELSE @]
              BY <5>1 DEF c, held
            <6> QED BY <1>1, <3>1, <6>1 DEF PodRows
          <5> QED BY <5>2
        <4> QED BY <4>1, <4>2
      <3>8. CASE Clean(q)
        <4>1. pod' = [pod EXCEPT ![q] = [pod[q] EXCEPT
                        !.at = IF pod[q].at = "failing" THEN "record_failure" ELSE "commit"]]
          BY <1>1, <3>1, <3>8 DEF Clean
        <4> QED BY <4>1
      <3>9. CASE Commit(q) \/ RecordFailure(q) \/ Kill(q)
        BY <3>2, <3>9 DEF Commit, RecordFailure, Kill
      <3> QED BY <1>4, <3>3, <3>4, <3>5, <3>6, <3>7, <3>8, <3>9 DEF PodStep
    <2> QED BY <1>1, <2>1, <2>2
  <1>5. ASSUME CollectBegin \/ CollectBlob \/ CollectEnd \/ Age \/ UNCHANGED vars
        PROVE  UNCHANGED pod
    BY <1>5 DEF CollectBegin, CollectBlob, CollectEnd, Age, vars
  <1> QED BY <1>2, <1>3, <1>4, <1>5 DEF Next

\* Two Pods never work in one directory.
LEMMA Apart ==
  ASSUME Inv, NEW p \in Pods, NEW q \in Pods, p # q, Works(p),
         Works(q) \/ (pod[q].at = "prepare" /\ Kind[pod[q].run] = "overlay")
  PROVE  Workspace(pod[p].run) # Workspace(pod[q].run)
  <1>1. /\ pod[p].run \in Runs /\ pod[q].run \in Runs /\ pod[p].run # pod[q].run
        /\ PodInv(p) /\ PodInv(q)
    BY PodFacts DEF Works, PodsOf
  <1>2. CASE Kind[pod[p].run] # "overlay" /\ Kind[pod[q].run] # "overlay"
    BY <1>1, <1>2 DEF PodInv
  <1>3. CASE Kind[pod[p].run] = "overlay" \/ Kind[pod[q].run] = "overlay"
    BY <1>1, <1>3, RunFacts
  <1> QED BY <1>2, <1>3

\* Nobody else touches the files of a Pod at work.
LEMMA FilesStay ==
  ASSUME Inv, [Next]_vars, NEW p \in Pods, Works(p), ~PodStep(p)
  PROVE  Here(pod[p].run)' = Here(pod[p].run)
  <1>0. file \in [Runs -> [Paths -> FileRows \cup {None}]]
    BY DEF Inv, WorkspaceTypeOK
  <1> DEFINE d == Workspace(pod[p].run)
  <1>1. pod[p].run \in Runs /\ d \in Runs /\ \A r \in Runs : ~StartPod(p, r)
    BY PodFacts, RunFacts, IdleFacts DEF Works, StartPod
  <1>2. pod'[p] = pod[p]
    BY <1>1, PodStays
  <1>3. ASSUME NEW q \in Pods, PodStep(q)
        PROVE  file'[d] = file[d]
    <2> DEFINE e == Workspace(pod[q].run)
    <2>0. q # p
      BY <1>3
    <2>1. CASE UNCHANGED file
      BY <2>1
    <2>2. CASE ~UNCHANGED file
      <3>1. /\ Works(q) \/ (pod[q].at = "prepare" /\ Kind[pod[q].run] = "overlay")
            /\ \E x : file' = [file EXCEPT ![e] = x]
        <4>1. CASE Prepare(q)
          BY <2>2, <4>1 DEF Prepare, local
        <4>2. CASE Load(q)
          BY <2>2, <4>2 DEF Load, Works
        <4>3. CASE RestoreFile(q)
          <5>1. /\ pod[q].at = "restore"
                /\ \E x, g : file' = [file EXCEPT ![e][x] = g]
            BY <2>2, <4>3 DEF RestoreFile
          <5>2. PICK x, g : file' = [file EXCEPT ![e][x] = g]
            BY <5>1
          <5>3. file' = [file EXCEPT ![e] = [file[e] EXCEPT ![x] = g]]
            BY <1>0, <5>2
          <5> QED BY <5>1, <5>3 DEF Works
        <4>4. CASE Compute(q)
          <5>1. PICK x, g : file' = [file EXCEPT ![e][x] = g]
            BY <4>4 DEF Compute
          <5>2. file' = [file EXCEPT ![e] = [file[e] EXCEPT ![x] = g]]
            BY <1>0, <5>1
          <5> QED BY <4>4, <5>2 DEF Works, Compute
        <4>5. CASE Clean(q)
          BY <2>2, <4>5 DEF Clean, Works
        <4> QED BY <1>3, <2>2, <4>1, <4>2, <4>3, <4>4, <4>5
                DEF PodStep, Restored, HandlerFails, PublishBegin, HashFile, Put, UploadManifest,
                    Commit, RecordFailure, Kill, local, KeepAll
      <3>2. e # d
        BY <2>0, <3>1, Apart
      <3> QED BY <1>0, <1>1, <3>1, <3>2
    <2> QED BY <2>1, <2>2
  <1>4. ASSUME \/ CollectBegin \/ CollectBlob \/ CollectEnd \/ Age \/ UNCHANGED vars
               \/ \E r \in Runs : \/ CreateRun(r) \/ Halt(r) \/ PublishByHand(r)
                                  \/ \E q \in Pods : StartPod(q, r)
        PROVE  UNCHANGED file
    BY <1>4 DEF CollectBegin, CollectBlob, CollectEnd, Age, vars, CreateRun, Halt, PublishByHand,
                StartPod, local
  <1>5. file'[d] = file[d]
    BY <1>3, <1>4 DEF Next
  <1> QED BY <1>2, <1>5 DEF Here, Workspace

\* While a Pod is there, no blob goes; and a manifest object is replaced by the Pod
\* of its run.
LEMMA BlobStays ==
  ASSUME Inv, [Next]_vars, NEW c \in Contents, blob[c] # None, collector = AtRest \/ c \notin collector
  PROVE  blob'[c] # None
  <1>0. blob \in [Contents -> BlobRows \cup {None}]
    BY DEF Inv, WorkspaceTypeOK
  <1>1. CASE CollectBlob
    BY <1>0, <1>1 DEF CollectBlob
  <1>2. CASE Age
    <2>1. [blob[c] EXCEPT !.old = TRUE] \in BlobRows
      BY <1>0 DEF BlobRows
    <2>2. blob'[c] = [blob[c] EXCEPT !.old = TRUE]
      BY <1>2 DEF Age
    <2> QED BY <2>1, <2>2, NoneAssumption
  <1>3. ASSUME NEW p \in Pods, Put(p)
        PROVE  blob'[c] # None
    <2>1. PICK x, g : blob' = IF blob[x] # None THEN blob
                              ELSE [blob EXCEPT ![x] = [is |-> g, old |-> FALSE]]
      BY <1>3 DEF Put
    <2> QED BY <1>0, <2>1
  <1>4. ASSUME NEW p \in Pods, PodStep(p), ~Put(p)
        PROVE  UNCHANGED blob
    BY <1>4 DEF PodStep, Prepare, Load, RestoreFile, Restored, Compute, HandlerFails, PublishBegin,
                HashFile, UploadManifest, Clean, Commit, RecordFailure, Kill, store, KeepAll
  <1>5. ASSUME \/ CollectBegin \/ CollectEnd \/ UNCHANGED vars
               \/ \E r \in Runs : \/ CreateRun(r) \/ Halt(r) \/ PublishByHand(r)
                                  \/ \E q \in Pods : StartPod(q, r)
        PROVE  UNCHANGED blob
    BY <1>5 DEF CollectBegin, CollectEnd, vars, CreateRun, Halt, PublishByHand, StartPod, store
  <1> QED BY <1>1, <1>2, <1>3, <1>4, <1>5 DEF Next

LEMMA ManifestStays ==
  ASSUME Inv, [Next]_vars, NEW r \in Runs,
         \A p \in Pods : ~(UploadManifest(p) /\ pod[p].run = r)
  PROVE  manifest'[r] = manifest[r]
  <1>0. manifest \in [Runs -> Manifests \cup {None}]
    BY DEF Inv, WorkspaceTypeOK
  <1>1. ASSUME NEW p \in Pods, UploadManifest(p)
        PROVE  manifest'[r] = manifest[r]
    BY <1>0, <1>1 DEF UploadManifest, Key
  <1>2. ASSUME NEW p \in Pods, PodStep(p), ~UploadManifest(p)
        PROVE  UNCHANGED manifest
    BY <1>2 DEF PodStep, Prepare, Load, RestoreFile, Restored, Compute, HandlerFails, PublishBegin,
                HashFile, Put, Clean, Commit, RecordFailure, Kill, store, KeepAll
  <1>3. ASSUME \/ CollectBegin \/ CollectBlob \/ CollectEnd \/ Age \/ UNCHANGED vars
               \/ \E x \in Runs : \/ CreateRun(x) \/ Halt(x) \/ PublishByHand(x)
                                  \/ \E q \in Pods : StartPod(q, x)
        PROVE  UNCHANGED manifest
    BY <1>3 DEF CollectBegin, CollectBlob, CollectEnd, Age, vars, CreateRun, Halt, PublishByHand,
                StartPod, store
  <1> QED BY <1>1, <1>2, <1>3 DEF Next

\* A Pod stays with its run, or is gone.
LEMMA OwnStep ==
  ASSUME Inv, NEW p \in Pods, PodStep(p)
  PROVE  /\ pod[p].run \in Runs /\ pod[p] # Idle
         /\ pod'[p].run = pod[p].run \/ pod'[p] = Idle
  <1>1. pod \in [Pods -> PodRows] /\ pod[p] \in PodRows
    BY DEF Inv, WorkspaceTypeOK
  <1>2. pod[p] # Idle
    BY IdleFacts
       DEF PodStep, Prepare, Load, RestoreFile, Restored, Compute, HandlerFails, PublishBegin,
           HashFile, Put, UploadManifest, Clean, Commit, RecordFailure, Kill
  <1>3. pod[p].run \in Runs
    BY <1>1, <1>2, PodFacts DEF PodRows
  <1> SUFFICES pod'[p].run = pod[p].run \/ pod'[p] = Idle
    BY <1>2, <1>3
  <1>4. ASSUME NEW at, NEW todo, Go(p, at, todo)
        PROVE  pod'[p].run = pod[p].run
    BY <1>1, <1>4 DEF Go, PodRows
  <1>5. CASE Prepare(p) \/ Load(p) \/ RestoreFile(p) \/ Restored(p) \/ HandlerFails(p)
    BY <1>4, <1>5 DEF Prepare, Load, RestoreFile, Restored, HandlerFails, Raise
  <1>6. CASE Put(p) \/ UploadManifest(p)
    BY <1>4, <1>6 DEF Put, UploadManifest, Raise
  <1>7. CASE Compute(p) \/ Clean(p)
    BY <1>1, <1>7 DEF Compute, Clean, PodRows
  <1>8. CASE PublishBegin(p)
    BY <1>1, <1>4, <1>8 DEF PublishBegin, Raise, PodRows
  <1>9. CASE HashFile(p)
    <2>1. CASE Raise(p)
      BY <1>4, <2>1 DEF Raise
    <2>2. CASE ~Raise(p)
      <3>1. PICK x \in pod[p].todo :
              LET c    == ContentOf(Here(pod[p].run)[x])
                  held == blob[c] # None \/ Entries(pod[p].run, [NoFiles EXCEPT ![x] = c])[x] = None
              IN pod' = [pod EXCEPT ![p].files[x] = c,
                                    ![p].at = IF held THEN "publish" ELSE "put",
                                    ![p].todo = IF held THEN @ \ {x} ELSE @]
        BY <1>9, <2>2 DEF HashFile
      <3> QED BY <1>1, <3>1 DEF PodRows
    <2> QED BY <2>1, <2>2
  <1>10. CASE Commit(p) \/ RecordFailure(p) \/ Kill(p)
    BY <1>1, <1>4, <1>10 DEF Commit, RecordFailure, Kill
  <1> QED BY <1>5, <1>6, <1>7, <1>8, <1>9, <1>10 DEF PodStep

LEMMA PodsOfStay ==
  ASSUME Inv, [Next]_vars, NEW r \in Runs, \A p \in Pods : ~StartPod(p, r)
  PROVE  PodsOf(r)' \subseteq PodsOf(r)
  <1>1. pod \in [Pods -> PodRows]
    BY DEF Inv, WorkspaceTypeOK
  <1> SUFFICES ASSUME NEW p \in Pods, pod'[p].run = r
               PROVE  pod[p].run = r
    BY DEF PodsOf
  <1>2. CASE PodStep(p)
    BY <1>2, OwnStep, IdleFacts, RunFacts
  <1>3. ASSUME NEW x \in Runs, StartPod(p, x)
        PROVE  FALSE
    <2>1. pod'[p] = [Idle EXCEPT !.at = "prepare", !.run = x]
      BY <1>1, <1>3 DEF StartPod
    <2>2. pod'[p].run = x
      BY <2>1 DEF Idle
    <2> QED BY <1>3, <2>2
  <1> QED BY <1>2, <1>3, PodStays

\* Who is there keeps the collector out.
LEMMA NoCollection ==
  ASSUME Inv, NEW r \in Runs, status[r] = "running" \/ PodsOf(r) # {}
  PROVE  collector = AtRest
  BY DEF Inv, CollectInv, Quiescent

\* How the row of a run can change.
LEMMA RowMoves ==
  ASSUME Inv, [Next]_vars, NEW r \in Runs
  PROVE  \/ /\ status'[r] = status[r] /\ artifact'[r] = artifact[r] /\ made'[r] = made[r]
            /\ r \in beside' <=> r \in beside
         \/ CreateRun(r) \/ Halt(r) \/ PublishByHand(r)
         \/ \E p \in Pods : /\ pod[p].run = r
                            /\ (Commit(p) /\ ~UNCHANGED rows) \/ RecordFailure(p)
  <1>0. /\ status \in [Runs -> {"absent", "running", "success", "failed"}]
        /\ artifact \in [Runs -> Manifests \cup {None}]
        /\ made \in [Runs -> Inventories \cup {None}]
    BY DEF Inv, WorkspaceTypeOK
  <1> DEFINE Same == /\ status'[r] = status[r] /\ artifact'[r] = artifact[r] /\ made'[r] = made[r]
                     /\ r \in beside' <=> r \in beside
  <1>1. ASSUME NEW x \in Runs, x # r, CreateRun(x) \/ Halt(x) \/ PublishByHand(x)
        PROVE  Same
    BY <1>0, <1>1 DEF CreateRun, Halt, PublishByHand
  <1>2. ASSUME NEW p \in Pods, Commit(p), pod[p].run # r
        PROVE  Same
    BY <1>0, <1>2 DEF Commit, rows
  <1>3. ASSUME NEW p \in Pods, RecordFailure(p), pod[p].run # r
        PROVE  Same
    BY <1>0, <1>3 DEF RecordFailure
  <1>4. UNCHANGED rows => Same
    BY DEF rows
  <1>5. ASSUME NEW p \in Pods, PodStep(p), ~Commit(p), ~RecordFailure(p)
        PROVE  UNCHANGED rows
    BY <1>5 DEF PodStep, Prepare, Load, RestoreFile, Restored, Compute, HandlerFails, PublishBegin,
                HashFile, Put, UploadManifest, Clean, Kill, KeepAll
  <1>6. ASSUME \/ CollectBegin \/ CollectBlob \/ CollectEnd \/ Age \/ UNCHANGED vars
               \/ \E x \in Runs, q \in Pods : StartPod(q, x)
        PROVE  UNCHANGED rows
    BY <1>6 DEF CollectBegin, CollectBlob, CollectEnd, Age, vars, StartPod, rows
  <1> HIDE DEF Same
  <1>7. \/ Same \/ CreateRun(r) \/ Halt(r) \/ PublishByHand(r)
        \/ \E p \in Pods : /\ pod[p].run = r
                           /\ (Commit(p) /\ ~UNCHANGED rows) \/ RecordFailure(p)
    BY <1>1, <1>2, <1>3, <1>4, <1>5, <1>6 DEF Next, PodStep
  <1> QED BY <1>7 DEF Same

\* What a commit binds is what the Pod worked on, over what it was laid on.
LEMMA CommitMade ==
  ASSUME Inv, NEW r \in Runs, status[r] # "absent", NEW files \in Inventories
  PROVE  Resolved(Manifest(r, files)) =
           IF Kind[r] # "overlay" THEN files
           ELSE Overlaid(Resolved(artifact[Upstream[r]]), files)
  <1>1. CASE Kind[r] # "overlay"
    BY <1>1 DEF Manifest, Resolved, Entries
  <1>2. CASE Kind[r] = "overlay"
    <2> DEFINE a     == artifact[Upstream[r]]
               below == Resolved(a)
    <2>1. a \in PlainManifests /\ Binding(r) # None /\ below \in Inventories
      BY <1>2, Inputs, RunFacts, NoneAssumption
    <2>2. below = a.files
      BY <2>1 DEF Resolved, PlainManifests
    <2>3. Resolved(Manifest(r, files)) = Overlaid(Binding(r).is.files, Entries(r, files))
      BY <1>2, <2>1 DEF Manifest, Resolved
    <2>4. Binding(r).is.files = below
      BY <2>2 DEF Binding
    <2>5. \A q \in Paths : Entries(r, files)[q] = IF files[q] = below[q] THEN None ELSE files[q]
      BY <1>2 DEF Entries
    <2>6. Overlaid(below, Entries(r, files)) = Overlaid(below, files)
      BY <2>5 DEF Overlaid
    <2> QED BY <1>2, <2>3, <2>4, <2>6
  <1> QED BY <1>1, <1>2

-----------------------------------------------------------------------------
(* Every step keeps the invariant. *)

\* The rows.
LEMMA RowNext ==
  ASSUME Inv, [Next]_vars, NEW r \in Runs
  PROVE  RowInv(r)'
  <1>0. /\ status \in [Runs -> {"absent", "running", "success", "failed"}]
        /\ artifact \in [Runs -> Manifests \cup {None}]
        /\ made \in [Runs -> Inventories \cup {None}]
        /\ RowInv(r) /\ ManifestInv(r)
    BY DEF Inv, WorkspaceTypeOK
  <1> DEFINE Same == /\ status'[r] = status[r] /\ artifact'[r] = artifact[r] /\ made'[r] = made[r]
                     /\ r \in beside' <=> r \in beside
  <1>1. status[r] # "absent" => ParentOf(r)' = ParentOf(r)
    BY UpstreamStays
  <1>2. /\ Upstream[r] # None => Upstream[r] \in Runs
        /\ Upstream[r] # None /\ artifact[Upstream[r]] # None => artifact'[Upstream[r]] # None
    BY RunFacts, ArtifactStays
  <1>3. status[r] = "absent" => PodsOf(r) = {}
    BY RunFacts DEF PodsOf, Inv, PodInv
  \* What a run that is not there has: nothing.
  <1>4. status[r] = "absent" => manifest'[r] = manifest[r]
    BY <1>3, ManifestStays DEF PodsOf
  <1>5. CASE Same
    <2>1. artifact[r] # None /\ r \notin beside => Final(r)'
      <3> SUFFICES ASSUME artifact[r] # None, r \notin beside
                   PROVE  Final(r)'
        OBVIOUS
      <3>1. Final(r)
        BY <1>0 DEF RowInv
      <3>2. PodsOf(r)' = {}
        BY <3>1, PodsOfStay DEF Final, StartPod
      <3>3. manifest'[r] = manifest[r]
        BY <3>1, ManifestStays DEF Final, PodsOf
      <3>4. Resolved(artifact[r])' = Resolved(artifact[r])
        BY <1>5 DEF Resolved, Overlaid
      <3> QED BY <1>5, <3>1, <3>2, <3>3, <3>4 DEF Final
    <2> HIDE DEF Same
    <2>2. status[r] # "absent" => Bound(r)'
      BY <1>0, <1>2, <1>5 DEF Same, RowInv, Bound
    <2> QED BY <1>0, <1>1, <1>4, <1>5, <2>1, <2>2 DEF Same, RowInv, Bound
  <1> HIDE DEF Same
  <1>6. CASE CreateRun(r)
    <2>1. status'[r] = "running" /\ artifact'[r] = artifact[r] /\ status[r] = "absent"
      BY <1>0, <1>6 DEF CreateRun
    <2>2. artifact'[r] = None
      BY <1>0, <2>1 DEF RowInv
    <2>3. Upstream[r] # None => artifact'[Upstream[r]] # None
      <3>1. Upstream[r] # None => status[Upstream[r]] = "success"
        BY <1>6 DEF CreateRun
      <3> QED BY <1>2, <3>1 DEF Inv, RowInv
    <2> QED BY <2>1, <2>2, <2>3 DEF RowInv, Bound
  <1>7. CASE Halt(r)
    <2>1. status'[r] = "failed" /\ artifact'[r] = artifact[r] /\ status[r] = "running"
      BY <1>0, <1>7 DEF Halt
    <2>2. artifact'[r] = None
      BY <1>0, <2>1 DEF RowInv, Bound
    <2> QED BY <1>0, <1>2, <2>1, <2>2 DEF RowInv, Bound
  <1>8. CASE PublishByHand(r)
    <2>1. /\ status[r] = "running" /\ status'[r] = "success" /\ artifact'[r] = manifest[r]
          /\ made'[r] = Resolved(manifest[r]) /\ manifest[r] # None /\ UNCHANGED <<manifest, pod>>
          /\ PodsOf(r) # {} => r \in beside'
      BY <1>0, <1>8 DEF PublishByHand, store
    <2>2. artifact'[r].parent = ParentOf(r)'
      BY <1>0, <1>1, <2>1 DEF ManifestInv
    <2>3. PodsOf(r)' = PodsOf(r)
      BY <2>1 DEF PodsOf
    <2>4. r \notin beside' => Final(r)'
      <3>1. Resolved(artifact[r])' = Resolved(manifest[r])
        BY <2>1 DEF Resolved, Overlaid
      <3> QED BY <2>1, <2>3, <3>1 DEF Final
    <2>5. Bound(r)'
      BY <1>0, <1>2, <2>1 DEF RowInv, Bound
    <2> QED BY <2>1, <2>2, <2>4, <2>5 DEF RowInv
  <1>9. ASSUME NEW p \in Pods, pod[p].run = r, Commit(p), ~UNCHANGED rows
        PROVE  RowInv(r)'
    <2> DEFINE files == pod[p].files
               m     == Manifest(r, files)
    <2>1. /\ pod[p].at = "commit" /\ status[r] = "running" /\ status'[r] = "success"
          /\ artifact'[r] = m /\ UNCHANGED <<manifest, beside>>
          /\ made'[r] = IF Kind[r] # "overlay" THEN pod[p].work
                        ELSE Overlaid(Resolved(artifact[Upstream[r]]), pod[p].work)
          /\ pod' = [pod EXCEPT ![p] = Idle]
      BY <1>0, <1>9 DEF Commit, store, files, m
    <2>2. /\ files = pod[p].work /\ manifest[r] = m /\ files \in Inventories
          /\ PodsOf(r) = {p}
      BY <1>9, <2>1, PodFacts DEF OutputInv, PodRows
    <2>3. m \in Manifests /\ m.parent = ParentOf(r) /\ m # None
      BY <2>1, <2>2, ManifestType, NoneAssumption
    <2> HIDE DEF m, files
    <2>4. PodsOf(r)' = {}
      <3>1. pod \in [Pods -> PodRows]
        BY DEF Inv, WorkspaceTypeOK
      <3> QED BY <2>1, <2>2, <3>1, IdleFacts, RunFacts DEF PodsOf
    <2>5. made'[r] = Resolved(artifact'[r])
      BY <2>1, <2>2, CommitMade DEF m
    <2>6. Resolved(artifact[r])' = Resolved(artifact'[r])
      BY DEF Resolved, Overlaid
    <2>7. Final(r)'
      BY <2>1, <2>2, <2>4, <2>5, <2>6 DEF Final
    <2>8. Bound(r)'
      BY <1>0, <1>2, <2>1 DEF RowInv, Bound
    <2> QED BY <1>1, <2>1, <2>3, <2>7, <2>8 DEF RowInv
  <1>10. ASSUME NEW p \in Pods, pod[p].run = r, RecordFailure(p)
         PROVE  RowInv(r)'
    <2>1. /\ status'[r] = "failed" /\ artifact'[r] = artifact[r] /\ beside' = beside
          /\ pod[p].at # "none"
      BY <1>0, <1>10 DEF RecordFailure
    <2>2. status[r] # "absent" /\ PodsOf(r) # {}
      BY <1>10, <2>1, PodFacts
    <2>3. artifact[r] = None \/ r \in beside
      BY <1>0, <2>2 DEF RowInv, Final
    <2> QED BY <1>0, <1>1, <1>2, <2>1, <2>2, <2>3 DEF RowInv, Bound
  <1> QED BY <1>5, <1>6, <1>7, <1>8, <1>9, <1>10, RowMoves DEF Same

\* The Pods and their locks.
LEMMA PodNext ==
  ASSUME Inv, [Next]_vars, WorkspaceTypeOK', NEW p \in Pods
  PROVE  PodInv(p)'
  <1>0. /\ pod \in [Pods -> PodRows] /\ pod' \in [Pods -> PodRows]
        /\ holder \in [Runs -> Pods \cup {None}] /\ pod[p] \in PodRows /\ PodInv(p)
        /\ p # None
    BY NoneAssumption DEF Inv, WorkspaceTypeOK
  \* A lock is kept while its Pod works.
  <1>1. ASSUME NEW d \in Runs, holder[d] = p, ~Clean(p), ~Kill(p)
        PROVE  holder'[d] = p
    <2>1. ASSUME NEW q \in Pods, Prepare(q)
          PROVE  holder'[d] = p
      BY <1>0, <1>1, <2>1 DEF Prepare, LockFree, local
    <2>2. ASSUME NEW q \in Pods, q # p, Clean(q) \/ Kill(q)
          PROVE  holder'[d] = p
      BY <1>1, <2>2 DEF Clean, Kill
    <2>3. ASSUME NEW q \in Pods, PodStep(q), ~Prepare(q), ~Clean(q), ~Kill(q)
          PROVE  UNCHANGED holder
      BY <2>3 DEF PodStep, Load, RestoreFile, Restored, Compute, HandlerFails, PublishBegin,
                  HashFile, Put, UploadManifest, Commit, RecordFailure, KeepAll, local
    <2>4. ASSUME \/ CollectBegin \/ CollectBlob \/ CollectEnd \/ Age \/ UNCHANGED vars
                 \/ \E r \in Runs : \/ CreateRun(r) \/ Halt(r) \/ PublishByHand(r)
                                    \/ \E q \in Pods : StartPod(q, r)
          PROVE  UNCHANGED holder
      BY <2>4 DEF CollectBegin, CollectBlob, CollectEnd, Age, vars, CreateRun, Halt, PublishByHand,
                  StartPod, local
    <2> QED BY <1>1, <2>1, <2>2, <2>3, <2>4 DEF Next
  <1>2. ASSUME NEW r \in Runs, StartPod(p, r)
        PROVE  PodInv(p)'
    <2>1. /\ pod'[p].run = r /\ pod'[p].at = "prepare" /\ pod'[p].files = NoFiles
          /\ status'[r] = "running" /\ PodsOf(r) = {}
          /\ \A q \in Pods \ {p} : pod'[q] = pod[q]
      BY <1>0, <1>2 DEF StartPod, Idle, rows
    <2>2. ~Works(p)' /\ r # None
      BY <2>1, RunFacts DEF Works
    <2>3. \A q \in Pods : pod'[q].run = r => q = p
      BY <2>1 DEF PodsOf
    <2> QED BY <2>1, <2>2, <2>3 DEF PodInv
  \* Nobody joins the Pod of a run.
  <1>3. ASSUME pod'[p].run = pod[p].run, pod[p].run # None
        PROVE  /\ status'[pod[p].run] # "absent"
               /\ \A q \in Pods : pod'[q].run = pod'[p].run => q = p
    <2>1. pod[p].run \in Runs /\ status[pod[p].run] # "absent" /\ PodsOf(pod[p].run) = {p}
      BY <1>0, <1>3 DEF PodInv, PodRows, PodsOf
    <2>2. PICK r \in Runs : r = pod[p].run
      BY <2>1
    <2>3. \A q \in Pods : ~StartPod(q, r)
      <3>1. PodsOf(r) # {}
        BY <2>1, <2>2
      <3> QED BY <3>1 DEF StartPod
    <2>4. PodsOf(r)' \subseteq PodsOf(r)
      BY <2>3, PodsOfStay
    <2>5. \A q \in Pods : pod'[q].run = r => q = p
      BY <2>1, <2>2, <2>4 DEF PodsOf
    <2> QED BY <1>3, <2>1, <2>2, <2>5, StatusStays
  <1>4. CASE pod'[p] = pod[p] /\ ~PodStep(p)
    <2>1. Works(p)' <=> Works(p)
      BY <1>4 DEF Works
    <2>2. Works(p) => pod[p].run \in Runs /\ Workspace(pod[p].run) \in Runs
      BY PodFacts, RunFacts DEF Works
    <2>3. Workspace(pod[p].run)' = Workspace(pod[p].run)
      BY <1>4 DEF Workspace
    <2>4. Works(p)' /\ Kind[pod'[p].run] # "overlay" => holder'[Workspace(pod[p].run)] = p
      BY <1>0, <1>1, <1>4, <2>1, <2>2 DEF PodInv, PodStep
    <2> QED BY <1>0, <1>3, <1>4, <2>3, <2>4 DEF PodInv
  <1>5. CASE PodStep(p)
    <2> DEFINE r == pod[p].run
    <2>1. r \in Runs /\ r # None /\ (pod'[p].run = r \/ pod'[p] = Idle)
      BY <1>5, OwnStep, RunFacts
    <2>2. CASE pod'[p] = Idle
      BY <2>2, IdleFacts DEF PodInv, Works
    <2>3. CASE pod'[p] # Idle
      <3>0. pod'[p].run = r /\ Workspace(r) \in Runs /\ Upstream[r] \in Runs \cup {None}
        BY <2>1, <2>3, RunFacts
      <3> DEFINE Early == {"prepare", "load", "restore", "compute"}
      <3>1. ASSUME NEW at, NEW todo, Go(p, at, todo)
            PROVE  pod'[p].at = at /\ pod'[p].files = pod[p].files
        BY <1>0, <3>1 DEF Go, PodRows
      <3>2. /\ pod'[p].at \in {"load", "restore"} => Upstream[r] # None
            /\ pod'[p].at \in Early => pod'[p].files = NoFiles
            /\ Works(p)' => Prepare(p) \/ (Works(p) /\ ~Clean(p) /\ ~Kill(p))
        <4>1. CASE Prepare(p)
          <5>1. /\ pod[p].at = "prepare" /\ pod'[p].files = pod[p].files
                /\ pod'[p].at = "load" => Upstream[r] # None
                /\ pod'[p].at \in {"compute", "load", "record_failure"}
            <6>1. CASE Kind[r] = "overlay"
              BY <3>1, <4>1, <6>1, RunFacts, <2>1, NoneAssumption DEF Prepare
            <6>2. CASE Kind[r] # "overlay"
              BY <3>1, <4>1, <6>2 DEF Prepare
            <6> QED BY <6>1, <6>2
          <5> QED BY <1>0, <4>1, <5>1 DEF PodInv
        <4>2. CASE Load(p) \/ RestoreFile(p) \/ Restored(p) \/ Compute(p)
          <5>1. /\ pod[p].at \in {"load", "restore", "compute"} /\ pod'[p].files = pod[p].files
                /\ pod'[p].at \in {"load", "restore"} => pod[p].at \in {"load", "restore"}
            BY <3>1, <4>2 DEF Load, RestoreFile, Restored, Compute, Raise
          <5>2. ~Clean(p) /\ ~Kill(p)
            BY <4>2, <5>1, <1>0, <2>3 DEF Clean, Kill
          <5> QED BY <1>0, <5>1, <5>2 DEF PodInv, Works
        <4>3. CASE HandlerFails(p) \/ Put(p) \/ UploadManifest(p)
          <5>1. /\ pod[p].at \in {"load", "restore", "compute", "publish", "put"}
                /\ pod'[p].at \in {"failing", "publish", "clean"}
            BY <3>1, <4>3 DEF HandlerFails, Put, UploadManifest, Raise
          <5>2. ~Clean(p) /\ ~Kill(p)
            BY <5>1, <1>0, <2>3 DEF Clean, Kill
          <5> QED BY <5>1, <5>2 DEF Works
        <4>4. CASE PublishBegin(p) \/ HashFile(p)
          <5>1. pod[p].at \in {"compute", "publish"} /\ pod'[p].at \in {"failing", "publish", "put"}
            <6>1. CASE Raise(p)
              BY <3>1, <4>4, <6>1 DEF PublishBegin, HashFile, Raise
            <6>2. CASE PublishBegin(p) /\ ~Raise(p)
              <7>1. pod' = [pod EXCEPT ![p].at = "publish", ![p].todo = Included(r), ![p].work = Snapshot(r)]
                BY <6>2 DEF PublishBegin
              <7> QED BY <1>0, <6>2, <7>1 DEF PublishBegin, PodRows
            <6>3. CASE HashFile(p) /\ ~Raise(p)
              <7>1. PICK x \in pod[p].todo :
                      LET c    == ContentOf(Here(r)[x])
                          held == blob[c] # None \/ Entries(r, [NoFiles EXCEPT ![x] = c])[x] = None
                      IN pod' = [pod EXCEPT ![p].files[x] = c,
                                            ![p].at = IF held THEN "publish" ELSE "put",
                                            ![p].todo = IF held THEN @ \ {x} ELSE @]
                BY <6>3 DEF HashFile
              <7> QED BY <1>0, <6>3, <7>1 DEF HashFile, PodRows
            <6> QED BY <4>4, <6>1, <6>2, <6>3
          <5>2. ~Clean(p) /\ ~Kill(p)
            BY <5>1, <1>0, <2>3 DEF Clean, Kill
          <5> QED BY <5>1, <5>2 DEF Works
        <4>5. CASE Clean(p)
          <5>1. pod'[p].at \in {"record_failure", "commit"}
            BY <1>0, <4>5 DEF Clean, PodRows
          <5> QED BY <5>1 DEF Works
        <4>6. CASE Commit(p)
          <5>1. pod'[p].at = "record_failure"
            BY <1>0, <2>3, <3>1, <4>6 DEF Commit
          <5> QED BY <5>1 DEF Works
        <4>7. CASE RecordFailure(p) \/ Kill(p)
          BY <1>0, <2>3, <4>7 DEF RecordFailure, Kill
        <4> HIDE DEF Early
        <4> QED BY <1>5, <4>1, <4>2, <4>3, <4>4, <4>5, <4>6, <4>7 DEF PodStep
      <3>3. Works(p)' /\ Kind[r] # "overlay" => holder'[Workspace(r)] = p
        <4>1. CASE Prepare(p)
          BY <1>0, <3>0, <3>1, <4>1 DEF Prepare, Works
        <4>2. CASE ~Prepare(p)
          BY <1>0, <1>1, <3>0, <3>2, <4>2 DEF PodInv
        <4> QED BY <4>1, <4>2
      <3>4. Workspace(r)' = Workspace(pod'[p].run)
        BY <3>0 DEF Workspace
      <3>5. holder'[Workspace(pod'[p].run)] = holder'[Workspace(r)]
        BY <3>0
      <3> QED BY <1>3, <2>1, <3>0, <3>2, <3>3, <3>5 DEF PodInv, Workspace
    <2> QED BY <2>2, <2>3
  <1> QED BY <1>2, <1>4, <1>5, PodStays

\* Where a Pod comes from.
LEMMA OwnMoves ==
  ASSUME Inv, NEW p \in Pods, PodStep(p)
  PROVE  /\ pod'[p].at = "restore" => Load(p) \/ RestoreFile(p)
         /\ pod'[p].at \in {"publish", "put"} => PublishBegin(p) \/ HashFile(p) \/ Put(p)
         /\ pod'[p].at \in {"clean", "commit"} => UploadManifest(p) \/ Clean(p)
  <1>0. pod \in [Pods -> PodRows]
    BY DEF Inv, WorkspaceTypeOK
  <1>1. ASSUME NEW at, NEW todo, Go(p, at, todo)
        PROVE  pod'[p].at = at
    BY <1>0, <1>1 DEF Go, PodRows
  <1>2. CASE Prepare(p)
    <2>1. pod'[p].at \in {"compute", "load", "record_failure"}
      BY <1>1, <1>2 DEF Prepare
    <2> QED BY <2>1
  <1>3. CASE Load(p) \/ RestoreFile(p)
    <2>1. pod'[p].at \in {"restore", "failing"}
      BY <1>1, <1>3 DEF Load, RestoreFile, Raise
    <2> QED BY <1>3, <2>1
  <1>4. CASE Restored(p) \/ Compute(p) \/ HandlerFails(p)
    <2>1. pod'[p].at \in {"compute", "failing"}
      BY <1>1, <1>4 DEF Restored, Compute, HandlerFails, Raise
    <2> QED BY <2>1
  <1>5. CASE PublishBegin(p) \/ HashFile(p)
    <2>1. CASE Raise(p)
      BY <1>1, <2>1 DEF Raise
    <2>2. CASE PublishBegin(p) /\ ~Raise(p)
      <3>1. pod' = [pod EXCEPT ![p].at = "publish", ![p].todo = Included(pod[p].run),
                               ![p].work = Snapshot(pod[p].run)]
        BY <2>2 DEF PublishBegin
      <3>2. pod'[p].at = "publish"
        BY <1>0, <3>1 DEF PodRows
      <3> QED BY <2>2, <3>2
    <2>3. CASE HashFile(p) /\ ~Raise(p)
      <3>1. PICK x \in pod[p].todo :
              LET c    == ContentOf(Here(pod[p].run)[x])
                  held == blob[c] # None \/ Entries(pod[p].run, [NoFiles EXCEPT ![x] = c])[x] = None
              IN pod' = [pod EXCEPT ![p].files[x] = c,
                                    ![p].at = IF held THEN "publish" ELSE "put",
                                    ![p].todo = IF held THEN @ \ {x} ELSE @]
        BY <2>3 DEF HashFile
      <3>2. pod'[p].at \in {"publish", "put"}
        BY <1>0, <3>1 DEF PodRows
      <3> QED BY <2>3, <3>2
    <2> QED BY <1>5, <2>1, <2>2, <2>3
  <1>6. CASE Put(p)
    <2>1. pod'[p].at \in {"publish", "failing"}
      BY <1>1, <1>6 DEF Put, Raise
    <2> QED BY <1>6, <2>1
  <1>7. CASE UploadManifest(p)
    <2>1. pod'[p].at \in {"clean", "failing"}
      BY <1>1, <1>7 DEF UploadManifest, Raise
    <2> QED BY <1>7, <2>1
  <1>8. CASE Clean(p)
    <2>1. pod'[p].at \in {"record_failure", "commit"}
      BY <1>0, <1>8 DEF Clean, PodRows
    <2> QED BY <1>8, <2>1
  <1>9. CASE Commit(p) \/ RecordFailure(p) \/ Kill(p)
    <2>1. pod'[p] = Idle \/ pod'[p].at = "record_failure"
      BY <1>0, <1>1, <1>9 DEF Commit, RecordFailure, Kill
    <2> QED BY <2>1, IdleFacts
  <1> QED BY <1>2, <1>3, <1>4, <1>5, <1>6, <1>7, <1>8, <1>9 DEF PodStep

\* What the cache vouches for.
LEMMA CacheNext ==
  ASSUME Inv, [Next]_vars
  PROVE  CacheInv'
  <1>0. CacheInv /\ file \in [Runs -> [Paths -> FileRows \cup {None}]]
    BY DEF Inv, WorkspaceTypeOK
  <1>1. ASSUME NEW d \in Runs, NEW files \in [Paths -> FileRows \cup {None}],
               file' = [file EXCEPT ![d] = files],
               \A q \in Paths : files[q] # None => files[q].vouched \in {None, files[q].is}
        PROVE  CacheInv'
    BY <1>0, <1>1 DEF CacheInv
  <1>2. ASSUME NEW d \in Runs, NEW q \in Paths, NEW g \in FileRows,
               file' = [file EXCEPT ![d][q] = g], g.vouched \in {None, g.is}
        PROVE  CacheInv'
    <2>1. \A e \in Runs, x \in Paths : file'[e][x] = g \/ file'[e][x] = file[e][x]
      BY <1>0, <1>2
    <2> QED BY <1>0, <1>2, <2>1 DEF CacheInv
  <1>3. UNCHANGED file => CacheInv'
    BY <1>0 DEF CacheInv
  <1>4. NoFiles \in [Paths -> FileRows \cup {None}] /\ \A q \in Paths : NoFiles[q] = None
    BY DEF NoFiles
  <1>5. ASSUME NEW p \in Pods, PodStep(p)
        PROVE  CacheInv'
    <2> DEFINE r == pod[p].run
               d == Workspace(r)
    <2>1. r \in Runs /\ d \in Runs
      BY <1>5, OwnStep, RunFacts
    <2>2. Here(r) \in [Paths -> FileRows \cup {None}] /\ Here(r) = file[d]
      BY <2>1, HereType DEF Inv, Here
    <2>3. CASE Prepare(p)
      <3>1. UNCHANGED file \/ file' = [file EXCEPT ![d] = NoFiles]
        BY <2>3 DEF Prepare, local
      <3> QED BY <1>1, <1>3, <1>4, <2>1, <3>1
    <2>4. CASE Load(p)
      <3>1. UNCHANGED file \/ file' = [file EXCEPT ![d] = Pruned(r)]
        BY <2>4 DEF Load
      <3>2. Pruned(r) \in [Paths -> FileRows \cup {None}]
        BY <2>2 DEF Pruned
      <3>3. \A q \in Paths : Pruned(r)[q] \in {file[d][q], None}
        BY <2>2 DEF Pruned
      <3>4. \A q \in Paths : Pruned(r)[q] # None =>
              Pruned(r)[q].vouched \in {None, Pruned(r)[q].is}
        BY <1>0, <2>1, <3>3 DEF CacheInv
      <3> HIDE DEF d, r
      <3> QED BY <1>1, <1>3, <2>1, <3>1, <3>2, <3>4
    <2>5. CASE RestoreFile(p)
      <3>1. PICK q \in pod[p].todo, cached \in BOOLEAN :
              LET c == Resolved(artifact[Upstream[r]])[q]
                  f == file[d][q]
              IN IF Reusable(f, c) \/ Fetchable(c)
                 THEN /\ file' = [file EXCEPT ![d][q] =
                             IF f # None /\ Vouched(f) = c THEN f
                             ELSE Verified(c, cached /\ Kind[r] # "overlay")]
                      /\ Go(p, "restore", pod[p].todo \ {q})
                 ELSE Raise(p) /\ UNCHANGED file
        BY <2>5 DEF RestoreFile
      <3> DEFINE c == Resolved(artifact[Upstream[r]])[q]
                 f == file[d][q]
      <3>2. q \in Paths /\ c \in Contents
        <4>1. pod[p].at = "restore" /\ q \in Managed(r) /\ Upstream[r] # None
          BY <2>5, PodFacts DEF RestoreFile, InputsInv, PodInv
        <4>2. status[r] # "absent"
          BY <4>1, PodFacts
        <4> QED BY <2>1, <4>1, <4>2, Inputs DEF Managed, Inventories
      <3>3. f \in FileRows \cup {None} /\ (f # None => f.vouched \in {None, f.is})
        BY <1>0, <2>1, <3>2 DEF CacheInv
      <3> DEFINE g == Verified(c, cached /\ Kind[r] # "overlay")
      <3>4. UNCHANGED file \/ (f # None /\ file' = [file EXCEPT ![d][q] = f])
             \/ file' = [file EXCEPT ![d][q] = g]
        BY <3>1
      <3> HIDE DEF c, f
      <3>5. g \in FileRows /\ g.vouched \in {None, g.is}
        BY <3>2 DEF Verified, FileRows
      <3> HIDE DEF g, d, r
      <3>6. CASE f # None /\ file' = [file EXCEPT ![d][q] = f]
        BY <1>2, <2>1, <3>2, <3>3, <3>6
      <3>7. CASE file' = [file EXCEPT ![d][q] = g]
        BY <1>2, <2>1, <3>2, <3>5, <3>7
      <3> QED BY <1>3, <3>4, <3>6, <3>7
    <2>6. CASE Compute(p)
      <3>1. PICK q \in Paths, c \in Contents : file' = [file EXCEPT ![d][q] = Written(file[d][q], c)]
        BY <2>6 DEF Compute
      <3>2. Written(file[d][q], c) \in FileRows /\ Written(file[d][q], c).vouched = None
        BY DEF Written, FileRows
      <3> HIDE DEF d
      <3> QED BY <1>2, <2>1, <3>1, <3>2
    <2>7. CASE Clean(p)
      <3>1. UNCHANGED file \/ file' = [file EXCEPT ![d] = NoFiles]
        BY <2>7 DEF Clean
      <3> QED BY <1>1, <1>3, <1>4, <2>1, <3>1
    <2> QED BY <1>3, <1>5, <2>3, <2>4, <2>5, <2>6, <2>7
            DEF PodStep, Restored, HandlerFails, PublishBegin, HashFile, Put, UploadManifest,
                Commit, RecordFailure, Kill, local, KeepAll
  <1>6. ASSUME \/ CollectBegin \/ CollectBlob \/ CollectEnd \/ Age \/ UNCHANGED vars
               \/ \E r \in Runs : \/ CreateRun(r) \/ Halt(r) \/ PublishByHand(r)
                                  \/ \E q \in Pods : StartPod(q, r)
        PROVE  UNCHANGED file
    BY <1>6 DEF CollectBegin, CollectBlob, CollectEnd, Age, vars, CreateRun, Halt, PublishByHand,
                StartPod, local
  <1> QED BY <1>3, <1>5, <1>6 DEF Next

\* What is restored is what the manifest says.
LEMMA InputsNext ==
  ASSUME Inv, [Next]_vars, WorkspaceTypeOK', NEW p \in Pods
  PROVE  InputsInv(p)'
  <1> SUFFICES ASSUME pod'[p].at = "restore"
               PROVE  InputsInv(p)'
    BY DEF InputsInv
  <1>0. /\ pod \in [Pods -> PodRows] /\ pod[p] \in PodRows /\ InputsInv(p) /\ PodInv(p)
        /\ file \in [Runs -> [Paths -> FileRows \cup {None}]] /\ CacheInv
    BY DEF Inv, WorkspaceTypeOK
  <1>1. CASE ~PodStep(p)
    <2>1. \A r \in Runs : ~StartPod(p, r)
      BY <1>0 DEF StartPod, PodRows
    <2>2. pod'[p] = pod[p]
      BY <1>1, <2>1, PodStays
    <2>3. PICK r \in Runs : r = pod[p].run /\ status[r] # "absent" /\ Upstream[r] # None
      BY <1>0, <2>2, PodFacts DEF PodInv
    <2>4. file'[Workspace(r)] = file[Workspace(r)]
      BY <1>1, <2>2, <2>3, FilesStay DEF Works, Here
    <2>5. Managed(r)' = Managed(r) /\ artifact'[Upstream[r]] = artifact[Upstream[r]]
      BY <2>3, UpstreamStays
    <2>6. Resolved(artifact[Upstream[r]])' = Resolved(artifact[Upstream[r]])
      BY <2>5 DEF Resolved, Overlaid
    <2>7. Here(r)' = Here(r)
      BY <2>4 DEF Here, Workspace
    <2> QED BY <1>0, <2>2, <2>3, <2>5, <2>6, <2>7 DEF InputsInv
  <1>2. CASE PodStep(p)
    <2>1. /\ Load(p) \/ RestoreFile(p)
          /\ pod'[p].run = pod[p].run /\ pod[p].at \in {"load", "restore"}
      BY <1>2, OwnMoves, OwnStep, IdleFacts DEF Load, RestoreFile
    <2>2. PICK r \in Runs : r = pod[p].run /\ status[r] # "absent" /\ Upstream[r] # None
      BY <1>0, <2>1, PodFacts DEF PodInv
    <2>3. /\ Managed(r)' = Managed(r) /\ artifact'[Upstream[r]] = artifact[Upstream[r]]
          /\ Managed(r) \subseteq Paths /\ Workspace(r) \in Runs
      BY <2>2, UpstreamStays, Inputs, RunFacts
    <2>4. /\ Resolved(artifact[Upstream[r]])' = Resolved(artifact[Upstream[r]])
          /\ Here(r)' = file'[Workspace(r)]
      BY <2>3 DEF Resolved, Overlaid, Here, Workspace
    <2> DEFINE d == Workspace(r)
               res == Resolved(artifact[Upstream[r]])
    <2>5. SUFFICES /\ pod'[p].todo \subseteq Managed(r)
                   /\ \A x \in Paths :
                        IF x \in Managed(r)
                        THEN x \notin pod'[p].todo => ContentOf(file'[d][x]) = res[x]
                        ELSE Reuses[r] # None => file'[d][x] = None
      BY <2>1, <2>2, <2>3, <2>4 DEF InputsInv, ContentOf
    <2>6. CASE Load(p)
      <3>1. file' = [file EXCEPT ![d] = Pruned(r)] /\ pod'[p].todo = Managed(r)
        BY <1>0, <2>2, <2>6 DEF Load, Go, Raise, PodRows
      <3>2. file'[d] = Pruned(r)
        BY <1>0, <2>3, <3>1
      <3> QED BY <3>1, <3>2 DEF Pruned
    <2>7. CASE RestoreFile(p)
      <3>1. PICK q \in pod[p].todo, cached \in BOOLEAN :
              LET c == res[q]
                  f == file[d][q]
              IN IF Reusable(f, c) \/ Fetchable(c)
                 THEN /\ file' = [file EXCEPT ![d][q] =
                             IF f # None /\ Vouched(f) = c THEN f
                             ELSE Verified(c, cached /\ Kind[r] # "overlay")]
                      /\ Go(p, "restore", pod[p].todo \ {q})
                 ELSE Raise(p) /\ UNCHANGED file
        BY <2>2, <2>7 DEF RestoreFile
      <3> DEFINE f == file[d][q]
      <3>2. q \in Paths /\ q \in Managed(r) /\ res[q] # None /\ res[q] \in Contents
        BY <1>0, <2>2, <2>3, <2>7, Inputs DEF RestoreFile, InputsInv, Managed, Inventories
      <3>3. /\ file' = [file EXCEPT ![d][q] = IF f # None /\ Vouched(f) = res[q] THEN f
                             ELSE Verified(res[q], cached /\ Kind[r] # "overlay")]
            /\ pod'[p].todo = pod[p].todo \ {q}
        BY <1>0, <3>1 DEF Go, Raise, PodRows
      <3>4. f \in FileRows \cup {None} /\ (f # None => f.vouched \in {None, f.is})
        BY <1>0, <2>3, <3>2 DEF CacheInv
      <3> HIDE DEF res, d
      <3>5. ContentOf(file'[d][q]) = res[q]
        <4>1. CASE f # None /\ Vouched(f) = res[q]
          <5>1. file'[d][q] = f
            BY <1>0, <2>3, <3>2, <3>3, <4>1 DEF d
          <5>2. f.is = res[q] /\ f # None
            BY <3>2, <3>4, <4>1 DEF Vouched
          <5> QED BY <5>1, <5>2 DEF ContentOf
        <4>2. CASE ~(f # None /\ Vouched(f) = res[q])
          <5>1. file'[d][q] = Verified(res[q], cached /\ Kind[r] # "overlay")
            BY <1>0, <2>3, <3>2, <3>3, <4>2 DEF d
          <5>2. file'[d][q] \in FileRows /\ file'[d][q].is = res[q]
            BY <3>2, <5>1 DEF Verified, FileRows
          <5> QED BY <5>2, NoneAssumption DEF ContentOf
        <4> QED BY <4>1, <4>2
      <3>6. \A x \in Paths \ {q} : file'[d][x] = file[d][x]
        BY <1>0, <2>3, <3>2, <3>3 DEF d
      <3>7. \A x \in Paths :
              IF x \in Managed(r)
              THEN x \notin pod[p].todo => ContentOf(file[d][x]) = res[x]
              ELSE Reuses[r] # None => file[d][x] = None
        BY <1>0, <2>2, <2>7 DEF RestoreFile, InputsInv, Here, d, res
      <3>8. pod[p].todo \subseteq Managed(r)
        BY <1>0, <2>2, <2>7 DEF RestoreFile, InputsInv
      <3> HIDE DEF f
      <3> QED BY <3>2, <3>3, <3>5, <3>6, <3>7, <3>8 DEF ContentOf
    <2> QED BY <2>1, <2>6, <2>7
  <1> QED BY <1>1, <1>2

\* What is published is what the Pod has worked on, and its blobs are there.
LEMMA OutputNext ==
  ASSUME Inv, [Next]_vars, WorkspaceTypeOK', NEW p \in Pods
  PROVE  OutputInv(p)'
  <1> SUFFICES ASSUME pod'[p].at \in {"publish", "put", "clean", "commit"}
               PROVE  OutputInv(p)'
    BY DEF OutputInv
  <1>0. /\ pod \in [Pods -> PodRows] /\ pod[p] \in PodRows /\ pod' \in [Pods -> PodRows]
        /\ OutputInv(p) /\ PodInv(p)
        /\ file \in [Runs -> [Paths -> FileRows \cup {None}]]
        /\ blob \in [Contents -> BlobRows \cup {None}] /\ manifest \in [Runs -> Manifests \cup {None}]
    BY DEF Inv, WorkspaceTypeOK
  <1>1. pod[p].at # "none" => collector = AtRest
    BY PodFacts, NoCollection
  <1>2. ASSUME pod[p].at # "none", NEW c \in Contents, blob[c] # None
        PROVE  blob'[c] # None
    BY <1>1, <1>2, BlobStays
  \* What was sent stays sent.
  <1>3. ASSUME pod[p].at # "none", NEW r \in Runs, r = pod[p].run, NEW files \in Inventories,
               NEW q \in Paths, Sent(r, files, q)
        PROVE  Sent(r, files, q)'
    <2>1. Entries(r, files)' = Entries(r, files) /\ Entries(r, files)[q] \in {None, files[q]}
      BY <1>3, PodFacts, UpstreamStays, EntryOf
    <2>2. files[q] \in Contents \cup {None}
      BY DEF Inventories
    <2> QED BY <1>2, <1>3, <2>1, <2>2 DEF Sent
  <1>4. CASE ~PodStep(p)
    <2>1. ASSUME NEW r \in Runs, StartPod(p, r)
          PROVE  FALSE
      <3>1. pod'[p] = [Idle EXCEPT !.at = "prepare", !.run = r]
        BY <1>0, <2>1 DEF StartPod
      <3>2. pod'[p].at = "prepare"
        BY <3>1 DEF Idle
      <3> QED BY <3>2
    <2>2. pod'[p] = pod[p]
      BY <1>4, <2>1, PodStays
    <2>3. PICK r \in Runs : r = pod[p].run /\ status[r] # "absent" /\ PodsOf(r) = {p}
      BY <2>2, PodFacts
    <2>4. manifest'[r] = manifest[r]
      BY <1>4, <2>3, ManifestStays DEF PodsOf, PodStep
    <2> DEFINE files == pod[p].files
    <2>5. files \in Inventories
      BY <1>0 DEF PodRows
    <2>6. PICK fs \in Inventories : fs = files
      BY <2>5
    <2>7. Manifest(r, fs)' = Manifest(r, fs)
      BY <2>3, UpstreamStays
    <2>8. CASE pod[p].at \in {"publish", "put"}
      <3>1. file'[Workspace(r)] = file[Workspace(r)]
        BY <1>4, <2>2, <2>3, <2>8, FilesStay DEF Works, Here
      <3>2. \A q \in Paths :
              /\ ContentOf(file[Workspace(r)][q]) = pod[p].work[q]
              /\ IF q \in pod[p].todo
                 THEN pod[p].work[q] # None /\ fs[q] \in {None, pod[p].work[q]}
                 ELSE fs[q] = pod[p].work[q] /\ Sent(r, fs, q)
        BY <1>0, <2>3, <2>6, <2>8 DEF OutputInv, Here
      <3>3. \A q \in Paths : Sent(r, fs, q) => Sent(r, fs, q)'
        BY <1>3, <2>3, <2>8
      <3>4. Here(r)' = file[Workspace(r)]
        BY <3>1 DEF Here, Workspace
      <3>5. \A q \in Paths :
              /\ ContentOf(Here(r)'[q]) = pod[p].work[q]
              /\ IF q \in pod[p].todo
                 THEN pod[p].work[q] # None /\ fs[q] \in {None, pod[p].work[q]}
                 ELSE fs[q] = pod[p].work[q] /\ Sent(r, fs, q)'
        BY <3>2, <3>3, <3>4
      <3> QED BY <2>2, <2>3, <2>6, <2>8, <3>5 DEF OutputInv, ContentOf, Sent
    <2>9. CASE pod[p].at \in {"clean", "commit"}
      <3>1. fs = pod[p].work /\ manifest[r] = Manifest(r, fs)
        BY <1>0, <2>3, <2>6, <2>9 DEF OutputInv
      <3> QED BY <2>2, <2>3, <2>4, <2>6, <2>7, <2>9, <3>1 DEF OutputInv, Manifest
    <2> QED BY <2>2, <2>8, <2>9
  <1>5. CASE PodStep(p)
    <2>1. pod'[p].run = pod[p].run /\ pod[p].run \in Runs
      BY <1>5, OwnStep, IdleFacts
    <2>2. PICK r \in Runs : r = pod[p].run
      BY <2>1
    <2> DEFINE d == Workspace(r)
    <2>3. /\ d \in Runs /\ Here(r) \in [Paths -> FileRows \cup {None}] /\ Here(r) = file[d]
          /\ Snapshot(r) \in Inventories
          /\ \A q \in Paths : /\ ContentOf(Here(r)[q]) \in Contents \cup {None}
                              /\ Snapshot(r)[q] = ContentOf(Here(r)[q])
                              /\ ContentOf(Here(r)[q]) = None <=> Here(r)[q] = None
      BY RunFacts, HereType DEF Inv, Here
    <2> HIDE DEF d
    <2>4. PICK fs \in Inventories : fs = pod'[p].files
      BY <1>0 DEF PodRows
    <2>5. PICK old \in Inventories : old = pod[p].files
      BY <1>0 DEF PodRows
    \* A Pod that sends does not change its files.
    <2>6. ASSUME UNCHANGED file, pod'[p].at \in {"publish", "put"},
                 \A q \in Paths :
                   /\ ContentOf(Here(r)[q]) = pod'[p].work[q]
                   /\ IF q \in pod'[p].todo
                      THEN pod'[p].work[q] # None /\ fs[q] \in {None, pod'[p].work[q]}
                      ELSE fs[q] = pod'[p].work[q] /\ Sent(r, fs, q)'
          PROVE  OutputInv(p)'
      <3>1. Here(r)' = Here(r)
        BY <2>6 DEF Here, Workspace
      <3> QED BY <2>1, <2>2, <2>4, <2>6, <3>1 DEF OutputInv, ContentOf, Sent
    <2>7. CASE PublishBegin(p)
      <3>1. /\ pod[p].at = "compute" /\ UNCHANGED <<file, blob, artifact>>
            /\ pod' = [pod EXCEPT ![p].at = "publish", ![p].todo = Included(r), ![p].work = Snapshot(r)]
        BY <1>0, <2>2, <2>7 DEF PublishBegin, Raise, Go, KeepAll, rows, store, local, PodRows
      <3>2. /\ pod'[p].at = "publish" /\ pod'[p].todo = Included(r) /\ pod'[p].work = Snapshot(r)
            /\ fs = NoFiles
        BY <1>0, <2>4, <3>1 DEF PodRows, PodInv
      <3>3. ASSUME NEW q \in Paths, q \notin Included(r)
            PROVE  fs[q] = Snapshot(r)[q] /\ Sent(r, fs, q)'
        <4>1. Snapshot(r)[q] = None /\ fs[q] = None
          BY <2>3, <3>2, <3>3, IdleFacts DEF Included
        <4>2. Entries(r, fs)' = Entries(r, fs) /\ Entries(r, fs)[q] = None
          <5>1. status[r] # "absent"
            BY <2>2, <3>1, PodFacts
          <5>2. Entries(r, fs)[q] \in {None, fs[q]}
            BY EntryOf
          <5> QED BY <4>1, <5>1, <5>2, UpstreamStays
        <4> QED BY <4>1, <4>2 DEF Sent
      <3>4. ASSUME NEW q \in Paths
            PROVE  /\ ContentOf(Here(r)[q]) = pod'[p].work[q]
                   /\ IF q \in pod'[p].todo
                      THEN pod'[p].work[q] # None /\ fs[q] \in {None, pod'[p].work[q]}
                      ELSE fs[q] = pod'[p].work[q] /\ Sent(r, fs, q)'
        <4>1. CASE q \in Included(r)
          BY <2>3, <3>2, <4>1, IdleFacts DEF Included
        <4>2. CASE q \notin Included(r)
          BY <2>3, <3>2, <3>3, <4>2
        <4> QED BY <4>1, <4>2
      <3> QED BY <2>6, <3>1, <3>2, <3>4
    <2>8. CASE HashFile(p) \/ Put(p)
      <3>1. /\ pod[p].at \in {"publish", "put"} /\ UNCHANGED file
            /\ \A q \in Paths :
                 /\ ContentOf(Here(r)[q]) = pod[p].work[q]
                 /\ IF q \in pod[p].todo
                    THEN pod[p].work[q] # None /\ old[q] \in {None, pod[p].work[q]}
                    ELSE old[q] = pod[p].work[q] /\ Sent(r, old, q)
        BY <1>0, <2>2, <2>5, <2>8 DEF HashFile, Put, KeepAll, local, OutputInv
      <3>2. ASSUME NEW q \in Paths, Sent(r, old, q)
            PROVE  Sent(r, old, q)'
        BY <1>3, <2>2, <3>1, <3>2
      \* One file leaves the list, or its content is noted.
      <3>3. ASSUME NEW x \in Paths, pod'[p].work = pod[p].work,
                   fs = [old EXCEPT ![x] = pod[p].work[x]],
                   \/ pod'[p].todo = pod[p].todo
                   \/ pod'[p].todo = pod[p].todo \ {x} /\ Sent(r, fs, x)',
                   x \in pod[p].todo, pod'[p].at \in {"publish", "put"}
            PROVE  OutputInv(p)'
        <4>1. ASSUME NEW q \in Paths, q # x, Sent(r, old, q)'
              PROVE  Sent(r, fs, q)'
          <5>1. fs[q] = old[q]
            BY <3>3, <4>1 DEF Inventories
          <5>2. Entries(r, fs)[q] = Entries(r, old)[q]
            BY <5>1, EntryOf
          <5>3. Entries(r, fs)' = Entries(r, fs) /\ Entries(r, old)' = Entries(r, old)
            BY <2>2, <3>1, PodFacts, UpstreamStays
          <5> QED BY <4>1, <5>1, <5>2, <5>3 DEF Sent
        <4>2. fs[x] = pod[p].work[x] /\ \A q \in Paths \ {x} : fs[q] = old[q]
          BY <3>3 DEF Inventories
        <4>3. ASSUME NEW q \in Paths
              PROVE  /\ ContentOf(Here(r)[q]) = pod'[p].work[q]
                     /\ IF q \in pod'[p].todo
                        THEN pod'[p].work[q] # None /\ fs[q] \in {None, pod'[p].work[q]}
                        ELSE fs[q] = pod'[p].work[q] /\ Sent(r, fs, q)'
          <5>1. CASE q = x
            BY <3>1, <3>3, <4>2, <5>1
          <5>2. CASE q # x
            BY <3>1, <3>2, <3>3, <4>1, <4>2, <5>2
          <5> QED BY <5>1, <5>2
        <4> QED BY <2>6, <3>1, <3>3, <4>3
      <3>4. CASE HashFile(p)
        <4>1. PICK x \in pod[p].todo :
                LET c    == ContentOf(Here(r)[x])
                    held == blob[c] # None \/ Entries(r, [NoFiles EXCEPT ![x] = c])[x] = None
                IN IF c = None THEN Raise(p)
                   ELSE pod' = [pod EXCEPT ![p].files[x] = c,
                                           ![p].at = IF held THEN "publish" ELSE "put",
                                           ![p].todo = IF held THEN @ \ {x} ELSE @]
          BY <2>2, <3>4 DEF HashFile
        <4> DEFINE c    == ContentOf(Here(r)[x])
                   held == blob[c] # None \/ Entries(r, [NoFiles EXCEPT ![x] = c])[x] = None
        <4>2. x \in Paths /\ c = pod[p].work[x] /\ c \in Contents
          <5>1. x \in Paths
            BY <1>0 DEF PodRows
          <5> QED BY <2>3, <3>1, <4>1, <5>1
        <4>3. ~Raise(p)
          BY <1>0 DEF Raise, Go, PodRows
        <4>4. pod' = [pod EXCEPT ![p].files[x] = c,
                                 ![p].at = IF held THEN "publish" ELSE "put",
                                 ![p].todo = IF held THEN @ \ {x} ELSE @]
          BY <4>1, <4>3
        <4> HIDE DEF c, held
        <4>5. /\ fs = [old EXCEPT ![x] = c] /\ pod'[p].work = pod[p].work
              /\ pod'[p].at \in {"publish", "put"}
              /\ IF held THEN pod'[p].todo = pod[p].todo \ {x} ELSE pod'[p].todo = pod[p].todo
          BY <1>0, <2>4, <2>5, <4>4 DEF PodRows
        <4>6. held => Sent(r, fs, x)'
          <5> SUFFICES ASSUME held
                       PROVE  Sent(r, fs, x)
            BY <1>3, <2>2, <3>1, <4>2
          <5>1. PICK one \in Inventories : one = [NoFiles EXCEPT ![x] = c] /\ one[x] = c
            <6>1. NoFiles \in Inventories
              BY IdleFacts
            <6>2. /\ [NoFiles EXCEPT ![x] = c] \in Inventories
                  /\ [NoFiles EXCEPT ![x] = c][x] = c
              BY <4>2, <6>1 DEF Inventories
            <6> QED BY <6>2
          <5>2. fs[x] = c
            BY <4>2, <4>5 DEF Inventories
          <5>3. Entries(r, fs)[x] = Entries(r, one)[x]
            <6>1. fs[x] = one[x]
              BY <5>1, <5>2
            <6> QED BY <4>2, <6>1, EntryOf
          <5> QED BY <5>1, <5>2, <5>3 DEF Sent, held
        <4> QED BY <3>3, <4>2, <4>5, <4>6
      <3>5. CASE Put(p)
        <4>1. PICK x \in pod[p].todo :
                 /\ old[x] # None
                 /\ blob' = IF blob[old[x]] # None THEN blob
                            ELSE [blob EXCEPT ![old[x]] = [is |-> ContentOf(Here(r)[x]), old |-> FALSE]]
                 /\ Go(p, "publish", pod[p].todo \ {x}) \/ Raise(p)
          BY <2>2, <2>5, <3>5 DEF Put
        <4>2. x \in Paths /\ old[x] = pod[p].work[x] /\ old[x] \in Contents
          <5>1. x \in Paths
            BY <1>0 DEF PodRows
          <5> QED BY <3>1, <4>1, <5>1 DEF Inventories
        <4>3. Go(p, "publish", pod[p].todo \ {x})
          BY <1>0, <4>1 DEF Raise, Go, PodRows
        <4>4. /\ fs = old /\ pod'[p].work = pod[p].work /\ pod'[p].at = "publish"
              /\ pod'[p].todo = pod[p].todo \ {x}
          BY <1>0, <2>4, <2>5, <4>3 DEF Go, PodRows
        <4>5. fs = [old EXCEPT ![x] = pod[p].work[x]]
          BY <4>2, <4>4 DEF Inventories
        <4>6. blob'[old[x]] # None
          <5>1. ContentOf(Here(r)[x]) = old[x]
            BY <3>1, <4>2
          <5>2. [is |-> ContentOf(Here(r)[x]), old |-> FALSE] # None
            <6>1. [is |-> old[x], old |-> FALSE] \in BlobRows
              BY <4>2 DEF BlobRows
            <6> QED BY <5>1, <6>1, NoneAssumption
          <5> HIDE DEF Here, ContentOf
          <5> QED BY <1>0, <4>1, <4>2, <5>2
        <4>7. Sent(r, fs, x)'
          BY <4>4, <4>6 DEF Sent
        <4> QED BY <3>3, <4>2, <4>4, <4>5, <4>7
      <3> QED BY <2>8, <3>4, <3>5
    <2>9. CASE UploadManifest(p)
      <3>1. /\ pod[p].at = "publish" /\ pod[p].todo = {}
            /\ manifest' = [manifest EXCEPT ![r] = Manifest(r, old)]
            /\ pod'[p].at = "clean" /\ pod'[p].files = old /\ pod'[p].work = pod[p].work
        BY <1>0, <2>2, <2>5, <2>9 DEF UploadManifest, Key, Go, Raise, PodRows
      <3>2. old = pod[p].work
        <4>1. \A q \in Paths : old[q] = pod[p].work[q]
          BY <1>0, <2>2, <2>5, <3>1 DEF OutputInv
        <4>2. pod[p].work \in Inventories
          BY <1>0 DEF PodRows
        <4> QED BY <4>1, <4>2 DEF Inventories
      <3>3. Manifest(r, old)' = Manifest(r, old)
        BY <2>2, <3>1, PodFacts, UpstreamStays
      <3>4. manifest'[r] = Manifest(r, old)'
        BY <1>0, <3>1, <3>3
      <3> QED BY <2>1, <2>2, <3>1, <3>2, <3>4 DEF OutputInv, Manifest
    <2>10. CASE Clean(p)
      <3>1. /\ pod[p].at = "clean" /\ UNCHANGED manifest
            /\ pod'[p].files = old /\ pod'[p].work = pod[p].work /\ pod'[p].at = "commit"
        BY <1>0, <2>5, <2>10 DEF Clean, store, PodRows
      <3>2. Manifest(r, old)' = Manifest(r, old)
        BY <2>2, <3>1, PodFacts, UpstreamStays
      <3>3. manifest'[r] = Manifest(r, old)' /\ old = pod[p].work
        BY <1>0, <2>2, <2>5, <3>1, <3>2 DEF OutputInv
      <3> QED BY <2>1, <2>2, <3>1, <3>3 DEF OutputInv, Manifest
    <2> QED BY <1>5, <2>7, <2>8, <2>9, <2>10, OwnMoves
  <1> QED BY <1>4, <1>5

\* The manifest objects.
LEMMA ManifestNext ==
  ASSUME Inv, [Next]_vars, WorkspaceTypeOK', NEW r \in Runs
  PROVE  ManifestInv(r)' /\ (manifest[r] # None => manifest'[r] # None)
  <1>0. /\ manifest \in [Runs -> Manifests \cup {None}] /\ ManifestInv(r) /\ RowInv(r)
        /\ CollectInv
    BY DEF Inv, WorkspaceTypeOK
  <1>1. ASSUME NEW p \in Pods, UploadManifest(p), pod[p].run = r
        PROVE  ManifestInv(r)' /\ manifest'[r] # None
    <2>1. pod[p].at = "publish" /\ pod[p].todo = {} /\ UNCHANGED blob
      BY <1>1 DEF UploadManifest
    <2>2. OutputInv(p) /\ status[r] # "absent" /\ pod[p] \in PodRows
      BY <1>1, <2>1, PodFacts
    <2>3. PICK files \in Inventories : files = pod[p].files
      BY <2>2 DEF PodRows
    <2>4. manifest'[r] = Manifest(r, files)
      BY <1>0, <1>1, <2>3 DEF UploadManifest, Key
    <2>5. /\ Manifest(r, files) \in Manifests /\ Manifest(r, files).files = Entries(r, files)
          /\ Manifest(r, files).parent = ParentOf(r) /\ ParentOf(r)' = ParentOf(r)
      BY <2>2, ManifestType, UpstreamStays
    <2>6. ASSUME NEW q \in Paths, Entries(r, files)[q] # None
          PROVE  blob[Entries(r, files)[q]] # None
      <3>1. Sent(r, files, q)
        BY <1>1, <2>1, <2>2, <2>3 DEF OutputInv
      <3>2. Entries(r, files)[q] = files[q]
        BY <2>6, EntryOf
      <3> QED BY <2>6, <3>1, <3>2 DEF Sent
    <2> QED BY <2>1, <2>4, <2>5, <2>6, NoneAssumption DEF ManifestInv
  <1>2. CASE manifest'[r] = manifest[r] /\ manifest[r] # None
    <2>1. ParentOf(r)' = ParentOf(r)
      BY <1>0, <1>2, UpstreamStays DEF RowInv
    <2>2. ASSUME NEW q \in Paths, manifest[r].files[q] # None
          PROVE  blob'[manifest[r].files[q]] # None
      <3>1. PICK c \in Contents : c = manifest[r].files[q]
        BY <1>0, <1>2, <2>2 DEF Manifests, Inventories
      <3>2. blob[c] # None /\ c \in Marked
        BY <1>0, <1>2, <2>2, <3>1 DEF ManifestInv, Marked
      <3>3. collector = AtRest \/ c \notin collector
        BY <1>0, <3>2 DEF CollectInv
      <3> QED BY <3>1, <3>2, <3>3, BlobStays
    <2> QED BY <1>0, <1>2, <2>1, <2>2 DEF ManifestInv
  <1>3. CASE manifest'[r] = manifest[r] /\ manifest[r] = None
    BY <1>3 DEF ManifestInv
  <1> QED BY <1>1, <1>2, <1>3, ManifestStays

\* The collector has the house to itself.
LEMMA CollectNext ==
  ASSUME Inv, [Next]_vars
  PROVE  CollectInv'
  <1>0. CollectInv
    BY DEF Inv
  <1>1. UNCHANGED <<status, pod, manifest>> => (Quiescent' <=> Quiescent) /\ Marked' = Marked
    BY DEF Quiescent, PodsOf, Marked
  <1>2. CASE CollectBegin
    <2>1. UNCHANGED <<status, pod, manifest>> /\ Quiescent /\ collector' \cap Marked = {}
      BY <1>2 DEF CollectBegin, rows, store
    <2> QED BY <1>1, <2>1 DEF CollectInv
  <1>3. CASE CollectBlob
    <2>1. UNCHANGED <<status, pod, manifest>> /\ collector # AtRest /\ collector' \subseteq collector
      BY <1>3 DEF CollectBlob, rows
    <2> QED BY <1>0, <1>1, <2>1 DEF CollectInv
  <1>4. CASE CollectEnd \/ Age \/ UNCHANGED vars
    <2>1. UNCHANGED <<status, pod, manifest>> /\ (collector' = AtRest \/ collector' = collector)
      BY <1>4 DEF CollectEnd, Age, rows, store, vars
    <2> QED BY <1>0, <1>1, <2>1 DEF CollectInv, AtRest
  <1>5. ASSUME NEW r \in Runs, CreateRun(r) \/ Halt(r) \/ PublishByHand(r)
        PROVE  CollectInv'
    <2>1. collector = AtRest /\ UNCHANGED collector
      BY <1>5, NoCollection DEF CreateRun, Halt, PublishByHand
    <2> QED BY <2>1 DEF CollectInv, AtRest
  <1>6. ASSUME NEW r \in Runs, NEW p \in Pods, StartPod(p, r)
        PROVE  CollectInv'
    <2>1. collector = AtRest /\ UNCHANGED collector
      BY <1>6, NoCollection DEF StartPod
    <2> QED BY <2>1 DEF CollectInv, AtRest
  <1>7. ASSUME NEW p \in Pods, PodStep(p)
        PROVE  CollectInv'
    <2>1. collector = AtRest
      BY <1>7, OwnStep, NoCollection DEF PodsOf
    <2>2. UNCHANGED collector
      BY <1>7 DEF PodStep, Prepare, Load, RestoreFile, Restored, Compute, HandlerFails, PublishBegin,
                  HashFile, Put, UploadManifest, Clean, Commit, RecordFailure, Kill, KeepAll
    <2> QED BY <2>1, <2>2 DEF CollectInv, AtRest
  <1> QED BY <1>2, <1>3, <1>4, <1>5, <1>6, <1>7 DEF Next

\* The directories.
LEMMA KeptNext ==
  ASSUME Inv, [Next]_vars, WorkspaceTypeOK'
  PROVE  WorkKeptUntilPublished'
  <1>0. /\ WorkKeptUntilPublished /\ dir \in [Runs -> {"unmade", "kept", "removed"}]
        /\ manifest \in [Runs -> Manifests \cup {None}]
    BY DEF Inv, WorkspaceTypeOK
  <1> SUFFICES ASSUME NEW r \in Runs, Kind[r] # "overlay", dir'[r] = "removed"
               PROVE  manifest[r] # None
    BY ManifestNext DEF WorkKeptUntilPublished
  <1>1. CASE dir[r] = "removed"
    BY <1>0, <1>1 DEF WorkKeptUntilPublished
  <1>2. CASE dir[r] # "removed"
    <2>1. \E p \in Pods : PodStep(p)
      BY <1>0, <1>2 DEF Next, CollectBegin, CollectBlob, CollectEnd, Age, vars, CreateRun, Halt,
                        PublishByHand, StartPod, local
    <2>2. PICK p \in Pods : PodStep(p)
      BY <2>1
    <2>3. Clean(p)
      <3>1. CASE Prepare(p)
        BY <1>0, <1>2, <3>1 DEF Prepare, local
      <3> QED BY <1>0, <1>2, <2>2, <3>1
              DEF PodStep, Load, RestoreFile, Restored, Compute, HandlerFails, PublishBegin,
                  HashFile, Put, UploadManifest, Commit, RecordFailure, Kill, KeepAll, local
    <2>4. /\ Workspace(pod[p].run) = r
          /\ ~Preserved(pod[p].run, pod[p].at = "failing") /\ pod[p].at \in {"clean", "failing"}
      BY <1>0, <1>2, <2>3 DEF Clean
    <2>5. pod[p].run \in Runs
      BY <2>2, OwnStep
    <2>6. Kind[pod[p].run] # "overlay"
      BY <2>4, <2>5, RunFacts
    <2>7. pod[p].at = "clean" /\ Reuses[pod[p].run] = None /\ pod[p].run = r
      BY <2>4, <2>6 DEF Preserved, Workspace
    <2>8. manifest[r] = Manifest(r, pod[p].files)
      BY <2>7, PodFacts DEF OutputInv
    <2>9. Manifest(r, pod[p].files) \in Manifests
      BY <2>7, PodFacts, ManifestType DEF PodRows
    <2> QED BY <2>8, <2>9, NoneAssumption
  <1> QED BY <1>1, <1>2

-----------------------------------------------------------------------------
(* The theorems. *)

LEMMA InvInit == Init => Inv
  <1> SUFFICES ASSUME Init
               PROVE  Inv
    OBVIOUS
  <1>1. WorkspaceTypeOK
    BY IdleFacts, WorkspacesAssumption
       DEF Init, WorkspaceTypeOK, NoFiles, AtRest
  <1>2. CacheInv /\ CollectInv /\ WorkKeptUntilPublished
    BY DEF Init, CacheInv, CollectInv, WorkKeptUntilPublished, NoFiles
  <1>3. ASSUME NEW r \in Runs
        PROVE  RowInv(r) /\ ManifestInv(r)
    BY DEF Init, RowInv, ManifestInv
  <1>4. ASSUME NEW p \in Pods
        PROVE  PodInv(p) /\ InputsInv(p) /\ OutputInv(p)
    <2>1. pod[p] = Idle
      BY DEF Init
    <2> QED BY <2>1, IdleFacts DEF PodInv, InputsInv, OutputInv, Works
  <1> QED BY <1>1, <1>2, <1>3, <1>4 DEF Inv

LEMMA InvNext == Inv /\ [Next]_vars => Inv'
  <1> SUFFICES ASSUME Inv, [Next]_vars
               PROVE  Inv'
    OBVIOUS
  <1>1. WorkspaceTypeOK'
    BY TypeNext
  <1>2. CacheInv' /\ CollectInv' /\ WorkKeptUntilPublished'
    BY <1>1, CacheNext, CollectNext, KeptNext
  <1>3. \A r \in Runs : RowInv(r)' /\ ManifestInv(r)'
    BY <1>1, RowNext, ManifestNext
  <1>4. \A p \in Pods : PodInv(p)' /\ InputsInv(p)' /\ OutputInv(p)'
    BY <1>1, PodNext, InputsNext, OutputNext
  <1> QED BY <1>1, <1>2, <1>3, <1>4 DEF Inv

\* An artifact that is bound, of a run nobody published beside a Pod, nor the run
\* it is laid over, can be restored and is what its execution had before it.
LEMMA InvRestorable == Inv => ArtifactsRestorable
  <1> SUFFICES ASSUME Inv, NEW r \in Runs, status[r] = "success", r \notin beside,
                      Kind[r] = "overlay" => Upstream[r] \notin beside
               PROVE  /\ Loadable(r, artifact[r])
                      /\ \A q \in Paths : Resolved(artifact[r])[q] # None =>
                             Fetchable(Resolved(artifact[r])[q])
                      /\ Resolved(artifact[r]) = made[r]
    BY DEF ArtifactsRestorable
  <1>0. /\ blob \in [Contents -> BlobRows \cup {None}]
        /\ \A c \in Contents : blob[c] # None => blob[c].is = c
        /\ artifact \in [Runs -> Manifests \cup {None}]
    BY DEF Inv, WorkspaceTypeOK
  <1>1. RowInv(r) /\ ManifestInv(r)
    BY DEF Inv
  <1>2. Final(r) /\ artifact[r] \in Manifests /\ artifact[r].parent = ParentOf(r)
    BY <1>0, <1>1 DEF RowInv
  \* The files a manifest names have their blobs.
  <1>3. ASSUME NEW x \in Runs, Final(x), ManifestInv(x), artifact[x] \in Manifests,
               NEW q \in Paths, artifact[x].files[q] # None
        PROVE  Fetchable(artifact[x].files[q])
    <2>1. manifest[x] = artifact[x] /\ manifest[x] # None
      BY <1>3, ResolvedType DEF Final
    <2>2. blob[artifact[x].files[q]] # None
      BY <1>3, <2>1 DEF ManifestInv
    <2>3. artifact[x].files[q] \in Contents
      BY <1>3, ResolvedType DEF Inventories
    <2> QED BY <1>0, <2>2, <2>3 DEF Fetchable
  <1>4. CASE Kind[r] # "overlay"
    <2>1. artifact[r].parent = None /\ Resolved(artifact[r]) = artifact[r].files
      BY <1>2, <1>4 DEF ParentOf, Resolved
    <2> QED BY <1>1, <1>2, <1>3, <2>1 DEF Final, Loadable
  <1>5. CASE Kind[r] = "overlay"
    <2> DEFINE u == Upstream[r]
    <2>1. /\ u \in Runs /\ u \notin beside /\ artifact[u] \in PlainManifests
          /\ artifact[u] \in Manifests /\ Binding(r) # None
      BY <1>5, RunFacts, Inputs, NoneAssumption
    <2>2. Final(u) /\ ManifestInv(u)
      <3>1. RowInv(u) /\ ManifestInv(u)
        BY <2>1 DEF Inv
      <3> QED BY <2>1, <3>1, ResolvedType DEF RowInv
    <2>3. artifact[r].parent = Binding(r) /\ artifact[r].parent # None
      BY <1>2, <1>5, <2>1 DEF ParentOf
    <2>4. Binding(r).key = u /\ Binding(r).is = artifact[u]
      BY DEF Binding
    <2>5. Loadable(r, artifact[r])
      BY <1>2, <2>2, <2>3, <2>4 DEF Final, Loadable
    <2>6. Resolved(artifact[r]) = Overlaid(artifact[u].files, artifact[r].files)
      BY <2>3, <2>4 DEF Resolved
    <2>7. ASSUME NEW q \in Paths, Resolved(artifact[r])[q] # None
          PROVE  Fetchable(Resolved(artifact[r])[q])
      <3>1. \/ /\ artifact[r].files[q] # None
               /\ Resolved(artifact[r])[q] = artifact[r].files[q]
            \/ /\ artifact[u].files[q] # None
               /\ Resolved(artifact[r])[q] = artifact[u].files[q]
        BY <2>6, <2>7 DEF Overlaid
      <3> QED BY <1>1, <1>2, <1>3, <2>1, <2>2, <3>1
    <2> QED BY <1>2, <2>5, <2>7 DEF Final
  <1> QED BY <1>4, <1>5

\* The rows, the stores, the directories and the Pods have their types, and no blob
\* is stored under a digest it does not have.
THEOREM WorkspacesTyped == Spec => []WorkspaceTypeOK
  <1>1. Inv => WorkspaceTypeOK
    BY DEF Inv
  <1> QED BY <1>1, InvInit, InvNext, PTL DEF Spec

\* A published artifact can be restored at any time, exactly as it was made,
\* whichever Pods die, run on after their run has ended or are started again, and
\* whatever is collected (publish_workspace, restore_workspace_measured, cas_gc).
THEOREM RestorableCorrect == Spec => []ArtifactsRestorable
  BY InvInit, InvNext, InvRestorable, PTL DEF Spec

\* A stage computes from its upstream artifact and nothing else, whatever is left in
\* a directory and whatever the cache remembers (restore_workspace_measured).
THEOREM InputsCorrect == Spec => []ExactInputs
  <1>1. Inv => ExactInputs
    BY DEF Inv, InputsInv, ExactInputs
  <1> QED BY <1>1, InvInit, InvNext, PTL DEF Spec

\* The only copy of an attempt's work is not removed before it is published
\* (_cleanup_stage_workspace).
THEOREM WorkKeptCorrect == Spec => []WorkKeptUntilPublished
  <1>1. Inv => WorkKeptUntilPublished
    BY DEF Inv
  <1> QED BY <1>1, InvInit, InvNext, PTL DEF Spec
===============================================================================
