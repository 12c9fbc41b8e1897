--------------------------- MODULE ArtifactWorkspaces ---------------------------
(***************************************************************************)
(* The files a stage works on, between the object store and the local work *)
(* root of its Pod. A stage restores its upstream artifact into a workspace *)
(* directory under an exclusive lock, computes in place, publishes what it *)
(* made as content-addressed blobs and a manifest over them, and removes   *)
(* or keeps the directory. Pods die at any point, their work root (a bound *)
(* volume) does not; a run ends under the feet of its Pod; a retry may be  *)
(* allowed to take over the directory of the attempt that failed; and a    *)
(* maintenance command collects blobs no manifest refers to.               *)
(*                                                                         *)
(* A file is its content, a content is its SHA-256 digest. A manifest is   *)
(* identified by its value, as the checksum in an artifact row does. Sizes,*)
(* roles, tenants and cancellation between two files are left out.         *)
(***************************************************************************)
EXTENDS Naturals, FiniteSets

CONSTANTS
    Runs, Pods, Paths, Contents,
    None,         \* no value; not a run, Pod, path or content
    Upstream,     \* the run whose artifact a run restores, or None
    Reuses,       \* the failed attempt whose directory a retry takes over, or None
    Kind,         \* "workspace", "product" or "overlay": how a run publishes
    Selected,     \* the paths a run restores
    ByHand,       \* the runs an administrator may publish
    MaxStarts,    \* bounds the Pods ever started
    Faults        \* what the environment may do: "kill", "halt", "request"

ASSUME WorkspacesAssumption ==
    /\ Upstream \in [Runs -> Runs \cup {None}]
    /\ Reuses \in [Runs -> Runs \cup {None}]
    /\ Kind \in [Runs -> {"workspace", "product", "overlay"}]
    /\ Selected \in [Runs -> SUBSET Paths]
    /\ ByHand \subseteq Runs /\ MaxStarts \in Nat
    \* A chain of manifests is at most one parent long: detection publishes over
    \* a plain artifact. A directory that is taken over is one that has a lock.
    /\ \A r \in Runs : Kind[r] = "overlay" =>
           Reuses[r] = None /\ Upstream[r] # None /\ Kind[Upstream[r]] # "overlay"
    /\ \A r \in Runs : Reuses[r] # None => Kind[Reuses[r]] # "overlay"

VARIABLES
    status,     \* the run rows: "absent", "running", "success" or "failed"
    artifact,   \* the manifest whose checksum the artifact row of a run holds
    blob,       \* per digest: None, or the content stored and whether it is past its grace
    manifest,   \* the manifest object under the key of a run, or None
    dir,        \* the workspace directory of a run: "unmade", "kept" or "removed"
    file,       \* its files: None, or a content and what the cache vouches for
    holder,     \* the Pod that holds the lock of the directory
    pod,        \* what the process of a Pod is doing
    starts,     \* Pods started so far
    collector,  \* the maintenance command: at rest, or the digests it has to delete
    made,       \* history: the files a run's publication was taken from
    beside      \* history: the runs published by hand while a Pod of theirs worked

store == <<blob, manifest>>
local == <<dir, file, holder>>
rows  == <<status, artifact, made, beside>>
vars  == <<rows, store, local, pod, starts, collector>>

NoFiles == [q \in Paths |-> None]
Idle == [at |-> "none", run |-> None, todo |-> {}, files |-> NoFiles, work |-> NoFiles]

AtRest == {None}

\* The directory a run works in, and the one whose lock it takes.
Workspace(r) == IF Reuses[r] # None THEN Reuses[r] ELSE r
Here(r)      == file[Workspace(r)]
ContentOf(f) == IF f = None THEN None ELSE f.is
Snapshot(r)  == [p \in Paths |-> ContentOf(Here(r)[p])]

\* What a write leaves for the cache to find: device, inode, size and times no
\* longer are those remembered, whatever the cache said of the file before.
Vouched(f)            == IF f = None THEN None ELSE f.vouched
WrittenUnnoticed(f, c) == [is |-> c, vouched |-> Vouched(f)]
Written(f, c)         == [is |-> c, vouched |-> None]
Verified(c, cached)   == [is |-> c, vouched |-> IF cached THEN c ELSE None]

-----------------------------------------------------------------------------
(* Manifests                                                               *)

Inventories    == [Paths -> Contents \cup {None}]
PlainManifests == [files : Inventories, parent : {None}]
Bindings       == [key : Runs, is : PlainManifests]
Manifests      == [files : Inventories, parent : Bindings \cup {None}]

FileRows == [is : Contents, vouched : Contents \cup {None}]
BlobRows == [is : Contents, old : BOOLEAN]

ASSUME NoneAssumption ==
    /\ None \notin Runs \cup Pods \cup Contents
    /\ None \notin FileRows \cup BlobRows \cup Bindings \cup Manifests

Overlaid(below, above) ==
    [p \in Paths |-> IF above[p] # None THEN above[p] ELSE below[p]]

\* _load_manifest_overlay: the files of a manifest over those of its parents.
\* A chain here is at most one parent long.
Resolved(m) == IF m.parent = None THEN m.files ELSE Overlaid(m.parent.is.files, m.files)

\* The manifest under a key is the one expected, and so is every parent.
Loadable(r, m) ==
    /\ manifest[r] = m
    /\ m.parent # None => manifest[m.parent.key] = m.parent.is

Binding(r) == [key |-> Upstream[r], is |-> artifact[Upstream[r]]]

EntriesByName(r, files) ==
    IF Kind[r] # "overlay" THEN files
    ELSE LET below == Resolved(artifact[Upstream[r]])
         IN [p \in Paths |-> IF below[p] # None THEN None ELSE files[p]]

\* publish_workspace: what becomes an entry of the manifest. A path whose content
\* is the parent's stays inherited; a product takes no parent.
Entries(r, files) ==
    IF Kind[r] # "overlay" THEN files
    ELSE LET below == Resolved(artifact[Upstream[r]])
         IN [p \in Paths |-> IF files[p] = below[p] THEN None ELSE files[p]]

Manifest(r, files) ==
    [files  |-> Entries(r, files),
     parent |-> IF Kind[r] = "overlay" THEN Binding(r) ELSE None]

-----------------------------------------------------------------------------
(* Rows and Pods                                                           *)

\* A run is created once its upstream artifact exists; a retry that reuses a
\* directory only beside an attempt that failed.
CreateRun(r) ==
    /\ status[r] = "absent"
    /\ collector = AtRest
    /\ Upstream[r] # None => status[Upstream[r]] = "success"
    /\ Reuses[r] # None => status[Reuses[r]] = "failed"
    /\ status' = [status EXCEPT ![r] = "running"]
    /\ UNCHANGED <<artifact, made, beside, store, local, pod, starts, collector>>

PodsOf(r) == {p \in Pods : pod[p].run = r}

\* A Pod of the run's Job loads its context; a vanished Job is created again only
\* when no Pod of the run is left.
StartPod(p, r) ==
    /\ pod[p] = Idle /\ starts < MaxStarts
    /\ status[r] = "running" /\ PodsOf(r) = {}
    /\ pod' = [pod EXCEPT ![p] = [Idle EXCEPT !.at = "prepare", !.run = r]]
    /\ starts' = starts + 1
    /\ UNCHANGED <<rows, store, local, collector>>

\* The Pod is killed: its lock goes with the process, its files stay.
Kill(p) ==
    /\ "kill" \in Faults /\ pod[p] # Idle
    /\ pod' = [pod EXCEPT ![p] = Idle]
    /\ holder' = [d \in Runs |-> IF holder[d] = p THEN None ELSE holder[d]]
    /\ UNCHANGED <<rows, store, dir, file, starts, collector>>

\* The reconciler, a deadline or a cancellation ends the run; its Pod goes on
\* until it looks, or until it is killed.
Halt(r) ==
    /\ "halt" \in Faults /\ status[r] = "running"
    /\ status' = [status EXCEPT ![r] = "failed"]
    /\ UNCHANGED <<artifact, made, beside, store, local, pod, starts, collector>>

Go(p, at, todo) == pod' = [pod EXCEPT ![p].at = at, ![p].todo = todo]
KeepAll == UNCHANGED <<rows, store, local, starts, collector>>

\* An exception leaves the handler.
Raise(p) == Go(p, "failing", {})

-----------------------------------------------------------------------------
(* Restoring                                                               *)

LockIgnored(d) == TRUE
LockFree(d)    == holder[d] = None

\* The lock is not waited for: a directory in use fails the run, as does one to
\* be taken over that is gone. Nothing is there to clean then, so the failure is
\* recorded at once. Detection has no lock; it starts from an empty directory.
Prepare(p) ==
    LET r == pod[p].run
        d == Workspace(r)
    IN /\ pod[p].at = "prepare"
       /\ \/ /\ Kind[r] # "overlay" /\ LockFree(d)
             /\ Reuses[r] # None => dir[d] = "kept"
             /\ holder' = [holder EXCEPT ![d] = p]
             /\ dir' = [dir EXCEPT ![d] = "kept"]
             /\ Go(p, IF Upstream[r] = None THEN "compute" ELSE "load", {})
             /\ UNCHANGED file
          \/ /\ Kind[r] = "overlay"
             /\ dir' = [dir EXCEPT ![d] = "kept"]
             /\ file' = [file EXCEPT ![d] = NoFiles]
             /\ Go(p, "load", {})
             /\ UNCHANGED holder
          \/ /\ Kind[r] # "overlay"
             /\ ~LockFree(d) \/ (Reuses[r] # None /\ dir[d] # "kept")
             /\ Go(p, "record_failure", {})
             /\ UNCHANGED local
       /\ UNCHANGED <<rows, store, starts, collector>>

Managed(r) == {q \in Selected[r] : Resolved(artifact[Upstream[r]])[q] # None}

\* An attempt that takes over a directory keeps nothing the manifest does not name.
PrunedNothing(r) == Here(r)
Pruned(r) ==
    IF Reuses[r] = None THEN Here(r)
    ELSE [q \in Paths |-> IF q \in Managed(r) THEN Here(r)[q] ELSE None]

Load(p) ==
    LET r == pod[p].run
    IN /\ pod[p].at = "load"
       /\ IF Loadable(Upstream[r], artifact[Upstream[r]])
          THEN /\ file' = [file EXCEPT ![Workspace(r)] = Pruned(r)]
               /\ Go(p, "restore", Managed(r))
          ELSE Raise(p) /\ UNCHANGED file
       /\ UNCHANGED <<rows, store, dir, holder, starts, collector>>

\* One file: reused if the cache vouches for it or its digest is right, else
\* downloaded beside, verified and renamed. Whether the cache entry survives is
\* open: entries are flushed in batches and as far as possible.
Reusable(f, c)   == f # None /\ (Vouched(f) = c \/ f.is = c)
Fetchable(c)     == blob[c] # None /\ blob[c].is = c

RestoreFile(p) ==
    LET r == pod[p].run
        d == Workspace(r)
    IN /\ pod[p].at = "restore"
       /\ \E q \in pod[p].todo, cached \in BOOLEAN :
            LET c == Resolved(artifact[Upstream[r]])[q]
                f == file[d][q]
            IN IF Reusable(f, c) \/ Fetchable(c)
               THEN /\ file' = [file EXCEPT ![d][q] =
                           IF f # None /\ Vouched(f) = c THEN f
                           ELSE Verified(c, cached /\ Kind[r] # "overlay")]
                    /\ Go(p, "restore", pod[p].todo \ {q})
               ELSE Raise(p) /\ UNCHANGED file
       /\ UNCHANGED <<rows, store, dir, holder, starts, collector>>

Restored(p) ==
    /\ pod[p].at = "restore" /\ pod[p].todo = {}
    /\ Go(p, "compute", {}) /\ KeepAll

\* The stage writes its files, the restored ones among them, any number of times.
Compute(p) ==
    LET d == Workspace(pod[p].run)
    IN /\ pod[p].at = "compute"
       /\ \E q \in Paths, c \in Contents :
            file' = [file EXCEPT ![d][q] = Written(file[d][q], c)]
       /\ UNCHANGED <<rows, store, dir, holder, pod, starts, collector>>

\* A request fails, the computation does, or the heartbeat found the run ended.
HandlerFails(p) ==
    /\ pod[p].at \in {"load", "restore", "compute", "publish"}
    /\ "request" \in Faults \/ status[pod[p].run] # "running"
    /\ Raise(p) /\ KeepAll

-----------------------------------------------------------------------------
(* Publishing                                                              *)

\* A product publishes the files its stage declares, a workspace all there are.
Included(r) == {q \in Paths : Here(r)[q] # None}
Complete(r) == Kind[r] = "product" => Included(r) = Paths

ParentsLoad(r) == Kind[r] = "overlay" => Loadable(Upstream[r], artifact[Upstream[r]])

PublishBegin(p) ==
    LET r == pod[p].run
    IN /\ pod[p].at = "compute"
       /\ IF Complete(r) /\ ParentsLoad(r)
          THEN pod' = [pod EXCEPT ![p].at = "publish", ![p].todo = Included(r),
                                  ![p].work = Snapshot(r)]
          ELSE Raise(p)
       /\ KeepAll

\* A file is hashed. One that is inherited, or whose blob is there, is done; the
\* blob's metadata is believed, its bytes are not read. One that vanished fails.
HashFile(p) ==
    LET r == pod[p].run
    IN /\ pod[p].at = "publish"
       /\ \E q \in pod[p].todo :
            LET c    == ContentOf(Here(r)[q])
                held == blob[c] # None \/ Entries(r, [NoFiles EXCEPT ![q] = c])[q] = None
            IN IF c = None THEN Raise(p)
               ELSE pod' = [pod EXCEPT ![p].files[q] = c,
                                       ![p].at = IF held THEN "publish" ELSE "put",
                                       ![p].todo = IF held THEN @ \ {q} ELSE @]
       /\ KeepAll

\* The conditional write sends the file as it is now; a conflict is answered by
\* the object somebody else wrote. An error may hide a write that took place.
Put(p) ==
    /\ pod[p].at = "put"
    /\ \E q \in {x \in pod[p].todo : pod[p].files[x] # None} :
         LET c == pod[p].files[q]
         IN /\ Here(pod[p].run)[q] # None
            /\ blob' = IF blob[c] # None THEN blob
                       ELSE [blob EXCEPT ![c] =
                               [is |-> ContentOf(Here(pod[p].run)[q]), old |-> FALSE]]
            /\ \/ Go(p, "publish", pod[p].todo \ {q})
               \/ "request" \in Faults /\ Raise(p)
    /\ UNCHANGED <<rows, manifest, local, starts, collector>>

\* The manifest object has the run in its key and is simply overwritten.
KeyOfStage(r) == CHOOSE s \in Runs : Kind[s] = Kind[r] /\ Upstream[s] = Upstream[r]
Key(r) == r

UploadManifest(p) ==
    LET r == pod[p].run
    IN /\ pod[p].at = "publish" /\ pod[p].todo = {}
       /\ manifest' = [manifest EXCEPT ![Key(r)] = Manifest(r, pod[p].files)]
       /\ \/ Go(p, "clean", {})
          \/ "request" \in Faults /\ Raise(p)
       /\ UNCHANGED <<rows, blob, local, starts, collector>>

\* _cleanup_stage_workspace: an exception and a directory taken over keep it, so
\* does a deletion that fails. Detection never keeps it.
PreservedForReuse(r, raised) == Kind[r] # "overlay" /\ Reuses[r] # None
Preserved(r, raised) == Kind[r] # "overlay" /\ (raised \/ Reuses[r] # None)

Clean(p) ==
    LET r == pod[p].run
        d == Workspace(r)
        raised == pod[p].at = "failing"
    IN /\ pod[p].at \in {"clean", "failing"}
       /\ \/ /\ ~Preserved(r, raised)
             /\ dir' = [dir EXCEPT ![d] = "removed"]
             /\ file' = [file EXCEPT ![d] = NoFiles]
          \/ /\ Preserved(r, raised) \/ "request" \in Faults
             /\ UNCHANGED <<dir, file>>
       /\ holder' = [x \in Runs |-> IF holder[x] = p THEN None ELSE holder[x]]
       /\ pod' = [pod EXCEPT ![p].at = IF raised THEN "record_failure" ELSE "commit"]
       /\ UNCHANGED <<rows, store, starts, collector>>

\* _publish_result: the row takes the artifact only while the run is running.
Commit(p) ==
    LET r == pod[p].run
        m == Manifest(r, pod[p].files)
    IN /\ pod[p].at = "commit"
       /\ \/ /\ status[r] = "running"
             /\ status' = [status EXCEPT ![r] = "success"]
             /\ artifact' = [artifact EXCEPT ![r] = m]
             /\ made' = [made EXCEPT ![r] =
                   IF Kind[r] # "overlay" THEN pod[p].work
                   ELSE Overlaid(Resolved(artifact[Upstream[r]]), pod[p].work)]
             /\ pod' = [pod EXCEPT ![p] = Idle]
             /\ UNCHANGED beside
          \/ /\ status[r] # "running" \/ "request" \in Faults
             /\ Go(p, "record_failure", {})
             /\ UNCHANGED rows
       /\ UNCHANGED <<store, local, starts, collector>>

\* _mark_terminal looks at no status before it writes.
RecordFailure(p) ==
    /\ pod[p].at = "record_failure"
    /\ status' = [status EXCEPT ![pod[p].run] = "failed"]
    /\ pod' = [pod EXCEPT ![p] = Idle]
    /\ UNCHANGED <<artifact, made, beside, store, local, starts, collector>>

\* An administrator publishes the manifest found under the key of a running run.
PublishByHand(r) ==
    /\ r \in ByHand /\ status[r] = "running" /\ manifest[r] # None
    /\ status' = [status EXCEPT ![r] = "success"]
    /\ artifact' = [artifact EXCEPT ![r] = manifest[r]]
    /\ made' = [made EXCEPT ![r] = Resolved(manifest[r])]
    /\ beside' = IF PodsOf(r) = {} THEN beside ELSE beside \cup {r}
    /\ UNCHANGED <<store, local, pod, starts, collector>>

-----------------------------------------------------------------------------
(* Collection                                                              *)

\* The command holds the organization and its missions locked, which keeps new
\* runs out, and wants every stage writer of the past confirmed gone.
QuiescenceAssumed == TRUE
Quiescent == \A r \in Runs : status[r] # "running" /\ PodsOf(r) = {}

\* Every manifest that is left is a root, also of a publication that failed.
Marked == {c \in Contents : \E r \in Runs : /\ manifest[r] # None
                                            /\ \E q \in Paths : manifest[r].files[q] = c}

CollectBegin ==
    /\ collector = AtRest /\ Quiescent
    /\ \E c \in Contents : blob[c] # None
    /\ collector' = {c \in Contents \ Marked : blob[c] # None /\ blob[c].old}
    /\ UNCHANGED <<rows, store, local, pod, starts>>

CollectBlob ==
    /\ collector # AtRest
    /\ \E c \in collector :
         /\ blob' = [blob EXCEPT ![c] = None]
         /\ collector' = collector \ {c}
    /\ UNCHANGED <<rows, manifest, local, pod, starts>>

\* It is done, or dies.
CollectEnd ==
    /\ collector # AtRest /\ collector' = AtRest
    /\ UNCHANGED <<rows, store, local, pod, starts>>

\* Days pass; no Pod lives that long (active_deadline_seconds).
Age ==
    /\ \A p \in Pods : pod[p] = Idle
    /\ \E c \in Contents : blob[c] # None /\ ~blob[c].old
    /\ blob' = [c \in Contents |-> IF blob[c] = None THEN None ELSE [blob[c] EXCEPT !.old = TRUE]]
    /\ UNCHANGED <<rows, manifest, local, pod, starts, collector>>

-----------------------------------------------------------------------------
Init ==
    /\ status = [r \in Runs |-> "absent"] /\ artifact = [r \in Runs |-> None]
    /\ made = [r \in Runs |-> None] /\ beside = {}
    /\ blob = [c \in Contents |-> None] /\ manifest = [r \in Runs |-> None]
    /\ dir = [r \in Runs |-> "unmade"] /\ file = [r \in Runs |-> NoFiles]
    /\ holder = [r \in Runs |-> None]
    /\ pod = [p \in Pods |-> Idle] /\ starts = 0 /\ collector = AtRest

PodStep(p) ==
    \/ Prepare(p) \/ Load(p) \/ RestoreFile(p) \/ Restored(p) \/ Compute(p)
    \/ HandlerFails(p) \/ PublishBegin(p) \/ HashFile(p) \/ Put(p)
    \/ UploadManifest(p) \/ Clean(p) \/ Commit(p) \/ RecordFailure(p) \/ Kill(p)

Next ==
    \/ \E r \in Runs : CreateRun(r) \/ Halt(r) \/ PublishByHand(r)
    \/ \E p \in Pods, r \in Runs : StartPod(p, r)
    \/ \E p \in Pods : PodStep(p)
    \/ CollectBegin \/ CollectBlob \/ CollectEnd \/ Age

Spec == Init /\ [][Next]_vars

-----------------------------------------------------------------------------
(* Properties                                                              *)

Positions  == {"none", "prepare", "load", "restore", "compute", "publish", "put",
               "clean", "failing", "commit", "record_failure"}

PodRows == [at : Positions, run : Runs \cup {None}, todo : SUBSET Paths,
            files : Inventories, work : Inventories]

\* The type invariant; in particular no blob is stored under a digest it does not
\* have, so no content was changed between hashing and sending it.
WorkspaceTypeOK ==
    /\ status \in [Runs -> {"absent", "running", "success", "failed"}]
    /\ artifact \in [Runs -> Manifests \cup {None}]
    /\ made \in [Runs -> Inventories \cup {None}] /\ beside \subseteq Runs
    /\ blob \in [Contents -> BlobRows \cup {None}]
    /\ \A c \in Contents : blob[c] # None => blob[c].is = c
    /\ manifest \in [Runs -> Manifests \cup {None}]
    /\ dir \in [Runs -> {"unmade", "kept", "removed"}]
    /\ file \in [Runs -> [Paths -> FileRows \cup {None}]]
    /\ holder \in [Runs -> Pods \cup {None}]
    /\ pod \in [Pods -> PodRows]
    /\ starts \in 0..MaxStarts
    /\ collector = AtRest \/ collector \subseteq Contents

\* A published artifact can be restored, at any time: its manifest and its parent's
\* are the ones whose checksums were recorded, every blob is there with the bytes
\* its key names, and together they are exactly the files the execution that was
\* recorded had before it (publish_workspace, cas_gc, tools/collect_cas.py). A run
\* published by hand beside a Pod of its own is excused, as is what is laid over
\* its artifact: that Pod may still overwrite the manifest.
ArtifactsRestorable ==
    \A r \in Runs :
      /\ status[r] = "success" /\ r \notin beside
      /\ Kind[r] = "overlay" => Upstream[r] \notin beside
      =>
        /\ Loadable(r, artifact[r])
        /\ \A q \in Paths : Resolved(artifact[r])[q] # None =>
               Fetchable(Resolved(artifact[r])[q])
        /\ Resolved(artifact[r]) = made[r]

\* What a stage computes from is its upstream artifact: a file that was restored
\* has the content the manifest says until the computation starts, whatever an
\* earlier attempt, a straggling Pod or a remembered verification left there; and
\* a directory that was taken over holds nothing else (restore_workspace_measured
\* and its exact inventory, _acquire_local_workspace_lock).
ExactInputs ==
    \A p \in Pods : pod[p].at = "restore" =>
        LET r == pod[p].run
        IN \A q \in Paths :
             IF q \in Managed(r)
             THEN q \notin pod[p].todo =>
                    ContentOf(Here(r)[q]) = Resolved(artifact[Upstream[r]])[q]
             ELSE Reuses[r] # None => Here(r)[q] = None

\* The files of an attempt are removed only after it has published them: an
\* attempt that fails before that leaves them for a retry, and a retry that took
\* them over leaves them too (_cleanup_stage_workspace).
WorkKeptUntilPublished ==
    \A r \in Runs : Kind[r] # "overlay" /\ dir[r] = "removed" => manifest[r] # None

=============================================================================
