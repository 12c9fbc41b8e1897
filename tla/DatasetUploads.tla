--------------------------- MODULE DatasetUploads ---------------------------
(***************************************************************************)
(* Direct uploads of datasets: sessions and the catalogue in the database, *)
(* multipart uploads, objects and a manifest in the object store, and the  *)
(* reconciler that brings the two together again after a crash.            *)
(*                                                                         *)
(* One dataset name of one organization, hence one prefix: every session   *)
(* uploads to the same keys. A transition locks the row of its session for *)
(* as long as it talks to the object store, so that it is one step here;   *)
(* what may come apart is its effect on the store, kept, and its commit,   *)
(* lost. A dataset is named after the session that uploaded it. Every      *)
(* session asks for one unit of the quota.                                 *)
(***************************************************************************)
EXTENDS Integers, FiniteSets

CONSTANTS
    Sessions,       \* creation requests
    Files,          \* file names, and so the keys of the prefix
    FilesOf,        \* the files each session asks for
    Deleters,       \* dataset deletion requests that may run at once
    NoSession,
    Limits,         \* storage limits, in sessions
    MaxFailures     \* bound on failed requests and lost commits

ASSUME UploadAssumption ==
    /\ FilesOf \in [Sessions -> (SUBSET Files) \ {{}}]
    /\ IsFiniteSet(Sessions) /\ NoSession \notin Sessions
    /\ Limits \subseteq Nat /\ MaxFailures \in Nat

VARIABLES
    request,        \* how far each creation request is
    session,        \* [status, expired] of each upload session
    file,           \* the status of each file of each session
    dataset,        \* the catalogue row of each session's dataset
    missions,       \* the datasets that missions refer to
    ledger,         \* the idempotency keys of the storage usage ledger
    multipart,      \* the multipart upload of each file of each session
    object,         \* the object under each key
    manifest,       \* the session the stored manifest describes
    deleter,        \* how far each deletion request is
    limit,          \* the storage limit
    overlapped,     \* history: sessions created beside another command on the name
    refusedHeader,  \* history: files of sessions refused for their header
    failures

database == <<session, file, dataset, missions, ledger>>
store    == <<multipart, object, manifest>>
vars == <<request, database, store, deleter, limit, overlapped, refusedHeader, failures>>

SessionStatuses == {"absent", "initializing", "uploading", "finalizing", "completed",
                    "failed", "aborted"}
FileStatuses == {"absent", "initializing", "uploading", "completing", "completed",
                 "failed", "aborted"}
DatasetStatuses == {"absent", "ready", "deleting", "deletion_failed", "deleted"}
Contents == {"valid", "wrong_header"}
NoObject == [owner |-> NoSession, content |-> "valid"]

ACTIVE_UPLOAD_STATUSES == {"initializing", "uploading", "finalizing", "failed"}
Active(s) == session[s].status \in ACTIVE_UPLOAD_STATUSES
Live(s) == dataset[s] \notin {"absent", "deleted"}

UploadTypeOK ==
    /\ request \in [Sessions -> {"none", "looked", "done"}]
    /\ session \in [Sessions -> [status : SessionStatuses, expired : BOOLEAN]]
    /\ file \in [Sessions -> [Files -> FileStatuses]]
    /\ dataset \in [Sessions -> DatasetStatuses]
    /\ missions \subseteq Sessions
    /\ ledger \subseteq {"reserved", "upload_released", "dataset_released"} \X Sessions
    /\ multipart \in [Sessions -> [Files -> {"none", "empty"} \cup Contents]]
    /\ object \in [Files -> [owner : Sessions \cup {NoSession}, content : Contents]]
    /\ manifest \in Sessions \cup {NoSession}
    /\ deleter \in [Deleters -> {"idle", "purging", "completing", "failing"}]
    /\ limit \in Limits
    /\ overlapped \subseteq Sessions
    /\ refusedHeader \subseteq Sessions \X Files
    /\ failures \in 0..MaxFailures

Init ==
    /\ request = [s \in Sessions |-> "none"]
    /\ session = [s \in Sessions |-> [status |-> "absent", expired |-> FALSE]]
    /\ file = [s \in Sessions |-> [f \in Files |-> "absent"]]
    /\ dataset = [s \in Sessions |-> "absent"]
    /\ missions = {} /\ ledger = {}
    /\ multipart = [s \in Sessions |-> [f \in Files |-> "none"]]
    /\ object = [f \in Files |-> NoObject]
    /\ manifest = NoSession
    /\ deleter = [d \in Deleters |-> "idle"]
    /\ limit \in Limits
    /\ overlapped = {} /\ refusedHeader = {}
    /\ failures = 0

Fail == failures < MaxFailures /\ failures' = failures + 1
SessionBecomes(s, status) == session' = [session EXCEPT ![s].status = status]
FileBecomes(s, f, status) == file' = [file EXCEPT ![s][f] = status]
PrefixEmpty == manifest = NoSession /\ \A f \in Files : object[f] = NoObject

-----------------------------------------------------------------------------
(* Creation: look for an active session and for objects under the prefix,   *)
(* then check the quota under the lock of the policy, insert and commit.     *)

Look(s) ==
    /\ request[s] = "none"
    /\ request' = [request EXCEPT ![s] =
                     IF PrefixEmpty /\ ~\E r \in Sessions : Active(r) THEN "looked" ELSE "done"]
    /\ UNCHANGED <<database, store, deleter, limit, overlapped, refusedHeader, failures>>

ReadyUsage == Cardinality({s \in Sessions : Active(s)}) +
              Cardinality({s \in Sessions : dataset[s] = "ready"})
StorageUsage == Cardinality({s \in Sessions : Active(s)}) +
                Cardinality({s \in Sessions : Live(s)})

CheckedUsage == StorageUsage
QuotaAllows == CheckedUsage + 1 <= limit

\* The partial unique index on the name of the active sessions.
NameUnchecked == TRUE
NameFree == ~\E r \in Sessions : Active(r)

OtherCommands(s) ==
    \/ \E d \in Deleters : deleter[d] # "idle"
    \/ \E r \in Sessions \ {s} : Live(r) \/ request[r] = "looked"

InsertSession(s) ==
    /\ request[s] = "looked"
    /\ request' = [request EXCEPT ![s] = "done"]
    /\ IF QuotaAllows /\ NameFree
       THEN /\ SessionBecomes(s, "initializing")
            /\ file' = [file EXCEPT ![s] =
                  [f \in Files |-> IF f \in FilesOf[s] THEN "initializing" ELSE "absent"]]
            /\ ledger' = ledger \cup {<<"reserved", s>>}
            /\ overlapped' = IF OtherCommands(s)
                             THEN overlapped \cup {s} \cup {r \in Sessions : request[r] = "looked"}
                             ELSE overlapped
       ELSE UNCHANGED <<session, file, ledger, overlapped>>
    /\ UNCHANGED <<dataset, missions, store, deleter, limit, refusedHeader, failures>>

\* initialize_pending_files, for one file: every multipart upload of the key
\* is an orphan. When the commit fails, the compensation may fail too.
OnlyUpload(s, f, state) ==
    [r \in Sessions |-> [multipart[r] EXCEPT ![f] = IF r = s THEN state ELSE "none"]]

InitializeFile(s, f) ==
    /\ file[s][f] = "initializing" /\ session[s].status \in {"initializing", "failed"}
    /\ \/ /\ multipart' = OnlyUpload(s, f, "empty")
          /\ FileBecomes(s, f, "uploading")
          /\ UNCHANGED failures
       \/ /\ multipart' \in {OnlyUpload(s, f, "empty"), OnlyUpload(s, f, "none")}
          /\ Fail
          /\ UNCHANGED file
    /\ UNCHANGED <<request, session, dataset, missions, ledger, object, manifest, deleter,
                   limit, overlapped, refusedHeader>>

FinishInitialization(s) ==
    /\ session[s].status = "initializing"
    /\ \A f \in FilesOf[s] : file[s][f] # "initializing"
    /\ SessionBecomes(s, "uploading")
    /\ UNCHANGED <<request, file, dataset, missions, ledger, store, deleter, limit,
                   overlapped, refusedHeader, failures>>

-----------------------------------------------------------------------------
(* The client.                                                               *)

\* The parts go to presigned URLs, which outlive the session.
PutParts(s, f, content) ==
    /\ multipart[s][f] = "empty" /\ file[s][f] \notin {"initializing", "absent"}
    /\ multipart' = [multipart EXCEPT ![s][f] = content]
    /\ UNCHANGED <<request, database, object, manifest, deleter, limit, overlapped,
                   refusedHeader, failures>>

InSession(s) == session[s].status = "uploading" /\ ~session[s].expired

\* complete_upload_file up to its commit; the same request goes on with
\* CompleteFromIntent, or the reconciler does.
CompleteFile(s, f) ==
    /\ InSession(s) /\ file[s][f] = "uploading"
    /\ FileBecomes(s, f, "completing")
    /\ UNCHANGED <<request, session, dataset, missions, ledger, store, deleter, limit,
                   overlapped, refusedHeader, failures>>

FinalizeSession(s) ==
    /\ InSession(s) /\ \A f \in FilesOf[s] : file[s][f] = "completed"
    /\ SessionBecomes(s, "finalizing")
    /\ UNCHANGED <<request, file, dataset, missions, ledger, store, deleter, limit,
                   overlapped, refusedHeader, failures>>

ExpireSession(s) ==
    /\ session[s].status \in {"initializing", "uploading", "failed"} /\ ~session[s].expired
    /\ session' = [session EXCEPT ![s].expired = TRUE]
    /\ UNCHANGED <<request, file, dataset, missions, ledger, store, deleter, limit,
                   overlapped, refusedHeader, failures>>

-----------------------------------------------------------------------------
(* Convergence of a durable intent with the object store.                    *)

FailFile(s, f) == FileBecomes(s, f, "failed") /\ SessionBecomes(s, "failed")

\* The verdict on the object found or just completed.
RecordCompletion(s, f, found) ==
    IF found.owner = s /\ found.content = "valid"
    THEN FileBecomes(s, f, "completed") /\ UNCHANGED <<session, refusedHeader>>
    ELSE /\ FailFile(s, f)
         /\ refusedHeader' = IF found.owner = s
                             THEN refusedHeader \cup {<<s, f>>} ELSE refusedHeader

\* The state of the key before the verdict: an object that is there is adopted,
\* parts that do not match the intent are aborted, others are completed.
Mismatched(s, f) == object[f] = NoObject /\ multipart[s][f] = "empty"
ObjectAfter(s, f) == IF object[f] = NoObject /\ multipart[s][f] \in Contents
                     THEN [owner |-> s, content |-> multipart[s][f]] ELSE object[f]

StoreConverges(s, f) ==
    /\ object' = [object EXCEPT ![f] = ObjectAfter(s, f)]
    /\ multipart' = IF object[f] = NoObject
                    THEN [multipart EXCEPT ![s][f] = "none"] ELSE multipart

\* Listing the parts of an upload that is gone raises, and nothing changes.
CompleteFromIntent(s, f) ==
    /\ file[s][f] = "completing"
    /\ object[f] # NoObject \/ multipart[s][f] # "none"
    /\ StoreConverges(s, f)
    /\ \/ /\ IF Mismatched(s, f) THEN FailFile(s, f) /\ UNCHANGED refusedHeader
             ELSE RecordCompletion(s, f, ObjectAfter(s, f))
          /\ UNCHANGED failures
       \/ Fail /\ UNCHANGED <<session, file, refusedHeader>>      \* the commit is lost
    /\ UNCHANGED <<request, dataset, missions, ledger, manifest, deleter, limit, overlapped>>

\* The manifest first, then the catalogue row, whose name must be free.
FinalizeFromIntent(s) ==
    /\ session[s].status = "finalizing"
    /\ manifest' = s
    /\ \/ /\ ~\E r \in Sessions : Live(r)
          /\ dataset' = [dataset EXCEPT ![s] = "ready"]
          /\ SessionBecomes(s, "completed")
          /\ UNCHANGED failures
       \/ /\ \E r \in Sessions : Live(r)
          /\ UNCHANGED <<session, dataset, failures>>
       \/ Fail /\ UNCHANGED <<session, dataset>>
    /\ UNCHANGED <<request, file, missions, ledger, multipart, object, deleter, limit,
                   overlapped, refusedHeader>>

-----------------------------------------------------------------------------
(* Aborting: by the user, or by the cleanup of expired sessions.             *)

ProgressKept(s) == \E f \in FilesOf[s] : file[s][f] \in {"completing", "completed"}
CompletionUncertain(s) == \E f \in FilesOf[s] : file[s][f] = "completing"

\* A file that is still initializing owns every upload under its key.
RecordedUploads(s, f) == IF file[s][f] = "uploading" THEN {s} ELSE {}
UploadsOf(s, f) ==
    CASE file[s][f] = "initializing" -> Sessions
      [] file[s][f] = "uploading"    -> {s}
      [] OTHER                       -> {}

\* The files of done are taken out of the object store.
EraseFiles(s, done) ==
    /\ multipart' = [r \in Sessions |-> [f \in Files |->
          IF f \in done /\ r \in UploadsOf(s, f) THEN "none" ELSE multipart[r][f]]]
    /\ object' = [f \in Files |->
          IF f \in done /\ file[s][f] = "completed" THEN NoObject ELSE object[f]]

ReleasedTwice(s) == {"upload_released", "dataset_released"} \X {s}
ReleasedOnAbort(s) == {<<"upload_released", s>>}

\* All of them; or all but some, which makes the session failed; or some,
\* with the commit lost.
AbortRecord(s) ==
    /\ \/ /\ EraseFiles(s, FilesOf[s])
          /\ file' = [file EXCEPT ![s] =
                [f \in Files |-> IF f \in FilesOf[s] THEN "aborted" ELSE "absent"]]
          /\ SessionBecomes(s, "aborted")
          /\ ledger' = ledger \cup ReleasedOnAbort(s)
          /\ UNCHANGED failures
       \/ \E done \in SUBSET FilesOf[s] :
          /\ Fail
          /\ EraseFiles(s, done)
          /\ \/ /\ done # FilesOf[s]
                /\ file' = [file EXCEPT ![s] =
                      [f \in Files |-> IF f \in done THEN "aborted" ELSE file[s][f]]]
                /\ SessionBecomes(s, "failed")
             \/ UNCHANGED <<session, file>>
          /\ UNCHANGED ledger
    /\ UNCHANGED <<request, dataset, missions, manifest, deleter, limit, overlapped,
                   refusedHeader>>

AbortUpload(s) ==
    /\ session[s].status \in {"initializing", "uploading", "failed"}
    /\ ~CompletionUncertain(s)
    /\ session[s].status = "uploading" => \A f \in FilesOf[s] : file[s][f] # "completed"
    /\ AbortRecord(s)

CleanupExpired(s) ==
    /\ session[s].status \in {"initializing", "uploading", "failed"}
    /\ session[s].expired
    /\ ~CompletionUncertain(s)
    /\ AbortRecord(s)

-----------------------------------------------------------------------------
(* Datasets: missions refer to them, administrators delete them.             *)

LaunchMission(s) ==
    /\ dataset[s] = "ready"
    /\ missions' = missions \cup {s}
    /\ UNCHANGED <<request, session, file, dataset, ledger, store, deleter, limit,
                   overlapped, refusedHeader, failures>>

DatasetWithout(s, before, after) ==
    /\ dataset[s] \in before
    /\ dataset' = [dataset EXCEPT ![s] = after]

AnyDataset == Sessions
Unreferenced == Sessions \ missions

BeginDelete(d) ==
    /\ deleter[d] = "idle"
    /\ \E s \in Unreferenced :
         DatasetWithout(s, {"ready", "deleting", "deletion_failed"}, "deleting")
    /\ deleter' = [deleter EXCEPT ![d] = "purging"]
    /\ UNCHANGED <<request, session, file, missions, ledger, store, limit, overlapped,
                   refusedHeader, failures>>

DeletePrefix(d) ==
    /\ deleter[d] = "purging"
    /\ \/ /\ object' = [f \in Files |-> NoObject] /\ manifest' = NoSession
          /\ deleter' = [deleter EXCEPT ![d] = "completing"]
          /\ UNCHANGED failures
       \/ /\ Fail
          /\ \E gone \in SUBSET Files :
               object' = [f \in Files |-> IF f \in gone THEN NoObject ELSE object[f]]
          /\ deleter' = [deleter EXCEPT ![d] = "failing"]
          /\ UNCHANGED manifest
    /\ UNCHANGED <<request, database, multipart, limit, overlapped, refusedHeader>>

\* The row is looked up by name again.
CompleteDelete(d) ==
    /\ deleter[d] = "completing"
    /\ deleter' = [deleter EXCEPT ![d] = "idle"]
    /\ \/ \E s \in Sessions :
            /\ DatasetWithout(s, {"deleting"}, "deleted")
            /\ ledger' = ledger \cup {<<"dataset_released", s>>}
       \/ /\ \A s \in Sessions : dataset[s] # "deleting"
          /\ UNCHANGED <<dataset, ledger>>
    /\ UNCHANGED <<request, session, file, missions, store, limit, overlapped,
                   refusedHeader, failures>>

FailDelete(d) ==
    /\ deleter[d] = "failing"
    /\ deleter' = [deleter EXCEPT ![d] = "idle"]
    /\ \/ \E s \in Sessions : DatasetWithout(s, {"deleting", "deletion_failed"}, "deletion_failed")
       \/ (\A s \in Sessions : dataset[s] \notin {"deleting", "deletion_failed"}) /\ UNCHANGED dataset
    /\ UNCHANGED <<request, session, file, missions, ledger, store, limit, overlapped,
                   refusedHeader, failures>>

CrashDelete(d) ==
    /\ deleter[d] # "idle"
    /\ Fail
    /\ deleter' = [deleter EXCEPT ![d] = "idle"]
    /\ UNCHANGED <<request, database, store, limit, overlapped, refusedHeader>>

-----------------------------------------------------------------------------
Reconcile(s) ==
    \/ FinishInitialization(s) \/ FinalizeFromIntent(s)
    \/ \E f \in FilesOf[s] : InitializeFile(s, f) \/ CompleteFromIntent(s, f)

SessionNext(s) ==
    \/ Look(s) \/ InsertSession(s) \/ Reconcile(s)
    \/ FinalizeSession(s) \/ ExpireSession(s) \/ AbortUpload(s) \/ CleanupExpired(s)
    \/ LaunchMission(s)
    \/ \E f \in FilesOf[s] :
         CompleteFile(s, f) \/ \E content \in Contents : PutParts(s, f, content)

DeletionNext(d) ==
    BeginDelete(d) \/ DeletePrefix(d) \/ CompleteDelete(d) \/ FailDelete(d) \/ CrashDelete(d)

Next == (\E s \in Sessions : SessionNext(s)) \/ \E d \in Deleters : DeletionNext(d)

Spec == Init /\ [][Next]_vars

\* The upload loop passes over every session again and again; time passes.
FairSpec ==
    /\ Spec
    /\ \A s \in Sessions :
         /\ WF_vars(FinishInitialization(s)) /\ WF_vars(FinalizeFromIntent(s))
         /\ \A f \in FilesOf[s] : WF_vars(InitializeFile(s, f)) /\ WF_vars(CompleteFromIntent(s, f))
         /\ WF_vars(ExpireSession(s)) /\ WF_vars(CleanupExpired(s))
-----------------------------------------------------------------------------
(* What the organization stores and has reserved stays within its quota,     *)
(* whatever creations, aborts and deletions are under way                    *)
(* (check_storage_reservation).                                              *)
QuotaRespected == StorageUsage <= limit

(* The ledger adds up to the usage: everything reserved is released once,    *)
(* when an upload ends without a dataset or its dataset is deleted.          *)
LedgerBalanced ==
    Cardinality({e \in ledger : e[1] = "reserved"}) -
    Cardinality({e \in ledger : e[1] # "reserved"}) = StorageUsage

(* A dataset that is ready, as every dataset of a mission is, has its own    *)
(* manifest and all of its own files, unless a session was created beside an *)
(* unfinished deletion or another creation of the same name.                 *)
Whole(s) ==
    /\ manifest = s
    /\ \A f \in FilesOf[s] : object[f] = [owner |-> s, content |-> "valid"]

CatalogWhole ==
    \A s \in Sessions :
        /\ s \in missions => dataset[s] = "ready"
        /\ dataset[s] = "ready" /\ overlapped = {} => Whole(s)

(* An aborted upload leaves nothing behind in the object store, except the   *)
(* images that were refused for their header (abort_record).                 *)
NothingLeaks ==
    \A s \in Sessions : session[s].status = "aborted" /\ s \notin overlapped =>
        \A f \in FilesOf[s] :
            multipart[s][f] = "none" /\ (object[f].owner = s => <<s, f>> \in refusedHeader)

(* Every session ends, and gives back its name and its quota or becomes a    *)
(* dataset, whatever was lost; except a session created beside another       *)
(* command on its name, and one with a completion intent whose parts and     *)
(* object are both gone.                                                     *)
Unrecoverable(s) ==
    \E f \in FilesOf[s] : /\ file[s][f] = "completing"
                          /\ object[f] = NoObject /\ multipart[s][f] = "none"

UploadsSettle ==
    \A s \in Sessions :
        session[s].status = "initializing" ~>
            \/ session[s].status \in {"completed", "aborted"}
            \/ s \in overlapped \/ Unrecoverable(s)
=============================================================================
