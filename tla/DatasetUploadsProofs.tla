------------------------ MODULE DatasetUploadsProofs ------------------------
(***************************************************************************)
(* Theorems about DatasetUploads, for any number of sessions, files and    *)
(* deletion requests.                                                      *)
(***************************************************************************)
EXTENDS DatasetUploads, TLAPS, FiniteSetTheorems

SessionRows == [status : SessionStatuses, expired : BOOLEAN]

\* A session that gets another status stays a session, whose expiry is its own.
LEMMA SessionRow ==
  ASSUME session \in [Sessions -> SessionRows], NEW s \in Sessions,
         NEW status \in SessionStatuses, SessionBecomes(s, status)
  PROVE  /\ session' \in [Sessions -> SessionRows]
         /\ session'[s].status = status /\ session'[s].expired = session[s].expired
         /\ \A r \in Sessions \ {s} : session'[r] = session[r]
<1>1. /\ [session[s] EXCEPT !.status = status] \in SessionRows
      /\ [session[s] EXCEPT !.status = status].status = status
      /\ [session[s] EXCEPT !.status = status].expired = session[s].expired
  BY DEF SessionRows
<1>2. session' = [session EXCEPT ![s] = [session[s] EXCEPT !.status = status]]
  BY DEF SessionBecomes
<1> QED
  BY <1>1, <1>2

\* A file that gets another status leaves the other files alone.
LEMMA FileRow ==
  ASSUME file \in [Sessions -> [Files -> FileStatuses]], NEW s \in Sessions, NEW f \in Files,
         NEW status \in FileStatuses, FileBecomes(s, f, status)
  PROVE  /\ file' \in [Sessions -> [Files -> FileStatuses]]
         /\ file'[s][f] = status
         /\ \A g \in Files \ {f} : file'[s][g] = file[s][g]
         /\ \A r \in Sessions \ {s} : file'[r] = file[r]
<1>1. [file[s] EXCEPT ![f] = status] \in [Files -> FileStatuses]
  OBVIOUS
<1>2. file' = [file EXCEPT ![s] = [file[s] EXCEPT ![f] = status]]
  BY DEF FileBecomes
<1> QED
  BY <1>1, <1>2

-----------------------------------------------------------------------------
\* The steps of the sessions keep the types ...
LEMMA SessionTypes ==
  ASSUME UploadTypeOK, NEW s \in Sessions, SessionNext(s)
  PROVE  UploadTypeOK'
<1> USE UploadAssumption
<1>1. CASE Look(s)
  BY <1>1 DEF UploadTypeOK, Look, database, store
<1>2. CASE InsertSession(s)
  <2>1. file' \in [Sessions -> [Files -> FileStatuses]]
    <3>1. [f \in Files |-> IF f \in FilesOf[s] THEN "initializing" ELSE "absent"]
            \in [Files -> FileStatuses]
      BY DEF FileStatuses
    <3> QED
      BY <1>2, <3>1, Zenon DEF UploadTypeOK, InsertSession
  <2>2. session' \in [Sessions -> SessionRows]
    BY <1>2, SessionRow DEF UploadTypeOK, InsertSession, SessionStatuses, SessionRows
  <2>3. /\ ledger' \subseteq {"reserved", "upload_released", "dataset_released"} \X Sessions
        /\ overlapped' \subseteq Sessions
    BY <1>2 DEF UploadTypeOK, InsertSession
  <2>4. request' \in [Sessions -> {"none", "looked", "done"}]
    BY <1>2 DEF UploadTypeOK, InsertSession
  <2> QED
    BY <1>2, <2>1, <2>2, <2>3, <2>4 DEF UploadTypeOK, SessionRows, InsertSession, store
<1>3. CASE FinishInitialization(s)
  BY <1>3, SessionRow DEF UploadTypeOK, FinishInitialization, SessionStatuses, SessionRows, store
<1>4. CASE FinalizeFromIntent(s)
  <2>1. session' \in [Sessions -> SessionRows]
    BY <1>4, SessionRow DEF UploadTypeOK, FinalizeFromIntent, SessionStatuses, SessionRows
  <2>2. dataset' \in [Sessions -> DatasetStatuses]
    BY <1>4 DEF UploadTypeOK, FinalizeFromIntent, DatasetStatuses
  <2> QED
    BY <1>4, <2>1, <2>2 DEF UploadTypeOK, SessionRows, FinalizeFromIntent, Fail
<1>5. ASSUME NEW f \in FilesOf[s], InitializeFile(s, f)
      PROVE  UploadTypeOK'
  <2>1. multipart' \in [Sessions -> [Files -> {"none", "empty"} \cup Contents]]
    <3>1. ASSUME NEW state \in {"none", "empty"}
          PROVE  OnlyUpload(s, f, state) \in [Sessions -> [Files -> {"none", "empty"} \cup Contents]]
      BY DEF UploadTypeOK, OnlyUpload
    <3> QED
      BY <1>5, <3>1, Zenon DEF InitializeFile
  <2>2. file' \in [Sessions -> [Files -> FileStatuses]]
    BY <1>5, FileRow DEF UploadTypeOK, InitializeFile, FileStatuses
  <2> QED
    BY <1>5, <2>1, <2>2 DEF UploadTypeOK, InitializeFile, Fail
<1>6. ASSUME NEW f \in FilesOf[s], CompleteFromIntent(s, f)
      PROVE  UploadTypeOK'
  <2>0. f \in Files
    OBVIOUS
  <2>1. multipart' \in [Sessions -> [Files -> {"none", "empty"} \cup Contents]]
    BY <1>6, <2>0 DEF UploadTypeOK, CompleteFromIntent, StoreConverges
  <2>2. object' \in [Files -> [owner : Sessions \cup {NoSession}, content : Contents]]
    <3>1. ObjectAfter(s, f) \in [owner : Sessions \cup {NoSession}, content : Contents]
      BY <2>0 DEF UploadTypeOK, ObjectAfter, NoObject
    <3> QED
      BY <1>6, <3>1 DEF UploadTypeOK, CompleteFromIntent, StoreConverges
  <2>3. file' \in [Sessions -> [Files -> FileStatuses]]
    BY <1>6, <2>0, FileRow DEF UploadTypeOK, CompleteFromIntent, FailFile, RecordCompletion,
       FileStatuses
  <2>4. session' \in [Sessions -> SessionRows]
    BY <1>6, SessionRow DEF UploadTypeOK, CompleteFromIntent, FailFile, RecordCompletion,
       SessionStatuses, SessionRows
  <2>5. refusedHeader' \subseteq Sessions \X Files
    BY <1>6, <2>0 DEF UploadTypeOK, CompleteFromIntent, FailFile, RecordCompletion
  <2> QED
    BY <1>6, <2>1, <2>2, <2>3, <2>4, <2>5 DEF UploadTypeOK, SessionRows, CompleteFromIntent, Fail
<1>7. CASE FinalizeSession(s)
  BY <1>7, SessionRow DEF UploadTypeOK, FinalizeSession, SessionStatuses, SessionRows, store
<1>8. CASE ExpireSession(s)
  BY <1>8 DEF UploadTypeOK, ExpireSession, store
<1>9. CASE AbortUpload(s) \/ CleanupExpired(s)
  <2>0. AbortRecord(s)
    BY <1>9 DEF AbortUpload, CleanupExpired
  <2>1. /\ multipart' \in [Sessions -> [Files -> {"none", "empty"} \cup Contents]]
        /\ object' \in [Files -> [owner : Sessions \cup {NoSession}, content : Contents]]
    <3>1. PICK done \in SUBSET FilesOf[s] : EraseFiles(s, done)
      BY <2>0 DEF AbortRecord
    <3> QED
      BY <3>1 DEF UploadTypeOK, EraseFiles, NoObject, Contents
  <2>2. file' \in [Sessions -> [Files -> FileStatuses]]
    <3>1. \/ UNCHANGED file
          \/ \E row \in [Files -> FileStatuses] : file' = [file EXCEPT ![s] = row]
      <4>1. ASSUME NEW done \in SUBSET FilesOf[s]
            PROVE  [f \in Files |-> IF f \in done THEN "aborted" ELSE file[s][f]]
                     \in [Files -> FileStatuses]
        BY DEF UploadTypeOK, FileStatuses
      <4>2. [f \in Files |-> IF f \in FilesOf[s] THEN "aborted" ELSE "absent"]
              \in [Files -> FileStatuses]
        BY DEF FileStatuses
      <4> QED
        BY <2>0, <4>1, <4>2, Zenon DEF AbortRecord
    <3> QED
      BY <3>1 DEF UploadTypeOK
  <2>3. session' \in [Sessions -> SessionRows]
    BY <2>0, SessionRow DEF UploadTypeOK, AbortRecord, SessionStatuses, SessionRows
  <2>4. ledger' \subseteq {"reserved", "upload_released", "dataset_released"} \X Sessions
    BY <2>0 DEF UploadTypeOK, AbortRecord, ReleasedOnAbort
  <2>5. failures' \in 0..MaxFailures
    BY <2>0 DEF UploadTypeOK, AbortRecord, Fail
  <2> QED
    BY <2>0, <2>1, <2>2, <2>3, <2>4, <2>5 DEF UploadTypeOK, SessionRows, AbortRecord
<1>10. CASE LaunchMission(s)
  BY <1>10 DEF UploadTypeOK, LaunchMission, store
<1>11. ASSUME NEW f \in FilesOf[s], CompleteFile(s, f)
       PROVE  UploadTypeOK'
  BY <1>11, FileRow DEF UploadTypeOK, CompleteFile, FileStatuses, store
<1>12. ASSUME NEW f \in FilesOf[s], NEW content \in Contents, PutParts(s, f, content)
       PROVE  UploadTypeOK'
  <2>1. [multipart[s] EXCEPT ![f] = content] \in [Files -> {"none", "empty"} \cup Contents]
    BY DEF UploadTypeOK
  <2>2. multipart' = [multipart EXCEPT ![s] = [multipart[s] EXCEPT ![f] = content]]
    BY <1>12 DEF PutParts
  <2> QED
    BY <1>12, <2>1, <2>2 DEF UploadTypeOK, PutParts, database
<1> QED
  BY <1>1, <1>2, <1>3, <1>4, <1>5, <1>6, <1>7, <1>8, <1>9, <1>10, <1>11, <1>12
     DEF SessionNext, Reconcile

\* ... and so do those of the deletions.
LEMMA DeletionTypes ==
  ASSUME UploadTypeOK, NEW d \in Deleters, DeletionNext(d)
  PROVE  UploadTypeOK'
<1> USE UploadAssumption
<1>1. CASE BeginDelete(d)
  <2>1. dataset' \in [Sessions -> DatasetStatuses]
    BY <1>1 DEF UploadTypeOK, BeginDelete, DatasetWithout, Unreferenced, DatasetStatuses
  <2>2. deleter' \in [Deleters -> {"idle", "purging", "completing", "failing"}]
    BY <1>1 DEF UploadTypeOK, BeginDelete
  <2> QED
    BY <1>1, <2>1, <2>2 DEF UploadTypeOK, BeginDelete, store
<1>2. CASE DeletePrefix(d)
  <2>1. object' \in [Files -> [owner : Sessions \cup {NoSession}, content : Contents]]
    BY <1>2 DEF UploadTypeOK, DeletePrefix, NoObject, Contents
  <2>2. deleter' \in [Deleters -> {"idle", "purging", "completing", "failing"}]
    BY <1>2 DEF UploadTypeOK, DeletePrefix
  <2> QED
    BY <1>2, <2>1, <2>2 DEF UploadTypeOK, DeletePrefix, database, Fail
<1>3. CASE CompleteDelete(d)
  BY <1>3 DEF UploadTypeOK, CompleteDelete, DatasetWithout, DatasetStatuses, store
<1>4. CASE FailDelete(d)
  BY <1>4 DEF UploadTypeOK, FailDelete, DatasetWithout, DatasetStatuses, store
<1>5. CASE CrashDelete(d)
  BY <1>5 DEF UploadTypeOK, CrashDelete, database, store, Fail
<1> QED
  BY <1>1, <1>2, <1>3, <1>4, <1>5 DEF DeletionNext

\* Hence every step of the system does.
LEMMA TypeStep ==
  ASSUME UploadTypeOK, [Next]_vars
  PROVE  UploadTypeOK'
<1>1. CASE UNCHANGED vars
  BY <1>1 DEF vars, database, store, UploadTypeOK
<1> QED
  BY <1>1, SessionTypes, DeletionTypes DEF Next

\* The initial state is well formed.
LEMMA TypeInit == Init => UploadTypeOK
  BY UploadAssumption DEF Init, UploadTypeOK, SessionStatuses, FileStatuses, DatasetStatuses,
     Contents, NoObject
-----------------------------------------------------------------------------
(* The life of a session: it is created by its own request, its catalogue   *)
(* row appears when it completes, and its status bounds those of its files. *)
Life(s) ==
    /\ request[s] # "done" => session[s].status = "absent"
    /\ session[s].status = "absent" => \A f \in Files : file[s][f] = "absent"
    /\ dataset[s] # "absent" <=> session[s].status = "completed"
    /\ session[s].status = "initializing" =>
          \A f \in FilesOf[s] : file[s][f] \in {"initializing", "uploading"}
    /\ \A f \in FilesOf[s] : file[s][f] = "completing" =>
          session[s].status \in {"uploading", "failed"}
    /\ session[s].status \in {"finalizing", "completed"} =>
          \A f \in FilesOf[s] : file[s][f] = "completed"
    /\ session[s].status = "aborted" => \A f \in FilesOf[s] : file[s][f] = "aborted"

(* The entries of the ledger follow the statuses. *)
Entry(s) ==
    /\ <<"reserved", s>> \in ledger <=> session[s].status # "absent"
    /\ <<"upload_released", s>> \in ledger <=> session[s].status = "aborted"
    /\ <<"dataset_released", s>> \in ledger <=> dataset[s] = "deleted"

(* The partial unique indexes. *)
OneName ==
    \A r, s \in Sessions : r # s => ~(Active(r) /\ Active(s)) /\ ~(Live(r) /\ Live(s))

LifeInv == (\A s \in Sessions : Life(s) /\ Entry(s)) /\ OneName

\* A step of one session leaves the rows of another alone.
Kinds == {"reserved", "upload_released", "dataset_released"}
Unmoved(r) ==
    /\ request'[r] = request[r] /\ session'[r] = session[r]
    /\ file'[r] = file[r] /\ dataset'[r] = dataset[r]
    /\ \A kind \in Kinds : <<kind, r>> \in ledger' <=> <<kind, r>> \in ledger

\* The turn of session s: it becomes active only when its name is
\* free and the quota allows it, and a dataset when no other has the name.
Turn(s) ==
    /\ \A r \in Sessions \ {s} : Unmoved(r)
    /\ Life(s)' /\ Entry(s)'
    /\ Active(s)' => Active(s) \/ (NameFree /\ QuotaAllows)
    /\ Live(s)' => Live(s) \/ (Active(s) /\ \A r \in Sessions : ~Live(r))
    /\ limit' = limit

\* A step that keeps the rows of s is such a step.
LEMMA QuietTurn ==
  ASSUME NEW s \in Sessions, Life(s), Entry(s), \A r \in Sessions : Unmoved(r), limit' = limit
  PROVE  Turn(s)
  BY DEF Turn, Unmoved, Life, Entry, Kinds, Active, Live

\* Every step of a session is such a turn.
LEMMA SessionTurns ==
  ASSUME UploadTypeOK, NEW s \in Sessions, Life(s), Entry(s), SessionNext(s)
  PROVE  Turn(s)
<1> USE UploadAssumption
<1>1. CASE Look(s)
  BY <1>1 DEF Turn, Look, database, store, UploadTypeOK, Unmoved, Life, Entry, Active, Live
<1>2. CASE InsertSession(s)
  <2>1. CASE QuotaAllows /\ NameFree
    <3>1. /\ session[s].status = "absent" /\ dataset[s] = "absent"
          /\ <<"dataset_released", s>> \notin ledger /\ <<"upload_released", s>> \notin ledger
      BY <1>2 DEF InsertSession, Life, Entry
    <3>2. /\ session'[s].status = "initializing"
          /\ \A r \in Sessions \ {s} : session'[r] = session[r]
      BY <1>2, <2>1, SessionRow DEF InsertSession, UploadTypeOK, SessionStatuses, SessionRows
    <3>3. /\ \A f \in Files : file'[s][f] = IF f \in FilesOf[s] THEN "initializing" ELSE "absent"
          /\ \A r \in Sessions \ {s} : file'[r] = file[r]
      BY <1>2, <2>1 DEF InsertSession, UploadTypeOK
    <3>4. /\ request'[s] = "done" /\ \A r \in Sessions \ {s} : request'[r] = request[r]
          /\ dataset' = dataset /\ limit' = limit /\ ledger' = ledger \cup {<<"reserved", s>>}
      BY <1>2, <2>1 DEF InsertSession, UploadTypeOK
    <3>5. Life(s)'
      BY <3>1, <3>2, <3>3, <3>4 DEF Life
    <3>6. Entry(s)'
      BY <3>1, <3>2, <3>4 DEF Entry
    <3>7. \A r \in Sessions \ {s} : Unmoved(r)
      BY <3>2, <3>3, <3>4 DEF Unmoved
    <3> QED
      BY <2>1, <3>1, <3>4, <3>5, <3>6, <3>7 DEF Turn, Live
  <2>2. CASE ~(QuotaAllows /\ NameFree)
    BY <1>2, <2>2 DEF Turn, InsertSession, UploadTypeOK, Unmoved, Life, Entry, Active, Live
  <2> QED
    BY <2>1, <2>2
<1>3. CASE FinishInitialization(s)
  <2>1. /\ session'[s].status = "uploading" /\ session[s].status = "initializing"
        /\ \A r \in Sessions \ {s} : session'[r] = session[r]
        /\ UNCHANGED <<request, file, dataset, ledger, limit>>
    BY <1>3, SessionRow DEF FinishInitialization, UploadTypeOK, SessionStatuses, SessionRows
  <2>2. Life(s)' /\ Entry(s)' /\ \A r \in Sessions \ {s} : Unmoved(r)
    <3>1. Life(s)'
      BY <2>1 DEF Life
    <3>2. Entry(s)'
      BY <2>1 DEF Entry
    <3>3. \A r \in Sessions \ {s} : Unmoved(r)
      BY <2>1 DEF Unmoved
    <3> QED
      BY <3>1, <3>2, <3>3
  <2>9. /\ Active(s)' => Active(s)
        /\ Live(s)' => Live(s)
        /\ limit' = limit
    BY <2>1, <2>2 DEF Active, Live, ACTIVE_UPLOAD_STATUSES
  <2> QED
    BY <2>1, <2>2, <2>9 DEF Turn
<1>4. CASE FinalizeFromIntent(s)
  <2>1. CASE /\ ~\E r \in Sessions : Live(r)
             /\ dataset' = [dataset EXCEPT ![s] = "ready"]
             /\ SessionBecomes(s, "completed")
    <3>1. /\ session'[s].status = "completed" /\ session[s].status = "finalizing"
          /\ \A r \in Sessions \ {s} : session'[r] = session[r]
          /\ UNCHANGED <<request, file, ledger, limit>>
          /\ dataset'[s] = "ready" /\ dataset[s] = "absent"
          /\ \A r \in Sessions \ {s} : dataset'[r] = dataset[r]
      BY <1>4, <2>1, SessionRow
         DEF FinalizeFromIntent, UploadTypeOK, SessionStatuses, SessionRows, Life
    <3>2. Life(s)' /\ Entry(s)' /\ \A r \in Sessions \ {s} : Unmoved(r)
      <4>1. Life(s)'
        BY <3>1 DEF Life
      <4>2. Entry(s)'
        BY <3>1 DEF Entry
      <4>3. \A r \in Sessions \ {s} : Unmoved(r)
        BY <3>1 DEF Unmoved
      <4> QED
        BY <4>1, <4>2, <4>3
    <3>9. /\ Active(s)' => Active(s)
          /\ Live(s)' => Live(s) \/ (Active(s) /\ \A r \in Sessions : ~Live(r))
          /\ limit' = limit
      BY <2>1, <3>1 DEF Active, ACTIVE_UPLOAD_STATUSES
    <3> QED
      BY <3>2, <3>9 DEF Turn
  <2>2. CASE UNCHANGED <<session, dataset>>
    BY <1>4, <2>2, QuietTurn DEF FinalizeFromIntent, Unmoved
  <2> QED
    BY <1>4, <2>1, <2>2 DEF FinalizeFromIntent
<1>5. ASSUME NEW f \in FilesOf[s], InitializeFile(s, f)
      PROVE  Turn(s)
  <2>1. /\ UNCHANGED <<request, session, dataset, ledger, limit>>
        /\ file[s][f] = "initializing" /\ session[s].status \in {"initializing", "failed"}
    BY <1>5 DEF InitializeFile
  <2>2. \/ file' = file
        \/ /\ file'[s][f] = "uploading"
           /\ \A g \in Files \ {f} : file'[s][g] = file[s][g]
           /\ \A r \in Sessions \ {s} : file'[r] = file[r]
    BY <1>5, FileRow DEF InitializeFile, UploadTypeOK, FileStatuses
  <2>3. Life(s)' /\ Entry(s)' /\ \A r \in Sessions \ {s} : Unmoved(r)
    <3>1. Life(s)'
      BY <2>1, <2>2 DEF Life
    <3>2. Entry(s)'
      BY <2>1, <2>2 DEF Entry
    <3>3. \A r \in Sessions \ {s} : Unmoved(r)
      BY <2>1, <2>2 DEF Unmoved
    <3> QED
      BY <3>1, <3>2, <3>3
  <2>9. /\ Active(s)' => Active(s)
        /\ Live(s)' => Live(s)
        /\ limit' = limit
    BY <2>1, <2>3 DEF Active, Live
  <2> QED
    BY <2>1, <2>3, <2>9 DEF Turn
<1>6. ASSUME NEW f \in FilesOf[s], CompleteFromIntent(s, f)
      PROVE  Turn(s)
  <2>1. /\ UNCHANGED <<request, dataset, ledger, limit>>
        /\ file[s][f] = "completing" /\ session[s].status \in {"uploading", "failed"}
    BY <1>6 DEF CompleteFromIntent, Life
  <2>2. \/ UNCHANGED <<session, file>>
        \/ FailFile(s, f)
        \/ FileBecomes(s, f, "completed") /\ session' = session
    BY <1>6 DEF CompleteFromIntent, RecordCompletion
  <2>3. CASE UNCHANGED <<session, file>>
    BY <2>1, <2>3, QuietTurn DEF Unmoved
  <2>4. CASE FailFile(s, f)
    <3>1. /\ session'[s].status = "failed" /\ \A r \in Sessions \ {s} : session'[r] = session[r]
          /\ file'[s][f] = "failed" /\ \A g \in Files \ {f} : file'[s][g] = file[s][g]
          /\ \A r \in Sessions \ {s} : file'[r] = file[r]
      BY <2>4, SessionRow, FileRow DEF FailFile, UploadTypeOK, SessionStatuses, FileStatuses, SessionRows
    <3>2. Life(s)' /\ Entry(s)' /\ \A r \in Sessions \ {s} : Unmoved(r)
      <4>1. Life(s)'
        BY <2>1, <3>1 DEF Life
      <4>2. Entry(s)'
        BY <2>1, <3>1 DEF Entry
      <4>3. \A r \in Sessions \ {s} : Unmoved(r)
        BY <2>1, <3>1 DEF Unmoved
      <4> QED
        BY <4>1, <4>2, <4>3
    <3>9. /\ Active(s)' => Active(s)
          /\ Live(s)' => Live(s)
          /\ limit' = limit
      BY <2>1, <3>2 DEF Active, Live, ACTIVE_UPLOAD_STATUSES
    <3> QED
      BY <2>1, <3>2, <3>9 DEF Turn
  <2>5. CASE FileBecomes(s, f, "completed") /\ session' = session
    <3>1. /\ file'[s][f] = "completed" /\ \A g \in Files \ {f} : file'[s][g] = file[s][g]
          /\ \A r \in Sessions \ {s} : file'[r] = file[r]
      BY <2>5, FileRow DEF UploadTypeOK, FileStatuses
    <3>2. Life(s)' /\ Entry(s)' /\ \A r \in Sessions \ {s} : Unmoved(r)
      <4>1. Life(s)'
        BY <2>1, <2>5, <3>1 DEF Life
      <4>2. Entry(s)'
        BY <2>1, <2>5, <3>1 DEF Entry
      <4>3. \A r \in Sessions \ {s} : Unmoved(r)
        BY <2>1, <2>5, <3>1 DEF Unmoved
      <4> QED
        BY <4>1, <4>2, <4>3
    <3>9. /\ Active(s)' => Active(s)
          /\ Live(s)' => Live(s)
          /\ limit' = limit
      BY <2>1, <2>5, <3>2 DEF Active, Live
    <3> QED
      BY <2>1, <2>5, <3>2, <3>9 DEF Turn
  <2> QED
    BY <2>2, <2>3, <2>4, <2>5
<1>7. CASE FinalizeSession(s)
  <2>1. /\ session'[s].status = "finalizing" /\ session[s].status = "uploading"
        /\ \A r \in Sessions \ {s} : session'[r] = session[r]
        /\ \A f \in FilesOf[s] : file[s][f] = "completed"
        /\ UNCHANGED <<request, file, dataset, ledger, limit>>
    BY <1>7, SessionRow DEF FinalizeSession, InSession, UploadTypeOK, SessionStatuses, SessionRows
  <2>2. Life(s)' /\ Entry(s)' /\ \A r \in Sessions \ {s} : Unmoved(r)
    <3>1. Life(s)'
      BY <2>1 DEF Life
    <3>2. Entry(s)'
      BY <2>1 DEF Entry
    <3>3. \A r \in Sessions \ {s} : Unmoved(r)
      BY <2>1 DEF Unmoved
    <3> QED
      BY <3>1, <3>2, <3>3
  <2>9. /\ Active(s)' => Active(s)
        /\ Live(s)' => Live(s)
        /\ limit' = limit
    BY <2>1, <2>2 DEF Active, Live, ACTIVE_UPLOAD_STATUSES
  <2> QED
    BY <2>1, <2>2, <2>9 DEF Turn
<1>8. CASE ExpireSession(s)
  <2>1. /\ session'[s].status = session[s].status
        /\ \A r \in Sessions \ {s} : session'[r] = session[r]
        /\ UNCHANGED <<request, file, dataset, ledger, limit>>
    BY <1>8 DEF ExpireSession, UploadTypeOK
  <2>2. Life(s)' /\ Entry(s)' /\ \A r \in Sessions \ {s} : Unmoved(r)
    <3>1. Life(s)'
      BY <2>1 DEF Life
    <3>2. Entry(s)'
      BY <2>1 DEF Entry
    <3>3. \A r \in Sessions \ {s} : Unmoved(r)
      BY <2>1 DEF Unmoved
    <3> QED
      BY <3>1, <3>2, <3>3
  <2>9. /\ Active(s)' => Active(s)
        /\ Live(s)' => Live(s)
        /\ limit' = limit
    BY <2>1, <2>2 DEF Active, Live
  <2> QED
    BY <2>1, <2>2, <2>9 DEF Turn
<1>9. CASE AbortUpload(s) \/ CleanupExpired(s)
  <2>1. /\ session[s].status \in {"initializing", "uploading", "failed"}
        /\ \A f \in FilesOf[s] : file[s][f] # "completing"
        /\ AbortRecord(s)
    BY <1>9 DEF AbortUpload, CleanupExpired, CompletionUncertain
  <2>2. CASE /\ file' = [file EXCEPT ![s] =
                   [f \in Files |-> IF f \in FilesOf[s] THEN "aborted" ELSE "absent"]]
             /\ SessionBecomes(s, "aborted")
             /\ ledger' = ledger \cup ReleasedOnAbort(s)
    <3>1. /\ session'[s].status = "aborted" /\ \A r \in Sessions \ {s} : session'[r] = session[r]
          /\ \A f \in FilesOf[s] : file'[s][f] = "aborted"
          /\ \A r \in Sessions \ {s} : file'[r] = file[r]
          /\ UNCHANGED <<request, dataset, limit>>
          /\ ledger' = ledger \cup {<<"upload_released", s>>}
      BY <2>1, <2>2, SessionRow DEF AbortRecord, UploadTypeOK, SessionStatuses, SessionRows,
         ReleasedOnAbort
    <3>2. Life(s)' /\ Entry(s)' /\ \A r \in Sessions \ {s} : Unmoved(r)
      <4>1. Life(s)'
        BY <2>1, <3>1 DEF Life
      <4>2. Entry(s)'
        BY <2>1, <3>1 DEF Entry
      <4>3. \A r \in Sessions \ {s} : Unmoved(r)
        BY <2>1, <3>1 DEF Unmoved
      <4> QED
        BY <4>1, <4>2, <4>3
    <3>9. /\ Active(s)' => Active(s)
          /\ Live(s)' => Live(s)
          /\ limit' = limit
      BY <2>1, <3>1, <3>2 DEF Active, Live, ACTIVE_UPLOAD_STATUSES
    <3> QED
      BY <2>1, <3>1, <3>2, <3>9 DEF Turn
  <2>3. ASSUME NEW done \in SUBSET FilesOf[s],
               file' = [file EXCEPT ![s] =
                          [f \in Files |-> IF f \in done THEN "aborted" ELSE file[s][f]]],
               SessionBecomes(s, "failed"), ledger' = ledger
        PROVE  Turn(s)
    <3>1. /\ session'[s].status = "failed" /\ \A r \in Sessions \ {s} : session'[r] = session[r]
          /\ \A f \in Files : file'[s][f] = IF f \in done THEN "aborted" ELSE file[s][f]
          /\ \A r \in Sessions \ {s} : file'[r] = file[r]
          /\ UNCHANGED <<request, dataset, limit>>
      BY <2>1, <2>3, SessionRow DEF AbortRecord, UploadTypeOK, SessionStatuses, SessionRows
    <3>2. Life(s)' /\ Entry(s)' /\ \A r \in Sessions \ {s} : Unmoved(r)
      <4>1. Life(s)'
        BY <2>1, <2>3, <3>1 DEF Life
      <4>2. Entry(s)'
        BY <2>1, <2>3, <3>1 DEF Entry
      <4>3. \A r \in Sessions \ {s} : Unmoved(r)
        BY <2>1, <2>3, <3>1 DEF Unmoved
      <4> QED
        BY <4>1, <4>2, <4>3
    <3>9. /\ Active(s)' => Active(s)
          /\ Live(s)' => Live(s)
          /\ limit' = limit
      BY <2>1, <3>1, <3>2 DEF Active, Live, ACTIVE_UPLOAD_STATUSES
    <3> QED
      BY <2>1, <3>1, <3>2, <3>9 DEF Turn
  <2>4. CASE UNCHANGED <<session, file, ledger>>
    BY <2>1, <2>4, QuietTurn DEF AbortRecord, Unmoved
  <2> QED
    BY <2>1, <2>2, <2>3, <2>4 DEF AbortRecord
<1>10. CASE LaunchMission(s)
  BY <1>10, QuietTurn DEF LaunchMission, Unmoved
<1>11. ASSUME NEW f \in FilesOf[s], CompleteFile(s, f)
       PROVE  Turn(s)
  <2>1. /\ UNCHANGED <<request, session, dataset, ledger, limit>>
        /\ file[s][f] = "uploading" /\ session[s].status = "uploading"
    BY <1>11 DEF CompleteFile, InSession
  <2>2. /\ file'[s][f] = "completing"
        /\ \A g \in Files \ {f} : file'[s][g] = file[s][g]
        /\ \A r \in Sessions \ {s} : file'[r] = file[r]
    BY <1>11, FileRow DEF CompleteFile, UploadTypeOK, FileStatuses
  <2>3. Life(s)' /\ Entry(s)' /\ \A r \in Sessions \ {s} : Unmoved(r)
    <3>1. Life(s)'
      BY <2>1, <2>2 DEF Life
    <3>2. Entry(s)'
      BY <2>1, <2>2 DEF Entry
    <3>3. \A r \in Sessions \ {s} : Unmoved(r)
      BY <2>1, <2>2 DEF Unmoved
    <3> QED
      BY <3>1, <3>2, <3>3
  <2>9. /\ Active(s)' => Active(s)
        /\ Live(s)' => Live(s)
        /\ limit' = limit
    BY <2>1, <2>3 DEF Active, Live
  <2> QED
    BY <2>1, <2>3, <2>9 DEF Turn
<1>12. ASSUME NEW f \in FilesOf[s], NEW content \in Contents, PutParts(s, f, content)
       PROVE  Turn(s)
  BY <1>12, QuietTurn DEF PutParts, database, Unmoved
<1> QED
  BY <1>1, <1>2, <1>3, <1>4, <1>5, <1>6, <1>7, <1>8, <1>9, <1>10, <1>11, <1>12
     DEF SessionNext, Reconcile

\* A deletion request creates no session and no dataset.
LEMMA DeletionTurns ==
  ASSUME UploadTypeOK, NEW d \in Deleters, DeletionNext(d), NEW r \in Sessions, Life(r), Entry(r)
  PROVE  /\ Life(r)' /\ Entry(r)'
         /\ session' = session /\ limit' = limit
         /\ Live(r)' => Live(r)
<1>1. /\ session' = session /\ file' = file /\ request' = request /\ limit' = limit
  BY DEF DeletionNext, BeginDelete, DeletePrefix, CompleteDelete, FailDelete, CrashDelete, database
<1>2. \/ dataset'[r] = dataset[r]
      \/ Live(r) /\ dataset'[r] \in {"deleting", "deletion_failed"}
      \/ Live(r) /\ dataset'[r] = "deleted" /\ <<"dataset_released", r>> \in ledger'
  BY DEF UploadTypeOK, DeletionNext, BeginDelete, DeletePrefix, CompleteDelete, FailDelete,
     CrashDelete, database, DatasetWithout, Live
<1>3. /\ <<"reserved", r>> \in ledger' <=> <<"reserved", r>> \in ledger
      /\ <<"upload_released", r>> \in ledger' <=> <<"upload_released", r>> \in ledger
      /\ <<"dataset_released", r>> \in ledger => <<"dataset_released", r>> \in ledger'
      /\ <<"dataset_released", r>> \in ledger' =>
            <<"dataset_released", r>> \in ledger \/ dataset'[r] = "deleted"
  BY DEF UploadTypeOK, DeletionNext, BeginDelete, DeletePrefix, CompleteDelete, FailDelete,
     CrashDelete, database, DatasetWithout
<1>4. dataset[r] = "deleted" => dataset'[r] = "deleted"
  BY <1>2 DEF Live
<1>5. Life(r)'
  BY <1>1, <1>2 DEF Life, Live
<1>6. Entry(r)'
  BY <1>1, <1>2, <1>3, <1>4 DEF Entry, Live
<1> QED
  BY <1>1, <1>2, <1>5, <1>6 DEF Live

\* The lives of the sessions, the ledger and the unique names go together.
LEMMA LifeStep ==
  ASSUME UploadTypeOK, LifeInv, [Next]_vars
  PROVE  LifeInv'
<1>1. ASSUME NEW s \in Sessions, SessionNext(s)
      PROVE  LifeInv'
  <2>1. Turn(s)
    BY <1>1, SessionTurns DEF LifeInv
  <2>2. ASSUME NEW r \in Sessions \ {s}
        PROVE  /\ Life(r)' /\ Entry(r)' /\ (Active(r)' <=> Active(r)) /\ (Live(r)' <=> Live(r))
    <3>1. Unmoved(r) /\ Life(r) /\ Entry(r)
      BY <2>1 DEF Turn, LifeInv
    <3>2. Life(r)' /\ (Active(r)' <=> Active(r)) /\ (Live(r)' <=> Live(r))
      BY <3>1 DEF Unmoved, Life, Active, Live
    <3>3. Entry(r)'
      BY <3>1 DEF Unmoved, Entry, Kinds
    <3> QED
      BY <3>2, <3>3
  <2>3. /\ Active(s)' => Active(s) \/ NameFree
        /\ Live(s)' => Live(s) \/ \A r \in Sessions : ~Live(r)
        /\ Life(s)' /\ Entry(s)'
    BY <2>1 DEF Turn
  <2>4. OneName'
    BY <2>2, <2>3 DEF OneName, LifeInv, NameFree
  <2> QED
    BY <2>2, <2>3, <2>4 DEF LifeInv
<1>2. ASSUME NEW d \in Deleters, DeletionNext(d)
      PROVE  LifeInv'
  <2>1. \A r \in Sessions : Life(r)' /\ Entry(r)' /\ (Live(r)' => Live(r)) /\ session' = session
    BY <1>2, DeletionTurns DEF LifeInv
  <2>2. OneName'
    BY <2>1 DEF OneName, LifeInv, Active
  <2> QED
    BY <2>1, <2>2 DEF LifeInv
<1>3. CASE UNCHANGED vars
  BY <1>3 DEF vars, database, LifeInv, Life, Entry, OneName, Active, Live
<1> QED
  BY <1>1, <1>2, <1>3 DEF Next

\* No session has been created yet.
LEMMA LifeInit == Init => LifeInv
  BY UploadAssumption DEF Init, LifeInv, Life, Entry, OneName, Active, Live, ACTIVE_UPLOAD_STATUSES

(* A session runs through its life once, and the names of the active        *)
(* sessions and of the datasets stay unique (DatasetUploadSession).          *)
THEOREM UploadsCorrect == Spec => [](UploadTypeOK /\ LifeInv)
<1>1. Init => UploadTypeOK /\ LifeInv
  BY TypeInit, LifeInit
<1>2. UploadTypeOK /\ LifeInv /\ [Next]_vars => (UploadTypeOK /\ LifeInv)'
  BY TypeStep, LifeStep
<1> QED
  BY <1>1, <1>2, PTL DEF Spec

-----------------------------------------------------------------------------
\* The sessions that count against the quota: no dataset is counted twice.
Using == {s \in Sessions : Active(s) \/ Live(s)}

\* Their number is what check_storage_reservation adds up.
LEMMA Usage ==
  LifeInv => /\ StorageUsage = Cardinality(Using)
             /\ IsFiniteSet(Using) /\ Cardinality(Using) \in Nat
<1> SUFFICES ASSUME LifeInv
             PROVE  /\ StorageUsage = Cardinality(Using)
                    /\ IsFiniteSet(Using) /\ Cardinality(Using) \in Nat
  OBVIOUS
<1> DEFINE Uploading == {s \in Sessions : Active(s)}
           Stored    == {s \in Sessions : Live(s)}
<1>1. IsFiniteSet(Uploading) /\ IsFiniteSet(Stored) /\ IsFiniteSet(Using)
  BY FS_Subset, UploadAssumption DEF Using
<1>2. Uploading \cap Stored = {} /\ Uploading \cup Stored = Using
  BY DEF LifeInv, Life, Active, Live, ACTIVE_UPLOAD_STATUSES, Using
<1>3. Cardinality(Using) = Cardinality(Uploading) + Cardinality(Stored) - Cardinality({})
  BY <1>1, <1>2, FS_Union
<1>4. /\ Cardinality(Uploading) \in Nat /\ Cardinality(Stored) \in Nat
      /\ Cardinality(Using) \in Nat /\ Cardinality({}) = 0
  BY <1>1, FS_CardinalityType, FS_EmptySet
<1> QED
  BY <1>1, <1>3, <1>4 DEF StorageUsage

\* Only an insertion adds a session to them, and it has checked the quota.
LEMMA QuotaStep ==
  ASSUME UploadTypeOK, LifeInv, LifeInv', QuotaRespected, [Next]_vars
  PROVE  QuotaRespected'
<1>1. /\ StorageUsage = Cardinality(Using) /\ StorageUsage' = Cardinality(Using')
      /\ IsFiniteSet(Using) /\ IsFiniteSet(Using')
      /\ Cardinality(Using) \in Nat /\ Cardinality(Using') \in Nat
  <2>1. /\ StorageUsage = Cardinality(Using)
        /\ IsFiniteSet(Using) /\ Cardinality(Using) \in Nat
    BY Usage
  <2>2. (LifeInv => /\ StorageUsage = Cardinality(Using)
                    /\ IsFiniteSet(Using) /\ Cardinality(Using) \in Nat)'
    BY Usage, PTL
  <2> QED
    BY <2>1, <2>2
<1>2. limit \in Nat
  BY UploadAssumption DEF UploadTypeOK
<1>3. ASSUME Using' \subseteq Using, limit' = limit
      PROVE  QuotaRespected'
  <2>1. Cardinality(Using') <= Cardinality(Using)
    BY <1>1, <1>3, FS_Subset
  <2> QED
    BY <1>1, <1>2, <1>3, <2>1 DEF QuotaRespected
<1>4. ASSUME NEW s \in Sessions, SessionNext(s)
      PROVE  QuotaRespected'
  <2>1. Turn(s)
    BY <1>4, SessionTurns DEF LifeInv
  <2>2. limit' = limit /\ Using' \subseteq Using \cup {s}
    <3>1. \A r \in Sessions \ {s} : (Active(r)' => Active(r)) /\ (Live(r)' => Live(r))
      BY <2>1 DEF Turn, Unmoved, Active, Live
    <3> QED
      BY <2>1, <3>1 DEF Turn, Using
  <2>3. CASE s \in Using' /\ s \notin Using
    <3>1. QuotaAllows
      BY <2>1, <2>3 DEF Turn, Using
    <3>2. /\ Cardinality(Using') <= Cardinality(Using \cup {s})
          /\ Cardinality(Using \cup {s}) = Cardinality(Using) + 1
      BY <1>1, <2>2, <2>3, FS_Subset, FS_AddElement
    <3> QED
      BY <1>1, <1>2, <2>2, <3>1, <3>2 DEF QuotaRespected, QuotaAllows, CheckedUsage
  <2> QED
    BY <1>3, <2>2, <2>3
<1>5. ASSUME NEW d \in Deleters, DeletionNext(d)
      PROVE  QuotaRespected'
  <2>1. limit' = limit /\ Using' \subseteq Using
    <3>1. \A r \in Sessions : (Live(r)' => Live(r)) /\ session' = session
      BY <1>5, DeletionTurns DEF LifeInv
    <3>2. limit' = limit
      BY <1>5 DEF DeletionNext, BeginDelete, DeletePrefix, CompleteDelete, FailDelete, CrashDelete
    <3> QED
      BY <3>1, <3>2 DEF Using, Active
  <2> QED
    BY <1>3, <2>1
<1>6. CASE UNCHANGED vars
  <2>1. limit' = limit /\ Using' = Using
    BY <1>6 DEF vars, database, Using, Active, Live
  <2> QED
    BY <1>3, <2>1
<1> QED
  BY <1>4, <1>5, <1>6 DEF Next

(* Whatever creations, aborts and deletions are under way, what the          *)
(* organization stores and has reserved stays within its quota               *)
(* (check_storage_reservation, under the lock of the policy).                *)
THEOREM QuotaCorrect == Spec => []QuotaRespected
<1>1. Init => QuotaRespected
  <2>1. ASSUME Init
        PROVE  QuotaRespected
    <3>1. Using = {}
      BY <2>1 DEF Init, Using, Active, Live, ACTIVE_UPLOAD_STATUSES
    <3>2. StorageUsage = 0
      BY <2>1, <3>1, LifeInit, Usage, FS_EmptySet
    <3>3. limit \in Nat
      BY <2>1, UploadAssumption DEF Init
    <3> QED
      BY <3>2, <3>3 DEF QuotaRespected
  <2> QED
    BY <2>1
<1>2. /\ UploadTypeOK /\ LifeInv
      /\ (UploadTypeOK /\ LifeInv)' /\ QuotaRespected /\ [Next]_vars
      => QuotaRespected'
  BY QuotaStep
<1> QED
  BY <1>1, <1>2, UploadsCorrect, PTL DEF Spec

-----------------------------------------------------------------------------
\* One entry of a kind for each session of a set.
LEMMA EntriesOf ==
  ASSUME NEW S \in SUBSET Sessions, NEW kind
  PROVE  /\ IsFiniteSet({kind} \X S) /\ Cardinality({kind} \X S) = Cardinality(S)
         /\ IsFiniteSet(S) /\ Cardinality(S) \in Nat
<1>1. IsFiniteSet(S) /\ Cardinality(S) \in Nat
  BY UploadAssumption, FS_Subset, FS_CardinalityType
<1>2. IsFiniteSet({kind}) /\ Cardinality({kind}) = 1
  BY FS_Singleton
<1> QED
  BY <1>1, <1>2, FS_Product

\* Two sets without a common element.
LEMMA DisjointUnion ==
  ASSUME NEW S, NEW T, IsFiniteSet(S), IsFiniteSet(T), S \cap T = {}
  PROVE  /\ IsFiniteSet(S \cup T) /\ Cardinality(S \cup T) = Cardinality(S) + Cardinality(T)
         /\ Cardinality(S) \in Nat /\ Cardinality(T) \in Nat
  BY FS_Union, FS_EmptySet, FS_CardinalityType

\* The balance of the ledger follows from its entries.
LEMMA Balance == UploadTypeOK /\ LifeInv => LedgerBalanced
<1> SUFFICES ASSUME UploadTypeOK, LifeInv
             PROVE  LedgerBalanced
  OBVIOUS
<1> DEFINE Created == {s \in Sessions : session[s].status # "absent"}
           Aborted == {s \in Sessions : session[s].status = "aborted"}
           Deleted == {s \in Sessions : dataset[s] = "deleted"}
           Reserved == {e \in ledger : e[1] = "reserved"}
           Released == {e \in ledger : e[1] # "reserved"}
<1>1. /\ Reserved = {"reserved"} \X Created
      /\ Released = ({"upload_released"} \X Aborted) \cup ({"dataset_released"} \X Deleted)
  <2>1. \A e \in ledger : e = <<e[1], e[2]>> /\ e[1] \in Kinds /\ e[2] \in Sessions
    BY DEF UploadTypeOK, Kinds
  <2>2. \A s \in Sessions : /\ <<"reserved", s>> \in ledger <=> s \in Created
                            /\ <<"upload_released", s>> \in ledger <=> s \in Aborted
                            /\ <<"dataset_released", s>> \in ledger <=> s \in Deleted
    BY DEF LifeInv, Entry
  <2>3. ASSUME NEW e
        PROVE  e \in Reserved <=> e \in {"reserved"} \X Created
    <3>1. ASSUME e \in Reserved
          PROVE  e \in {"reserved"} \X Created
      <4>1. PICK s \in Sessions : e = <<"reserved", s>> /\ e \in ledger
        BY <2>1, <3>1
      <4>2. s \in Created
        BY <2>2, <4>1
      <4> QED
        BY <4>1, <4>2
    <3>2. ASSUME e \in {"reserved"} \X Created
          PROVE  e \in Reserved
      <4>1. PICK s \in Created : e = <<"reserved", s>>
        BY <3>2
      <4> QED
        BY <2>2, <4>1
    <3> QED
      BY <3>1, <3>2
  <2>4. ASSUME NEW e
        PROVE  e \in Released <=> \/ e \in {"upload_released"} \X Aborted
                                 \/ e \in {"dataset_released"} \X Deleted
    <3>1. ASSUME e \in Released
          PROVE  \/ e \in {"upload_released"} \X Aborted
                 \/ e \in {"dataset_released"} \X Deleted
      <4>1. PICK s \in Sessions :
               /\ e \in ledger
               /\ e = <<"upload_released", s>> \/ e = <<"dataset_released", s>>
        BY <2>1, <3>1 DEF Kinds
      <4>2. \/ e = <<"upload_released", s>> /\ s \in Aborted
            \/ e = <<"dataset_released", s>> /\ s \in Deleted
        BY <2>2, <4>1
      <4> QED
        BY <4>2
    <3>2. ASSUME e \in {"upload_released"} \X Aborted
          PROVE  e \in Released
      <4>1. PICK s \in Aborted : e = <<"upload_released", s>>
        BY <3>2
      <4> QED
        BY <2>2, <4>1
    <3>3. ASSUME e \in {"dataset_released"} \X Deleted
          PROVE  e \in Released
      <4>1. PICK s \in Deleted : e = <<"dataset_released", s>>
        BY <3>3
      <4> QED
        BY <2>2, <4>1
    <3> QED
      BY <3>1, <3>2, <3>3
  <2> QED
    BY <2>3, <2>4
<1>2. /\ Cardinality(Reserved) = Cardinality(Created)
      /\ Cardinality(Released) = Cardinality(Aborted) + Cardinality(Deleted)
  <2>1. ({"upload_released"} \X Aborted) \cap ({"dataset_released"} \X Deleted) = {}
    OBVIOUS
  <2>2. /\ IsFiniteSet({"upload_released"} \X Aborted)
        /\ Cardinality({"upload_released"} \X Aborted) = Cardinality(Aborted)
        /\ IsFiniteSet({"dataset_released"} \X Deleted)
        /\ Cardinality({"dataset_released"} \X Deleted) = Cardinality(Deleted)
        /\ Cardinality({"reserved"} \X Created) = Cardinality(Created)
    BY EntriesOf
  <2> HIDE DEF Created, Aborted, Deleted, Reserved, Released
  <2> QED
    BY <1>1, <2>1, <2>2, DisjointUnion
<1>3. Cardinality(Created) = Cardinality(Using) + Cardinality(Aborted) + Cardinality(Deleted)
  <2>1. /\ Created = (Using \cup Aborted) \cup Deleted
        /\ Using \cap Aborted = {} /\ (Using \cup Aborted) \cap Deleted = {}
    <3>1. \A s \in Sessions :
             /\ s \in Created <=> s \in Using \/ s \in Aborted \/ s \in Deleted
             /\ ~(s \in Using /\ s \in Aborted)
             /\ ~(s \in Using /\ s \in Deleted)
             /\ ~(s \in Aborted /\ s \in Deleted)
      BY DEF LifeInv, Life, Using, Active, Live, ACTIVE_UPLOAD_STATUSES, UploadTypeOK, SessionStatuses
    <3> QED
      BY <3>1 DEF Using
  <2>2. IsFiniteSet(Using) /\ IsFiniteSet(Aborted) /\ IsFiniteSet(Deleted)
    BY EntriesOf DEF Using
  <2>3. /\ IsFiniteSet(Using \cup Aborted)
        /\ Cardinality(Using \cup Aborted) = Cardinality(Using) + Cardinality(Aborted)
    BY <2>1, <2>2, DisjointUnion
  <2>4. Cardinality(Created) = Cardinality(Using \cup Aborted) + Cardinality(Deleted)
    BY <2>1, <2>2, <2>3, DisjointUnion
  <2> QED
    BY <2>3, <2>4
<1>4. /\ StorageUsage = Cardinality(Using) /\ Cardinality(Using) \in Nat
      /\ Cardinality(Aborted) \in Nat /\ Cardinality(Deleted) \in Nat
  BY Usage, EntriesOf
<1> QED
  BY <1>2, <1>3, <1>4 DEF LedgerBalanced

(* The usage ledger adds up to the usage: what a session reserved is released *)
(* once, by its abort or by the deletion of its dataset (append_usage).       *)
THEOREM LedgerCorrect == Spec => []LedgerBalanced
  BY UploadsCorrect, Balance, PTL

-----------------------------------------------------------------------------
(* While a session or a ready dataset has the name to itself, no other       *)
(* command on the name is under way.                                         *)
Holds(s) == Active(s) \/ dataset[s] = "ready"
Alone(s) ==
    Holds(s) => /\ \A d \in Deleters : deleter[d] = "idle"
                /\ \A r \in Sessions : request[r] # "looked"
                /\ \A r \in Sessions \ {s} : ~Active(r) /\ ~Live(r)

(* What can still become a ready dataset, or is one, has the objects of its  *)
(* completed files; and a ready dataset has its manifest.                    *)
Kept(s) == \/ session[s].status = "uploading" /\ ~session[s].expired
           \/ session[s].status = "finalizing"
           \/ dataset[s] = "ready"
Sound(s) ==
    /\ Kept(s) => \A f \in FilesOf[s] : file[s][f] = "completed" =>
                     object[f] = [owner |-> s, content |-> "valid"]
    /\ dataset[s] = "ready" => manifest = s

WholeInv == overlapped = {} => \A s \in Sessions : Alone(s) /\ Sound(s)

Referenced == \A s \in missions : dataset[s] = "ready"

\* Sessions are never taken out of overlapped.
LEMMA OverlapGrows ==
  ASSUME UploadTypeOK, [Next]_vars
  PROVE  overlapped \subseteq overlapped'
  BY DEF Next, vars, SessionNext, DeletionNext, Look, InsertSession, Reconcile, FinishInitialization,
     FinalizeFromIntent, InitializeFile, CompleteFromIntent, FinalizeSession, ExpireSession,
     AbortUpload, CleanupExpired, AbortRecord, LaunchMission, CompleteFile, PutParts, BeginDelete,
     DeletePrefix, CompleteDelete, FailDelete, CrashDelete

\* The sessions other than the one that steps keep what they hold.
LEMMA OthersHold ==
  ASSUME NEW s \in Sessions, Turn(s), NEW r \in Sessions \ {s}
  PROVE  /\ Active(r)' <=> Active(r)
         /\ Live(r)' <=> Live(r)
         /\ Holds(r)' <=> Holds(r)
         /\ Kept(r)' <=> Kept(r)
         /\ dataset'[r] = dataset[r] /\ file'[r] = file[r] /\ request'[r] = request[r]
  BY DEF Turn, Unmoved, Active, Live, Holds, Kept

\* Except for Look and InsertSession, a session step starts no command.
Underway(s) == SessionNext(s) /\ ~Look(s) /\ ~InsertSession(s)

\* It may hand the name on from the session to its dataset.
LEMMA UnderwayHolds ==
  ASSUME UploadTypeOK, LifeInv, NEW s \in Sessions, Underway(s)
  PROVE  /\ Holds(s)' => Holds(s)
         /\ Active(s)' => Active(s)
         /\ Live(s)' => Live(s) \/ Active(s)
         /\ UNCHANGED <<request, deleter, overlapped>>
<1> USE UploadAssumption
<1>0. Life(s)
  BY DEF LifeInv
<1>1. UNCHANGED <<request, deleter, overlapped>>
  BY DEF Underway, SessionNext, Reconcile, FinishInitialization,
     FinalizeFromIntent, InitializeFile, CompleteFromIntent, FinalizeSession, ExpireSession,
     AbortUpload, CleanupExpired, AbortRecord, LaunchMission, CompleteFile, PutParts, database
<1>2. \/ UNCHANGED <<session, dataset>>
      \/ dataset' = dataset /\ Active(s)
      \/ FinalizeFromIntent(s) /\ Active(s)
  <2>1. CASE FinishInitialization(s) \/ FinalizeSession(s) \/ ExpireSession(s)
    BY <2>1 DEF FinishInitialization, FinalizeSession, InSession, ExpireSession, Active,
       ACTIVE_UPLOAD_STATUSES
  <2>2. CASE FinalizeFromIntent(s)
    BY <2>2 DEF FinalizeFromIntent, Active, ACTIVE_UPLOAD_STATUSES
  <2>3. CASE \E f \in FilesOf[s] : CompleteFromIntent(s, f)
    BY <1>0, <2>3 DEF CompleteFromIntent, Life, Active, ACTIVE_UPLOAD_STATUSES
  <2>4. CASE AbortUpload(s) \/ CleanupExpired(s)
    BY <2>4 DEF AbortUpload, CleanupExpired, AbortRecord, Active, ACTIVE_UPLOAD_STATUSES
  <2>5. CASE \/ \E f \in FilesOf[s] : \/ InitializeFile(s, f) \/ CompleteFile(s, f)
                                      \/ \E content \in Contents : PutParts(s, f, content)
             \/ LaunchMission(s)
    BY <2>5 DEF InitializeFile, CompleteFile, PutParts, LaunchMission, database
  <2> QED
    BY <2>1, <2>2, <2>3, <2>4, <2>5 DEF Underway, SessionNext, Reconcile
<1>3. CASE UNCHANGED <<session, dataset>>
  BY <1>1, <1>3 DEF Holds, Active, Live
<1>4. CASE dataset' = dataset /\ Active(s)
  BY <1>1, <1>4 DEF Holds, Active, Live
<1>5. CASE FinalizeFromIntent(s) /\ Active(s)
  BY <1>1, <1>5 DEF Holds
<1> QED
  BY <1>2, <1>3, <1>4, <1>5

\* A session that is created has the name to itself, or overlaps.
LEMMA AloneSession ==
  ASSUME UploadTypeOK, LifeInv, WholeInv, NEW s \in Sessions, SessionNext(s), overlapped = {},
         overlapped' = {}, NEW r \in Sessions, Holds(r)'
  PROVE  /\ \A d \in Deleters : deleter'[d] = "idle"
         /\ \A q \in Sessions : request'[q] # "looked"
         /\ \A q \in Sessions \ {r} : ~Active(q)' /\ ~Live(q)'
<1> USE UploadAssumption
<1>0. Turn(s) /\ (\A q \in Sessions : Alone(q) /\ Sound(q))
  BY SessionTurns DEF LifeInv, WholeInv
<1>1. CASE Underway(s)
  <2>1. /\ Holds(r)
        /\ Active(s)' => Active(s)
        /\ Live(s)' => Live(s) \/ Active(s)
        /\ UNCHANGED <<request, deleter>>
    BY <1>0, <1>1, UnderwayHolds, OthersHold
  <2>2. \A q \in Sessions \ {r} : ~Active(q) /\ ~Live(q)
    BY <1>0, <2>1 DEF Alone
  <2>3. \A q \in Sessions \ {r} : ~Active(q)' /\ ~Live(q)'
    BY <1>0, <2>1, <2>2, OthersHold
  <2> QED
    BY <1>0, <2>1, <2>3 DEF Alone
<1>2. CASE Look(s)
  <2>1. UNCHANGED <<session, dataset, deleter>>
    BY <1>2 DEF Look, database
  <2>2. Holds(r)
    BY <2>1 DEF Holds, Active
  <2>3. request'[s] # "looked"
    <3>1. CASE Active(r)
      BY <1>2, <3>1 DEF Look, UploadTypeOK
    <3>2. CASE dataset[r] = "ready"
      BY <1>0, <1>2, <3>2 DEF Look, UploadTypeOK, Sound, PrefixEmpty
    <3> QED
      BY <2>2, <3>1, <3>2 DEF Holds
  <2>4. \A q \in Sessions : request'[q] # "looked"
    BY <1>0, <2>2, <2>3, OthersHold DEF Alone
  <2>5. \A q \in Sessions \ {r} : ~Active(q)' /\ ~Live(q)'
    BY <1>0, <2>1, <2>2 DEF Alone, Active, Live
  <2> QED
    BY <1>0, <2>1, <2>2, <2>4, <2>5 DEF Alone
<1>3. CASE InsertSession(s) /\ ~(QuotaAllows /\ NameFree)
  <2>1. UNCHANGED <<session, dataset, deleter>> /\ request'[s] = "done"
    BY <1>3 DEF InsertSession, UploadTypeOK
  <2>2. Holds(r)
    BY <2>1 DEF Holds, Active
  <2>3. \A q \in Sessions : request'[q] # "looked"
    BY <1>0, <2>1, <2>2, OthersHold DEF Alone
  <2>4. \A q \in Sessions \ {r} : ~Active(q)' /\ ~Live(q)'
    BY <1>0, <2>1, <2>2 DEF Alone, Active, Live
  <2> QED
    BY <1>0, <2>1, <2>2, <2>3, <2>4 DEF Alone
<1>4. CASE InsertSession(s) /\ QuotaAllows /\ NameFree
  <2>1. /\ ~OtherCommands(s)
        /\ UNCHANGED <<dataset, deleter>> /\ request'[s] = "done"
        /\ dataset[s] = "absent"
    <3>1. /\ overlapped' = IF OtherCommands(s)
                           THEN overlapped \cup {s} \cup {q \in Sessions : request[q] = "looked"}
                           ELSE overlapped
          /\ UNCHANGED <<dataset, deleter>> /\ request'[s] = "done" /\ request[s] = "looked"
      BY <1>4 DEF InsertSession, UploadTypeOK
    <3>2. dataset[s] = "absent"
      BY <3>1 DEF LifeInv, Life
    <3> QED
      BY <3>1, <3>2
  <2>2. /\ \A d \in Deleters : deleter[d] = "idle"
        /\ \A q \in Sessions \ {s} : ~Live(q) /\ request[q] # "looked"
    BY <2>1 DEF OtherCommands
  <2>3. \A q \in Sessions \ {s} : ~Active(q)' /\ ~Live(q)' /\ request'[q] # "looked"
    BY <1>0, <1>4, <2>2, OthersHold DEF NameFree
  <2>4. r = s
    BY <2>3 DEF Holds, Live
  <2> QED
    BY <2>1, <2>2, <2>3, <2>4
<1> QED
  BY <1>1, <1>2, <1>3, <1>4 DEF Underway

\* Once a deletion is under way, nothing holds the name.
LEMMA AloneDeletion ==
  ASSUME UploadTypeOK, LifeInv, WholeInv, NEW d \in Deleters, DeletionNext(d), overlapped = {},
         NEW r \in Sessions
  PROVE  ~Holds(r)'
<1>1. /\ session' = session
      /\ dataset'[r] = "ready" => dataset[r] = "ready"
  BY DEF UploadTypeOK, DeletionNext, BeginDelete, DeletePrefix, CompleteDelete, FailDelete,
     CrashDelete, database, DatasetWithout
<1>2. Holds(r)' => Holds(r)
  BY <1>1 DEF Holds, Active
<1>3. CASE BeginDelete(d)
  <2>1. PICK s \in Sessions : Live(s) /\ dataset' = [dataset EXCEPT ![s] = "deleting"]
    BY <1>3 DEF BeginDelete, DatasetWithout, Unreferenced, Live
  <2>2. dataset'[s] = "deleting" /\ ~Active(s)
    BY <2>1 DEF UploadTypeOK, LifeInv, Life, Active, Live, ACTIVE_UPLOAD_STATUSES
  <2>3. CASE r = s
    BY <1>1, <2>2, <2>3 DEF Holds, Active
  <2>4. CASE r # s
    BY <1>2, <2>1, <2>4 DEF WholeInv, Alone
  <2> QED
    BY <2>3, <2>4
<1>4. CASE ~BeginDelete(d)
  <2>1. deleter[d] # "idle"
    BY <1>4 DEF DeletionNext, DeletePrefix, CompleteDelete, FailDelete, CrashDelete
  <2> QED
    BY <1>2, <2>1 DEF WholeInv, Alone
<1> QED
  BY <1>3, <1>4

\* The session that steps keeps its own objects ...
LEMMA SoundSelf ==
  ASSUME UploadTypeOK, LifeInv, NEW s \in Sessions, Sound(s), SessionNext(s)
  PROVE  Sound(s)'
<1> USE UploadAssumption
<1>0. Life(s)
  BY DEF LifeInv
<1>1. CASE Look(s) \/ LaunchMission(s)
  BY <1>1 DEF Look, LaunchMission, database, store, Sound, Kept
<1>2. CASE InsertSession(s)
  <2>1. CASE QuotaAllows /\ NameFree
    <3>1. /\ session'[s].status = "initializing" /\ dataset[s] = "absent" /\ dataset' = dataset
      BY <1>2, <1>0, <2>1, SessionRow
         DEF InsertSession, UploadTypeOK, SessionStatuses, SessionRows, Life
    <3> QED
      BY <3>1 DEF Sound, Kept
  <2>2. CASE ~(QuotaAllows /\ NameFree)
    BY <1>2, <2>2 DEF InsertSession, store, Sound, Kept
  <2> QED
    BY <2>1, <2>2
<1>3. CASE FinishInitialization(s)
  <2>1. /\ \A f \in FilesOf[s] : file[s][f] # "completed"
        /\ dataset[s] # "ready" /\ UNCHANGED <<file, dataset>>
    BY <1>3, <1>0 DEF FinishInitialization, Life
  <2> QED
    BY <2>1 DEF Sound
<1>4. CASE FinalizeFromIntent(s)
  <2>1. /\ \A f \in FilesOf[s] : object[f] = [owner |-> s, content |-> "valid"]
        /\ UNCHANGED <<file, object>> /\ manifest' = s
    BY <1>4, <1>0 DEF FinalizeFromIntent, Sound, Kept, Life
  <2> QED
    BY <2>1 DEF Sound
<1>5. ASSUME NEW f \in FilesOf[s], InitializeFile(s, f)
      PROVE  Sound(s)'
  <2>1. /\ session[s].status \in {"initializing", "failed"} /\ UNCHANGED <<session, dataset>>
        /\ dataset[s] # "ready"
    BY <1>5, <1>0 DEF InitializeFile, Life
  <2> QED
    BY <2>1 DEF Sound, Kept
<1>6. ASSUME NEW f \in FilesOf[s], CompleteFromIntent(s, f)
      PROVE  Sound(s)'
  <2>1. /\ dataset[s] # "ready" /\ dataset' = dataset
        /\ object' = [object EXCEPT ![f] = ObjectAfter(s, f)]
        /\ file[s][f] = "completing"
    BY <1>6, <1>0 DEF CompleteFromIntent, StoreConverges, Life
  <2>2. \/ UNCHANGED <<session, file>>
        \/ FailFile(s, f)
        \/ /\ FileBecomes(s, f, "completed") /\ session' = session
           /\ ObjectAfter(s, f).owner = s /\ ObjectAfter(s, f).content = "valid"
    BY <1>6 DEF CompleteFromIntent, RecordCompletion
  <2>3. \A g \in FilesOf[s] \ {f} : object'[g] = object[g]
    BY <2>1 DEF UploadTypeOK
  <2>4. CASE UNCHANGED <<session, file>>
    BY <2>1, <2>3, <2>4 DEF Sound, Kept
  <2>5. CASE FailFile(s, f)
    <3>1. session'[s].status = "failed"
      BY <2>5, SessionRow DEF FailFile, UploadTypeOK, SessionStatuses, SessionRows
    <3> QED
      BY <2>1, <3>1 DEF Sound, Kept
  <2>6. CASE /\ FileBecomes(s, f, "completed") /\ session' = session
             /\ ObjectAfter(s, f).owner = s /\ ObjectAfter(s, f).content = "valid"
    <3>1. \A g \in FilesOf[s] \ {f} : file'[s][g] = file[s][g]
      BY <2>6, FileRow DEF UploadTypeOK, FileStatuses
    <3>2. object'[f] = [owner |-> s, content |-> "valid"]
      <4>1. ObjectAfter(s, f) \in [owner : Sessions \cup {NoSession}, content : Contents]
        BY DEF UploadTypeOK, ObjectAfter, NoObject, Contents
      <4>2. ObjectAfter(s, f) = [owner |-> s, content |-> "valid"]
        BY <2>6, <4>1
      <4> QED
        BY <2>1, <4>2 DEF UploadTypeOK
    <3> QED
      BY <2>1, <2>3, <2>6, <3>1, <3>2 DEF Sound, Kept
  <2> QED
    BY <2>2, <2>4, <2>5, <2>6
<1>7. CASE FinalizeSession(s)
  <2>1. /\ session[s].status = "uploading" /\ ~session[s].expired
        /\ UNCHANGED <<file, dataset, object, manifest>>
    BY <1>7 DEF FinalizeSession, InSession, store
  <2> QED
    BY <2>1 DEF Sound, Kept
<1>8. CASE ExpireSession(s)
  <2>1. /\ session'[s].status = session[s].status /\ ~session[s].expired
        /\ UNCHANGED <<file, dataset, object, manifest>>
    BY <1>8 DEF ExpireSession, store, UploadTypeOK
  <2> QED
    BY <2>1 DEF Sound, Kept
<1>9. CASE AbortUpload(s) \/ CleanupExpired(s)
  <2>1. /\ AbortRecord(s) /\ dataset' = dataset /\ dataset[s] # "ready"
        /\ session[s].status \in {"initializing", "uploading", "failed"}
    BY <1>9, <1>0 DEF AbortUpload, CleanupExpired, AbortRecord, Life
  <2>2. CASE SessionBecomes(s, "aborted") \/ SessionBecomes(s, "failed")
    <3>1. session'[s].status \in {"aborted", "failed"}
      BY <2>2, SessionRow DEF UploadTypeOK, SessionStatuses, SessionRows
    <3> QED
      BY <2>1, <3>1 DEF Sound, Kept
  <2>3. CASE UNCHANGED <<session, file>>
    <3>1. Kept(s)' => AbortUpload(s) /\ session[s].status = "uploading"
      BY <1>9, <2>1, <2>3 DEF Kept, CleanupExpired
    <3>2. Kept(s)' => \A f \in FilesOf[s] : file'[s][f] # "completed"
      BY <2>3, <3>1 DEF AbortUpload
    <3> QED
      BY <2>1, <3>2 DEF Sound
  <2> QED
    BY <2>1, <2>2, <2>3 DEF AbortRecord
<1>10. ASSUME NEW f \in FilesOf[s], CompleteFile(s, f)
       PROVE  Sound(s)'
  <2>1. /\ UNCHANGED <<session, dataset, object, manifest>>
        /\ file'[s][f] = "completing"
        /\ \A g \in FilesOf[s] \ {f} : file'[s][g] = file[s][g]
    BY <1>10, FileRow DEF CompleteFile, UploadTypeOK, FileStatuses, store
  <2> QED
    BY <2>1 DEF Sound, Kept
<1>11. ASSUME NEW f \in FilesOf[s], NEW content \in Contents, PutParts(s, f, content)
       PROVE  Sound(s)'
  BY <1>11 DEF PutParts, database, Sound, Kept
<1> QED
  BY <1>1, <1>2, <1>3, <1>4, <1>5, <1>6, <1>7, <1>8, <1>9, <1>10, <1>11
     DEF SessionNext, Reconcile

\* ... and those of another one, unless it is active itself.
LEMMA SoundOther ==
  ASSUME UploadTypeOK, LifeInv, NEW s \in Sessions, SessionNext(s),
         NEW r \in Sessions \ {s}, Sound(r), ~Active(s)
  PROVE  Sound(r)'
<1>1. UNCHANGED <<object, manifest>>
  <2>1. Life(s)
    BY DEF LifeInv
  <2> QED
    BY <2>1 DEF Life, Active, ACTIVE_UPLOAD_STATUSES, SessionNext, Look, InsertSession, Reconcile,
       FinishInitialization, FinalizeFromIntent, InitializeFile, CompleteFromIntent,
       FinalizeSession, ExpireSession, AbortUpload, CleanupExpired, LaunchMission, CompleteFile,
       PutParts, store
<1>2. /\ Kept(r)' <=> Kept(r)
      /\ dataset'[r] = dataset[r] /\ file'[r] = file[r]
  BY SessionTurns, OthersHold DEF LifeInv
<1> QED
  BY <1>1, <1>2 DEF Sound

\* So ready datasets stay whole while no session overlaps another command.
LEMMA WholeStep ==
  ASSUME UploadTypeOK, LifeInv, WholeInv, [Next]_vars
  PROVE  WholeInv'
<1> SUFFICES ASSUME overlapped' = {}, NEW r \in Sessions
             PROVE  Alone(r)' /\ Sound(r)'
  BY DEF WholeInv
<1>0. overlapped = {} /\ \A q \in Sessions : Alone(q) /\ Sound(q)
  BY OverlapGrows DEF WholeInv
<1>1. ASSUME NEW s \in Sessions, SessionNext(s)
      PROVE  Alone(r)' /\ Sound(r)'
  <2>1. Alone(r)'
    BY <1>0, <1>1, AloneSession DEF Alone
  <2>2. CASE r = s
    BY <1>0, <1>1, <2>1, <2>2, SoundSelf
  <2>3. CASE r # s /\ ~Active(s)
    BY <1>0, <1>1, <2>1, <2>3, SoundOther
  <2>4. CASE r # s /\ Active(s)
    <3>1. ~Holds(r)
      BY <1>0, <2>4 DEF Alone, Holds
    <3>2. ~Holds(r)'
      BY <1>1, <2>4, <3>1, SessionTurns, OthersHold DEF LifeInv
    <3>3. ~Kept(r)' /\ dataset'[r] # "ready"
      BY <3>2 DEF Kept, Holds, Active, ACTIVE_UPLOAD_STATUSES
    <3> QED
      BY <2>1, <3>3 DEF Sound
  <2> QED
    BY <2>2, <2>3, <2>4
<1>2. ASSUME NEW d \in Deleters, DeletionNext(d)
      PROVE  Alone(r)' /\ Sound(r)'
  <2>1. ~Holds(r)'
    BY <1>0, <1>2, AloneDeletion
  <2>2. ~Kept(r)' /\ dataset'[r] # "ready"
    BY <2>1 DEF Kept, Holds, Active, ACTIVE_UPLOAD_STATUSES
  <2> QED
    BY <2>1, <2>2 DEF Alone, Sound
<1>3. CASE UNCHANGED vars
  BY <1>0, <1>3 DEF vars, database, store, Alone, Sound, Holds, Kept, Active, Live
<1> QED
  BY <1>1, <1>2, <1>3 DEF Next

\* The dataset of a mission cannot be deleted.
LEMMA ReferencedStep ==
  ASSUME UploadTypeOK, LifeInv, Referenced, [Next]_vars
  PROVE  Referenced'
<1>1. ASSUME NEW s \in Sessions, SessionNext(s)
      PROVE  Referenced'
  <2>1. \A r \in Sessions : dataset[r] = "ready" => dataset'[r] = "ready"
    BY <1>1 DEF SessionNext, Look, InsertSession, Reconcile, FinishInitialization,
       FinalizeFromIntent, InitializeFile, CompleteFromIntent, FinalizeSession, ExpireSession,
       AbortUpload, CleanupExpired, AbortRecord, LaunchMission, CompleteFile, PutParts, database,
       UploadTypeOK
  <2>2. missions' = missions \/ (missions' = missions \cup {s} /\ dataset'[s] = "ready")
    BY <1>1 DEF SessionNext, Look, InsertSession, Reconcile, FinishInitialization,
       FinalizeFromIntent, InitializeFile, CompleteFromIntent, FinalizeSession, ExpireSession,
       AbortUpload, CleanupExpired, AbortRecord, LaunchMission, CompleteFile, PutParts, database
  <2> QED
    BY <2>1, <2>2 DEF Referenced, UploadTypeOK
<1>2. ASSUME NEW d \in Deleters, DeletionNext(d)
      PROVE  Referenced'
  BY <1>2 DEF DeletionNext, BeginDelete, DeletePrefix, CompleteDelete, FailDelete, CrashDelete,
     database, DatasetWithout, Unreferenced, Referenced, UploadTypeOK
<1>3. CASE UNCHANGED vars
  BY <1>3 DEF vars, database, Referenced
<1> QED
  BY <1>1, <1>2, <1>3 DEF Next

(* A dataset that is ready has its own manifest and all its objects, unless a *)
(* session was created beside another command on its name; and a mission      *)
(* keeps its dataset ready (finalize_record, begin_dataset_delete).           *)
THEOREM CatalogCorrect == Spec => []CatalogWhole
<1>1. Init => WholeInv /\ Referenced
  BY UploadAssumption
     DEF Init, WholeInv, Alone, Sound, Holds, Kept, Referenced, Active, ACTIVE_UPLOAD_STATUSES
<1>2. /\ UploadTypeOK /\ LifeInv /\ WholeInv /\ Referenced /\ [Next]_vars
      => (WholeInv /\ Referenced)'
  BY WholeStep, ReferencedStep
<1>3. UploadTypeOK /\ LifeInv /\ WholeInv /\ Referenced => CatalogWhole
  <2> SUFFICES ASSUME UploadTypeOK, LifeInv, WholeInv, Referenced, NEW s \in Sessions
               PROVE  /\ s \in missions => dataset[s] = "ready"
                      /\ dataset[s] = "ready" /\ overlapped = {} => Whole(s)
    BY DEF CatalogWhole
  <2>1. dataset[s] = "ready" => \A f \in FilesOf[s] : file[s][f] = "completed"
    BY DEF LifeInv, Life
  <2> QED
    BY <2>1 DEF Referenced, WholeInv, Sound, Kept, Whole
<1> QED
  BY <1>1, <1>2, <1>3, UploadsCorrect, PTL DEF Spec

-----------------------------------------------------------------------------
(* A session that overlaps no other command found its prefix empty, and      *)
(* nobody else puts an object there while it is active.                      *)
Own(s) ==
    s \notin overlapped =>
        /\ request[s] = "looked" => PrefixEmpty /\ \A r \in Sessions : ~Active(r)
        /\ Active(s) => \A f \in Files : object[f].owner \in {s, NoSession}

(* Every object belongs to a file whose completion is under way or done, or  *)
(* was refused.                                                              *)
Owned(s) ==
    /\ \A f \in Files : object[f].owner = s =>
          /\ f \in FilesOf[s]
          /\ file[s][f] \in {"completing", "completed"} \/ <<s, f>> \in refusedHeader
    /\ \A f \in Files : <<s, f>> \in refusedHeader =>
          f \in FilesOf[s] /\ file[s][f] \in {"failed", "aborted"}

(* A multipart upload belongs to a file that may yet be completed, and is    *)
(* gone once the object is there.                                            *)
Parts(s) ==
    s \notin overlapped => \A f \in FilesOf[s] : multipart[s][f] # "none" =>
        /\ file[s][f] \in {"initializing", "uploading", "completing"}
        /\ file[s][f] = "completing" => object[f] = NoObject

NoneOwned == \A f \in Files : object[f].owner = NoSession => object[f] = NoObject

LeakInv == NoneOwned /\ \A s \in Sessions : Own(s) /\ Owned(s) /\ Parts(s)

\* An object that is there is replaced only after it was erased, and comes
\* from the completion of an active session.
LEMMA ObjectTurn ==
  ASSUME UploadTypeOK, LifeInv, NEW s \in Sessions, SessionNext(s), NEW f \in Files
  PROVE  \/ object'[f] = object[f]
         \/ object'[f] = NoObject
         \/ /\ Active(s) /\ f \in FilesOf[s] /\ CompleteFromIntent(s, f)
            /\ object[f] = NoObject /\ object'[f].owner = s
<1> USE UploadAssumption
<1>1. ASSUME NEW g \in FilesOf[s], CompleteFromIntent(s, g)
      PROVE  \/ object'[f] = object[f]
             \/ /\ Active(s) /\ f \in FilesOf[s] /\ CompleteFromIntent(s, f)
                /\ object[f] = NoObject /\ object'[f].owner = s
  <2>1. /\ object' = [object EXCEPT ![g] = ObjectAfter(s, g)] /\ file[s][g] = "completing"
    BY <1>1 DEF CompleteFromIntent, StoreConverges
  <2>2. Active(s)
    BY <2>1 DEF LifeInv, Life, Active, ACTIVE_UPLOAD_STATUSES
  <2>3. CASE f # g
    BY <2>1, <2>3 DEF UploadTypeOK
  <2>4. CASE f = g
    BY <1>1, <2>1, <2>2, <2>4 DEF UploadTypeOK, ObjectAfter
  <2> QED
    BY <2>3, <2>4
<1>2. ASSUME AbortRecord(s)
      PROVE  object'[f] = object[f] \/ object'[f] = NoObject
  BY <1>2 DEF AbortRecord, EraseFiles
<1>3. \/ object' = object
      \/ AbortRecord(s)
      \/ \E g \in FilesOf[s] : CompleteFromIntent(s, g)
  BY DEF SessionNext, Look, InsertSession, Reconcile, FinishInitialization,
     FinalizeFromIntent, InitializeFile, FinalizeSession, ExpireSession,
     AbortUpload, CleanupExpired, LaunchMission, CompleteFile, PutParts, store
<1> QED
  BY <1>1, <1>2, <1>3

\* A deletion request only erases objects, and moves nothing else of a session.
LEMMA ObjectDeletion ==
  ASSUME UploadTypeOK, NEW d \in Deleters, DeletionNext(d)
  PROVE  /\ \A f \in Files : object'[f] = object[f] \/ object'[f] = NoObject
         /\ manifest' = manifest \/ manifest' = NoSession
         /\ UNCHANGED <<request, session, file, multipart, overlapped, refusedHeader>>
<1>1. CASE DeletePrefix(d)
  BY <1>1 DEF DeletePrefix, database
<1>2. CASE BeginDelete(d) \/ CompleteDelete(d) \/ FailDelete(d) \/ CrashDelete(d)
  BY <1>2 DEF BeginDelete, CompleteDelete, FailDelete, CrashDelete, store, database
<1> QED
  BY <1>1, <1>2 DEF DeletionNext

\* The multipart uploads of the sessions that do not step only disappear.
LEMMA PartsShrink ==
  ASSUME UploadTypeOK, NEW s \in Sessions, SessionNext(s), NEW r \in Sessions \ {s}, NEW f \in Files
  PROVE  multipart'[r][f] # "none" => multipart[r][f] # "none"
<1> USE UploadAssumption
<1>1. ASSUME NEW g \in FilesOf[s], InitializeFile(s, g)
      PROVE  multipart'[r][f] \in {multipart[r][f], "none"}
  <2>1. PICK state \in {"empty", "none"} : multipart' = OnlyUpload(s, g, state)
    BY <1>1 DEF InitializeFile
  <2>2. multipart'[r] = [multipart[r] EXCEPT ![g] = "none"]
    BY <2>1 DEF OnlyUpload
  <2> QED
    BY <2>2 DEF UploadTypeOK
<1>2. ASSUME NEW g \in FilesOf[s], CompleteFromIntent(s, g)
      PROVE  multipart'[r][f] \in {multipart[r][f], "none"}
  BY <1>2 DEF CompleteFromIntent, StoreConverges, UploadTypeOK
<1>3. ASSUME NEW g \in FilesOf[s], NEW content \in Contents, PutParts(s, g, content)
      PROVE  multipart'[r][f] \in {multipart[r][f], "none"}
  BY <1>3 DEF PutParts, UploadTypeOK
<1>4. ASSUME AbortRecord(s)
      PROVE  multipart'[r][f] \in {multipart[r][f], "none"}
  BY <1>4 DEF AbortRecord, EraseFiles, UploadTypeOK
<1>5. \/ multipart' = multipart
      \/ AbortRecord(s)
      \/ \E g \in FilesOf[s] : \/ InitializeFile(s, g) \/ CompleteFromIntent(s, g)
                               \/ \E content \in Contents : PutParts(s, g, content)
  BY DEF SessionNext, Look, InsertSession, Reconcile, FinishInitialization,
     FinalizeFromIntent, FinalizeSession, ExpireSession,
     AbortUpload, CleanupExpired, LaunchMission, CompleteFile, store
<1> QED
  BY <1>1, <1>2, <1>3, <1>4, <1>5

\* The session that steps accounts for its own objects.
LEMMA OwnedSelf ==
  ASSUME UploadTypeOK, LifeInv, NEW s \in Sessions, Owned(s), SessionNext(s)
  PROVE  Owned(s)'
<1> USE UploadAssumption
<1>0. /\ Life(s)
      /\ \A f \in Files : object'[f].owner = s => object[f].owner = s \/ CompleteFromIntent(s, f)
  BY ObjectTurn DEF LifeInv, NoObject
<1>2. CASE InsertSession(s)
  <2>1. CASE QuotaAllows /\ NameFree
    <3>1. /\ \A f \in Files : file[s][f] = "absent" /\ object' = object
          /\ refusedHeader' = refusedHeader
      BY <1>0, <1>2, <2>1 DEF InsertSession, Life, store
    <3> QED
      BY <3>1 DEF Owned
  <2>2. CASE ~(QuotaAllows /\ NameFree)
    BY <1>2, <2>2 DEF InsertSession, store, Owned
  <2> QED
    BY <2>1, <2>2
<1>3. ASSUME NEW f \in FilesOf[s], InitializeFile(s, f)
      PROVE  Owned(s)'
  <2>1. /\ UNCHANGED <<object, refusedHeader>> /\ file[s][f] = "initializing"
        /\ \A g \in Files \ {f} : file'[s][g] = file[s][g]
    BY <1>3, FileRow DEF InitializeFile, UploadTypeOK, FileStatuses
  <2>2. object[f].owner # s /\ <<s, f>> \notin refusedHeader
    BY <2>1 DEF Owned
  <2> QED
    BY <2>1, <2>2 DEF Owned
<1>4. ASSUME NEW f \in FilesOf[s], CompleteFile(s, f)
      PROVE  Owned(s)'
  <2>1. /\ UNCHANGED <<object, refusedHeader>> /\ file[s][f] = "uploading"
        /\ \A g \in Files \ {f} : file'[s][g] = file[s][g]
    BY <1>4, FileRow DEF CompleteFile, UploadTypeOK, FileStatuses, store
  <2>2. object[f].owner # s /\ <<s, f>> \notin refusedHeader
    BY <2>1 DEF Owned
  <2> QED
    BY <2>1, <2>2 DEF Owned
<1>5. ASSUME NEW f \in FilesOf[s], CompleteFromIntent(s, f)
      PROVE  Owned(s)'
  <2>1. /\ object' = [object EXCEPT ![f] = ObjectAfter(s, f)] /\ file[s][f] = "completing"
        /\ \A g \in Files \ {f} : object'[g] = object[g]
        /\ object'[f] = ObjectAfter(s, f)
    BY <1>5 DEF CompleteFromIntent, StoreConverges, UploadTypeOK
  <2>2. <<s, f>> \notin refusedHeader
    BY <2>1 DEF Owned
  <2>3. CASE UNCHANGED <<file, refusedHeader>>
    BY <2>1, <2>2, <2>3 DEF Owned
  <2>4. CASE /\ FileBecomes(s, f, "completed") /\ refusedHeader' = refusedHeader
    <3>1. /\ file'[s][f] = "completed" /\ \A g \in Files \ {f} : file'[s][g] = file[s][g]
      BY <2>4, FileRow DEF UploadTypeOK, FileStatuses
    <3> QED
      BY <2>1, <2>2, <2>4, <3>1 DEF Owned
  <2>5. CASE /\ FileBecomes(s, f, "failed")
             /\ \/ /\ ObjectAfter(s, f).owner = s
                   /\ refusedHeader' = refusedHeader \cup {<<s, f>>}
                \/ /\ ObjectAfter(s, f).owner # s
                   /\ refusedHeader' = refusedHeader
    <3>1. /\ file'[s][f] = "failed" /\ \A g \in Files \ {f} : file'[s][g] = file[s][g]
      BY <2>5, FileRow DEF UploadTypeOK, FileStatuses
    <3> QED
      BY <2>1, <2>2, <2>5, <3>1 DEF Owned
  <2>6. Mismatched(s, f) => ObjectAfter(s, f).owner # s
    BY DEF Mismatched, ObjectAfter, NoObject, Contents
  <2> QED
    BY <1>5, <2>3, <2>4, <2>5, <2>6 DEF CompleteFromIntent, FailFile, RecordCompletion
<1>6. CASE AbortUpload(s) \/ CleanupExpired(s)
  <2>1. /\ AbortRecord(s) /\ refusedHeader' = refusedHeader
        /\ \A f \in FilesOf[s] : file[s][f] # "completing"
    BY <1>6 DEF AbortUpload, CleanupExpired, AbortRecord, CompletionUncertain
  <2>2. PICK done \in SUBSET FilesOf[s] :
          /\ EraseFiles(s, done)
          /\ \A f \in Files : \/ file'[s][f] = file[s][f]
                              \/ f \in done /\ file'[s][f] = "aborted"
                              \/ f \notin FilesOf[s]
    <3>1. CASE /\ EraseFiles(s, FilesOf[s])
               /\ file' = [file EXCEPT ![s] =
                     [f \in Files |-> IF f \in FilesOf[s] THEN "aborted" ELSE "absent"]]
      <4>1. \A f \in Files : \/ f \in FilesOf[s] /\ file'[s][f] = "aborted"
                             \/ f \notin FilesOf[s]
        BY <3>1 DEF UploadTypeOK
      <4> QED
        BY <3>1, <4>1
    <3>2. CASE \E done \in SUBSET FilesOf[s] :
                 /\ EraseFiles(s, done)
                 /\ \/ file' = [file EXCEPT ![s] =
                             [f \in Files |-> IF f \in done THEN "aborted" ELSE file[s][f]]]
                    \/ file' = file
      <4>1. PICK done \in SUBSET FilesOf[s] :
                 /\ EraseFiles(s, done)
                 /\ \/ file' = [file EXCEPT ![s] =
                             [f \in Files |-> IF f \in done THEN "aborted" ELSE file[s][f]]]
                    \/ file' = file
        BY <3>2
      <4>2. \A f \in Files : \/ file'[s][f] = file[s][f]
                             \/ f \in done /\ file'[s][f] = "aborted"
        BY <4>1 DEF UploadTypeOK
      <4> QED
        BY <4>1, <4>2
    <3> QED
      BY <2>1, <3>1, <3>2 DEF AbortRecord
  <2>3. \A f \in Files :
           /\ f \in done /\ file[s][f] = "completed" => object'[f] = NoObject
           /\ object'[f].owner = s => object[f].owner = s
    BY <2>2, <1>0 DEF EraseFiles, NoObject
  <2>4. ASSUME NEW f \in Files, <<s, f>> \in refusedHeader
        PROVE  f \in FilesOf[s] /\ file'[s][f] \in {"failed", "aborted"}
    BY <2>2, <2>4 DEF Owned
  <2>5. ASSUME NEW f \in Files, object'[f].owner = s
        PROVE  /\ f \in FilesOf[s]
               /\ file'[s][f] \in {"completing", "completed"} \/ <<s, f>> \in refusedHeader
    <3>1. object[f].owner = s /\ object'[f] # NoObject
      BY <2>3, <2>5 DEF NoObject
    <3> QED
      BY <2>1, <2>2, <2>3, <3>1 DEF Owned
  <2> QED
    BY <2>1, <2>4, <2>5 DEF Owned
<1>7. CASE \/ Look(s) \/ FinishInitialization(s) \/ FinalizeFromIntent(s) \/ FinalizeSession(s)
           \/ ExpireSession(s) \/ LaunchMission(s)
           \/ \E f \in FilesOf[s], content \in Contents : PutParts(s, f, content)
  <2>1. UNCHANGED <<file, refusedHeader, object>>
    BY <1>7 DEF Look, FinishInitialization, FinalizeFromIntent, FinalizeSession, ExpireSession,
       LaunchMission, PutParts, database, store
  <2> QED
    BY <2>1 DEF Owned
<1> QED
  BY <1>2, <1>3, <1>4, <1>5, <1>6, <1>7 DEF SessionNext, Reconcile

\* The objects of a session that does not step only disappear.
LEMMA OwnedOther ==
  ASSUME UploadTypeOK, LifeInv, NEW s \in Sessions, SessionNext(s),
         NEW r \in Sessions \ {s}, Owned(r)
  PROVE  Owned(r)'
<1> USE UploadAssumption
<1>1. file'[r] = file[r]
  BY SessionTurns, OthersHold DEF LifeInv
<1>2. \A f \in Files : <<r, f>> \in refusedHeader' <=> <<r, f>> \in refusedHeader
  BY DEF SessionNext, Look, InsertSession, Reconcile, FinishInitialization,
     FinalizeFromIntent, InitializeFile, CompleteFromIntent, RecordCompletion, FinalizeSession,
     ExpireSession, AbortUpload, CleanupExpired, AbortRecord, LaunchMission, CompleteFile, PutParts
<1>3. \A f \in Files : object'[f].owner = r => object[f].owner = r
  BY ObjectTurn DEF NoObject
<1> QED
  BY <1>1, <1>2, <1>3 DEF Owned

\* What a session looked for stays true until it inserts its row, or overlaps;
\* and its objects stay its own.
LEMMA OwnStep ==
  ASSUME UploadTypeOK, LifeInv, NoneOwned, NEW s \in Sessions, SessionNext(s),
         NEW r \in Sessions, Own(r), overlapped \subseteq overlapped'
  PROVE  Own(r)'
<1> USE UploadAssumption
<1> SUFFICES ASSUME r \notin overlapped'
             PROVE  /\ request'[r] = "looked" => PrefixEmpty' /\ \A q \in Sessions : ~Active(q)'
                    /\ Active(r)' => \A f \in Files : object'[f].owner \in {r, NoSession}
  BY DEF Own
<1>0. /\ request[r] = "looked" => PrefixEmpty /\ \A q \in Sessions : ~Active(q)
      /\ Active(r) => \A f \in Files : object[f].owner \in {r, NoSession}
      /\ Turn(s)
  BY SessionTurns DEF Own, LifeInv
<1>1. ASSUME request'[r] = "looked"
      PROVE  PrefixEmpty' /\ \A q \in Sessions : ~Active(q)'
  <2>1. CASE Look(s) /\ r = s
    BY <1>1, <2>1 DEF Look, PrefixEmpty, store, database, Active, UploadTypeOK
  <2>2. CASE Look(s) /\ r # s
    <3>1. request[r] = "looked"
      BY <1>1, <2>2 DEF Look, UploadTypeOK
    <3> QED
      BY <1>0, <2>2, <3>1 DEF Look, PrefixEmpty, store, database, Active
  <2>3. CASE InsertSession(s)
    <3>1. r # s /\ request[r] = "looked"
      BY <1>1, <2>3 DEF InsertSession, UploadTypeOK
    <3>2. CASE QuotaAllows /\ NameFree
      BY <2>3, <3>1, <3>2 DEF InsertSession, OtherCommands
    <3>3. CASE ~(QuotaAllows /\ NameFree)
      BY <1>0, <2>3, <3>1, <3>3 DEF InsertSession, PrefixEmpty, store, Active
    <3> QED
      BY <3>2, <3>3
  <2>4. CASE Underway(s)
    <3>1. request[r] = "looked" /\ \A q \in Sessions : ~Active(q)
      BY <1>0, <1>1, <2>4, UnderwayHolds
    <3>2. \A q \in Sessions : ~Active(q)'
      BY <1>0, <2>4, <3>1, UnderwayHolds, OthersHold
    <3>3. manifest' = manifest
      <4>1. ~FinalizeFromIntent(s)
        BY <3>1 DEF FinalizeFromIntent, Active, ACTIVE_UPLOAD_STATUSES
      <4> QED
        BY <2>4, <4>1 DEF Underway, SessionNext, Reconcile, FinishInitialization,
           InitializeFile, CompleteFromIntent, FinalizeSession, ExpireSession,
           AbortUpload, CleanupExpired, AbortRecord, LaunchMission, CompleteFile, PutParts, store
    <3>4. \A f \in Files : object'[f] = NoObject
      BY <1>0, <3>1, ObjectTurn DEF PrefixEmpty
    <3> QED
      BY <1>0, <3>1, <3>2, <3>3, <3>4 DEF PrefixEmpty
  <2> QED
    BY <2>1, <2>2, <2>3, <2>4 DEF Underway
<1>2. ASSUME Active(r)', NEW f \in Files
      PROVE  object'[f].owner \in {r, NoSession}
  <2>1. CASE Active(r)
    <3>1. CASE r = s
      BY <1>0, <2>1, <3>1, ObjectTurn DEF NoObject
    <3>2. CASE r # s
      <4>1. ~Active(s)
        BY <2>1, <3>2 DEF LifeInv, OneName
      <4> QED
        BY <1>0, <2>1, <4>1, ObjectTurn DEF NoObject
    <3> QED
      BY <3>1, <3>2
  <2>2. CASE ~Active(r)
    <3>1. r = s
      BY <1>0, <1>2, <2>2, OthersHold
    <3>2. InsertSession(s)
      <4>1. ~Underway(s)
        BY <1>2, <2>2, <3>1, UnderwayHolds
      <4>2. ~Look(s)
        BY <1>2, <2>2, <3>1 DEF Look, database, Active
      <4> QED
        BY <4>1, <4>2 DEF Underway
    <3>3. PrefixEmpty /\ object' = object
      BY <1>0, <3>1, <3>2 DEF InsertSession, store
    <3> QED
      BY <3>3 DEF PrefixEmpty, NoObject
  <2> QED
    BY <2>1, <2>2
<1> QED
  BY <1>1, <1>2

\* The uploads of the session that steps are gone when it is done with the file.
LEMMA PartsSelf ==
  ASSUME UploadTypeOK, LifeInv, NEW s \in Sessions, Own(s), Owned(s), NoneOwned, Parts(s),
         SessionNext(s), overlapped \subseteq overlapped'
  PROVE  Parts(s)'
<1> USE UploadAssumption
<1> SUFFICES ASSUME s \notin overlapped', NEW f \in FilesOf[s], multipart'[s][f] # "none"
             PROVE  /\ file'[s][f] \in {"initializing", "uploading", "completing"}
                    /\ file'[s][f] = "completing" => object'[f] = NoObject
  BY DEF Parts
<1>0. /\ multipart[s][f] # "none" =>
            /\ file[s][f] \in {"initializing", "uploading", "completing"}
            /\ file[s][f] = "completing" => object[f] = NoObject
      /\ Life(s) /\ f \in Files
  BY DEF Parts, LifeInv
<1>1. CASE \/ Look(s) \/ FinishInitialization(s) \/ FinalizeFromIntent(s) \/ FinalizeSession(s)
           \/ ExpireSession(s) \/ LaunchMission(s)
  <2>1. UNCHANGED <<file, multipart, object>>
    BY <1>1 DEF Look, FinishInitialization, FinalizeFromIntent, FinalizeSession, ExpireSession,
       LaunchMission, database, store
  <2> QED
    BY <1>0, <2>1
<1>2. CASE InsertSession(s)
  <2>1. CASE QuotaAllows /\ NameFree
    BY <1>0, <1>2, <2>1 DEF InsertSession, UploadTypeOK
  <2>2. CASE ~(QuotaAllows /\ NameFree)
    BY <1>0, <1>2, <2>2 DEF InsertSession, store
  <2> QED
    BY <2>1, <2>2
<1>3. ASSUME NEW g \in FilesOf[s], InitializeFile(s, g)
      PROVE  /\ file'[s][f] \in {"initializing", "uploading", "completing"}
             /\ file'[s][f] = "completing" => object'[f] = NoObject
  <2>1. PICK state \in {"empty", "none"} : multipart' = OnlyUpload(s, g, state)
    BY <1>3 DEF InitializeFile
  <2>2. multipart'[s] = [multipart[s] EXCEPT ![g] = state]
    BY <2>1 DEF OnlyUpload
  <2>3. /\ object' = object /\ file'[s][g] \in {"initializing", "uploading"}
        /\ \A h \in Files \ {g} : file'[s][h] = file[s][h]
    BY <1>3, FileRow DEF InitializeFile, UploadTypeOK, FileStatuses
  <2>4. CASE f = g
    BY <2>3, <2>4
  <2>5. CASE f # g
    BY <1>0, <2>2, <2>3, <2>5 DEF UploadTypeOK
  <2> QED
    BY <2>4, <2>5
<1>4. ASSUME NEW g \in FilesOf[s], CompleteFile(s, g)
      PROVE  /\ file'[s][f] \in {"initializing", "uploading", "completing"}
             /\ file'[s][f] = "completing" => object'[f] = NoObject
  <2>1. /\ UNCHANGED <<object, multipart>> /\ file'[s][g] = "completing"
        /\ file[s][g] = "uploading" /\ Active(s)
        /\ \A h \in Files \ {g} : file'[s][h] = file[s][h]
    BY <1>4, FileRow DEF CompleteFile, InSession, UploadTypeOK, FileStatuses, store, Active,
       ACTIVE_UPLOAD_STATUSES
  <2>2. CASE f = g
    <3>1. object[f].owner \in {s, NoSession}
      BY <1>0, <2>1 DEF Own
    <3>2. object[f].owner # s
      BY <1>0, <2>1, <2>2 DEF Owned
    <3> QED
      BY <1>0, <2>1, <2>2, <3>1, <3>2 DEF NoneOwned
  <2>3. CASE f # g
    BY <1>0, <2>1, <2>3
  <2> QED
    BY <2>2, <2>3
<1>5. ASSUME NEW g \in FilesOf[s], CompleteFromIntent(s, g)
      PROVE  /\ file'[s][f] \in {"initializing", "uploading", "completing"}
             /\ file'[s][f] = "completing" => object'[f] = NoObject
  <2>1. /\ StoreConverges(s, g) /\ file[s][g] = "completing" /\ g \in Files
    BY <1>5 DEF CompleteFromIntent
  <2>2. CASE f = g
    <3>1. object[g] = NoObject => multipart'[s][g] = "none"
      BY <2>1 DEF StoreConverges, UploadTypeOK
    <3>2. object[g] # NoObject => multipart' = multipart
      BY <2>1 DEF StoreConverges
    <3> QED
      BY <1>0, <2>1, <2>2, <3>1, <3>2
  <2>3. CASE f # g
    <3>1. multipart'[s][f] = multipart[s][f] /\ object'[f] = object[f]
      BY <1>0, <2>1, <2>3 DEF StoreConverges, UploadTypeOK
    <3>2. file'[s][f] = file[s][f]
      BY <1>0, <1>5, <2>1, <2>3, FileRow DEF CompleteFromIntent, FailFile, RecordCompletion,
         UploadTypeOK, FileStatuses
    <3> QED
      BY <1>0, <3>1, <3>2
  <2> QED
    BY <2>2, <2>3
<1>6. CASE AbortUpload(s) \/ CleanupExpired(s)
  <2>1. AbortRecord(s) /\ file[s][f] # "completing"
    BY <1>6 DEF AbortUpload, CleanupExpired, AbortRecord, CompletionUncertain
  <2>2. PICK done \in SUBSET FilesOf[s] :
          /\ EraseFiles(s, done)
          /\ f \notin done => file'[s][f] = file[s][f]
    <3>1. CASE EraseFiles(s, FilesOf[s])
      BY <3>1
    <3>2. CASE \E done \in SUBSET FilesOf[s] :
                 /\ EraseFiles(s, done)
                 /\ \/ file' = [file EXCEPT ![s] =
                             [g \in Files |-> IF g \in done THEN "aborted" ELSE file[s][g]]]
                    \/ file' = file
      <4>1. PICK done \in SUBSET FilesOf[s] :
                 /\ EraseFiles(s, done)
                 /\ \/ file' = [file EXCEPT ![s] =
                             [g \in Files |-> IF g \in done THEN "aborted" ELSE file[s][g]]]
                    \/ file' = file
        BY <3>2
      <4>2. f \notin done => file'[s][f] = file[s][f]
        BY <1>0, <4>1 DEF UploadTypeOK
      <4> QED
        BY <4>1, <4>2
    <3> QED
      BY <2>1, <3>1, <3>2 DEF AbortRecord
  <2>3. multipart'[s][f] = IF f \in done /\ s \in UploadsOf(s, f) THEN "none" ELSE multipart[s][f]
    BY <1>0, <2>2 DEF EraseFiles
  <2>4. multipart[s][f] # "none" /\ ~(f \in done /\ s \in UploadsOf(s, f))
    BY <2>3
  <2>5. file[s][f] \in {"initializing", "uploading"}
    BY <1>0, <2>1, <2>4
  <2>6. s \in UploadsOf(s, f)
    BY <2>5 DEF UploadsOf
  <2> QED
    BY <2>2, <2>4, <2>5, <2>6
<1>7. ASSUME NEW g \in FilesOf[s], NEW content \in Contents, PutParts(s, g, content)
      PROVE  /\ file'[s][f] \in {"initializing", "uploading", "completing"}
             /\ file'[s][f] = "completing" => object'[f] = NoObject
  <2>1. UNCHANGED <<file, object>> /\ multipart[s][g] = "empty"
    BY <1>7 DEF PutParts, database
  <2>2. f # g => multipart'[s][f] = multipart[s][f]
    BY <1>0, <1>7 DEF PutParts, UploadTypeOK
  <2> QED
    BY <1>0, <2>1, <2>2
<1> QED
  BY <1>1, <1>2, <1>3, <1>4, <1>5, <1>6, <1>7 DEF SessionNext, Reconcile

\* Those of a session that does not step only disappear.
LEMMA PartsOther ==
  ASSUME UploadTypeOK, LifeInv, NEW s \in Sessions, SessionNext(s),
         NEW r \in Sessions \ {s}, Parts(r), overlapped \subseteq overlapped'
  PROVE  Parts(r)'
<1> USE UploadAssumption
<1> SUFFICES ASSUME r \notin overlapped', NEW f \in FilesOf[r], multipart'[r][f] # "none"
             PROVE  /\ file'[r][f] \in {"initializing", "uploading", "completing"}
                    /\ file'[r][f] = "completing" => object'[f] = NoObject
  BY DEF Parts
<1>1. /\ f \in Files /\ file'[r] = file[r] /\ multipart[r][f] # "none"
  BY SessionTurns, OthersHold, PartsShrink DEF LifeInv
<1>2. /\ file[r][f] \in {"initializing", "uploading", "completing"}
      /\ file[r][f] = "completing" => object[f] = NoObject
  BY <1>1 DEF Parts
<1>3. ASSUME file[r][f] = "completing"
      PROVE  object'[f] = NoObject
  <2>1. Active(r)
    BY <1>3 DEF LifeInv, Life, Active, ACTIVE_UPLOAD_STATUSES
  <2>2. ~Active(s)
    BY <2>1 DEF LifeInv, OneName
  <2> QED
    BY <1>1, <1>2, <1>3, <2>2, ObjectTurn
<1> QED
  BY <1>1, <1>2, <1>3

\* The store and the database stay in step.
LEMMA LeakStep ==
  ASSUME UploadTypeOK, LifeInv, LeakInv, [Next]_vars
  PROVE  LeakInv'
<1> USE UploadAssumption
<1>0. /\ overlapped \subseteq overlapped' /\ NoneOwned
      /\ \A s \in Sessions : Own(s) /\ Owned(s) /\ Parts(s)
  BY OverlapGrows DEF LeakInv
<1>1. ASSUME NEW s \in Sessions, SessionNext(s)
      PROVE  LeakInv'
  <2>1. NoneOwned'
    BY <1>0, <1>1, ObjectTurn DEF NoneOwned
  <2>2. ASSUME NEW r \in Sessions
        PROVE  Own(r)' /\ Owned(r)' /\ Parts(r)'
    <3>1. Own(r)'
      BY <1>0, <1>1, OwnStep
    <3>2. Owned(r)'
      BY <1>0, <1>1, OwnedSelf, OwnedOther
    <3>3. Parts(r)'
      BY <1>0, <1>1, PartsSelf, PartsOther
    <3> QED
      BY <3>1, <3>2, <3>3
  <2> QED
    BY <2>1, <2>2 DEF LeakInv
<1>2. ASSUME NEW d \in Deleters, DeletionNext(d)
      PROVE  LeakInv'
  <2>1. /\ \A f \in Files : object'[f] = object[f] \/ object'[f] = NoObject
        /\ manifest' = manifest \/ manifest' = NoSession
        /\ UNCHANGED <<request, session, file, multipart, overlapped, refusedHeader>>
    BY <1>2, ObjectDeletion
  <2>2. NoneOwned'
    BY <1>0, <2>1 DEF NoneOwned
  <2>3. ASSUME NEW r \in Sessions
        PROVE  Own(r)' /\ Owned(r)' /\ Parts(r)'
    <3>1. Own(r)'
      BY <1>0, <2>1 DEF Own, PrefixEmpty, Active, NoObject
    <3>2. Owned(r)'
      BY <1>0, <2>1 DEF Owned, NoObject
    <3>3. Parts(r)'
      BY <1>0, <2>1 DEF Parts
    <3> QED
      BY <3>1, <3>2, <3>3
  <2> QED
    BY <2>2, <2>3 DEF LeakInv
<1>3. CASE UNCHANGED vars
  BY <1>0, <1>3 DEF vars, database, store, LeakInv, NoneOwned, Own, Owned, Parts, PrefixEmpty, Active
<1> QED
  BY <1>1, <1>2, <1>3 DEF Next

(* An aborted upload leaves nothing behind, except what was refused for its   *)
(* header, unless another command on the name was under way (abort_record).   *)
THEOREM NoLeaks == Spec => []NothingLeaks
<1>1. Init => LeakInv
  BY UploadAssumption DEF Init, LeakInv, NoneOwned, Own, Owned, Parts, Active, NoObject,
     ACTIVE_UPLOAD_STATUSES
<1>2. UploadTypeOK /\ LifeInv /\ LeakInv /\ [Next]_vars => LeakInv'
  BY LeakStep
<1>3. UploadTypeOK /\ LifeInv /\ LeakInv => NothingLeaks
  <2> SUFFICES ASSUME UploadTypeOK, LifeInv, LeakInv, NEW s \in Sessions, NEW f \in FilesOf[s],
                      session[s].status = "aborted", s \notin overlapped
               PROVE  multipart[s][f] = "none" /\ (object[f].owner = s => <<s, f>> \in refusedHeader)
    BY DEF NothingLeaks
  <2>1. file[s][f] = "aborted" /\ f \in Files
    BY UploadAssumption DEF LifeInv, Life
  <2> QED
    BY <2>1 DEF LeakInv, Parts, Owned
<1> QED
  BY <1>1, <1>2, <1>3, UploadsCorrect, PTL DEF Spec
=============================================================================
