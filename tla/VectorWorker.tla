---------------------------- MODULE VectorWorker ----------------------------
(***************************************************************************)
(* The vector worker (src/admin_server/vectors/vector_worker.py): it moves *)
(* tasks from document_tasks to document_tasks_processing, indexes or      *)
(* deletes documents in Chroma, settles their status and removes the task. *)
(* It runs against the uploads of DocumentUploads. A worker that dies is   *)
(* restarted and puts the tasks it left behind back into the queue.        *)
(***************************************************************************)
EXTENDS DocumentUploads

CONSTANTS
    Batches,      \* the batches of CHUNK_BATCH_SIZE chunks a document makes
    MaxCrashes,   \* bound: deaths of the worker
    NoTask

ASSUME WorkerAssumption ==
    /\ Batches \in Nat \ {0} /\ MaxCrashes \in Nat
    /\ NoTask \notin UpsertTask \union DeleteTask

VARIABLES
    processing,   \* Redis list document_tasks_processing, its LEFT end first
    index,        \* Chroma: index[n][b], the file whose chunks have the ids of batch b of name n
    at,           \* the next step of the worker
    task,         \* the task it processes
    batch,        \* the next batch it adds
    left,         \* the names it still has to delete
    outcome,      \* the status it is about to record
    crashes       \* how often it has died

workerVars == <<processing, index, at, task, batch, left, outcome, crashes>>
vars == <<uploadVars, workerVars>>

Idle == "idle"
Empty == [b \in 1..Batches |-> NoFile]
Whole(f) == [b \in 1..Batches |-> f]

Init ==
    /\ InitUploads
    /\ processing = <<>>
    /\ index = [n \in Names |-> Empty]
    /\ at = "recover"
    /\ task = NoTask
    /\ batch = 0
    /\ left = {}
    /\ outcome = "none"
    /\ crashes = 0

-----------------------------------------------------------------------------
(* What the worker changes outside itself. *)

uploadsOnly == <<pc, file, row, todo, asked>>
Services == <<documents, objects, queue, processing, index>>
Progress == <<task, batch, left, outcome>>

-----------------------------------------------------------------------------
(* recover_abandoned_tasks, fetch_task_reliable and the end of a task. *)

RecoverTask ==
    /\ at = "recover" /\ processing # <<>>
    /\ queue' = <<Last(processing)>> \o queue
    /\ processing' = Front(processing)
    /\ UNCHANGED <<uploadsOnly, documents, objects, hit, index, at, Progress, crashes>>

\* Mutant: the worker starts without recovering anything.
NoRecovery ==
    /\ at = "recover"
    /\ at' = Idle
    /\ UNCHANGED <<uploadsOnly, Services, hit, Progress, crashes>>

\* Nothing is left to recover, or Redis fails.
StopRecovering ==
    /\ at = "recover"
    /\ \/ processing = <<>> /\ UNCHANGED hit
       \/ Hit("redis")
    /\ at' = Idle
    /\ UNCHANGED <<uploadsOnly, Services, Progress, crashes>>

FetchTask ==
    /\ at = Idle /\ queue # <<>>
    /\ LET t == Last(queue) IN
        /\ processing' = <<t>> \o processing
        /\ task' = t
        /\ at' = IF t.action = "upsert" THEN "download" ELSE "drop"
        /\ left' = IF t.action = "delete" THEN t.names ELSE {}
    /\ queue' = Front(queue)
    /\ UNCHANGED <<uploadsOnly, documents, objects, hit, index, batch, outcome, crashes>>

\* The worker is done with its task.
Rest == at' = Idle /\ task' = NoTask /\ batch' = 0 /\ left' = {} /\ outcome' = "none"

\* LREM 1 removes the first entry that equals the task, unless Redis fails.
Acknowledge ==
    /\ at = "ack"
    /\ \/ processing' = RemoveFirst(processing, task) /\ UNCHANGED hit
       \/ Hit("redis") /\ UNCHANGED processing
    /\ Rest
    /\ UNCHANGED <<uploadsOnly, documents, objects, queue, index, crashes>>

-----------------------------------------------------------------------------
(* process_task, upsert. *)

To(step) == at' = step /\ UNCHANGED <<uploadsOnly, task, left, crashes>>

Settle(status) == To("status") /\ outcome' = status

Download ==
    /\ at = "download" /\ task.file \in objects
    /\ To("clear")
    /\ UNCHANGED <<Services, hit, batch, outcome>>

\* The object is gone or MinIO fails; an upsert carries no copy of the text.
DownloadFails ==
    /\ at = "download"
    /\ \/ task.file \notin objects /\ UNCHANGED hit
       \/ Hit("minio")
    /\ Settle("error")
    /\ UNCHANGED <<Services, batch>>

ClearOldVectors ==
    /\ at = "clear"
    /\ index' = [index EXCEPT ![Name[task.file]] = Empty]
    /\ To("embed") /\ batch' = 1
    /\ UNCHANGED <<documents, objects, queue, processing, hit, outcome>>

\* Chroma fails: no collection is an unhandled error, no deletion only a warning.
ClearFails ==
    /\ at = "clear"
    /\ Hit("chroma")
    /\ \/ Settle("error") /\ UNCHANGED batch
       \/ To("embed") /\ batch' = 1 /\ UNCHANGED outcome
    /\ UNCHANGED Services

\* Mutant: the document is complete after its first batch.
LastBatchEarly == batch >= 1

LastBatch == batch = Batches

\* collection.add leaves ids that exist as they are.
AddBatch ==
    /\ at = "embed"
    /\ index' = [index EXCEPT ![Name[task.file]][batch] = IF @ = NoFile THEN task.file ELSE @]
    /\ IF LastBatch
          THEN Settle("completed") /\ batch' = 0
          ELSE To("embed") /\ batch' = batch + 1 /\ UNCHANGED outcome
    /\ UNCHANGED <<documents, objects, queue, processing, hit>>

\* The embedding or the addition of a batch fails: the batches before it are deleted, unless
\* Chroma refuses that too.
BatchFails ==
    /\ at = "embed"
    /\ \/ /\ Hit("llm") \/ Hit("chroma")
          /\ index' = [index EXCEPT ![Name[task.file]] = Empty]
       \/ Hit("chroma") /\ UNCHANGED index
    /\ Settle("error") /\ batch' = 0
    /\ UNCHANGED <<documents, objects, queue, processing>>

\* update_document_status swallows its errors.
AfterStatus == IF outcome = "completed" THEN "remove" ELSE "ack"

RecordStatus ==
    /\ at = "status"
    /\ SetStatus(Rows(LAMBDA d : /\ d.hash = Sha256(task.file)
                                 /\ d.status \in {"processing", "checking"}), outcome)
    /\ To(AfterStatus) /\ outcome' = "none"
    /\ UNCHANGED <<objects, queue, processing, index, hit, batch>>

RecordStatusFails ==
    /\ at = "status"
    /\ Hit("postgres")
    /\ To(AfterStatus) /\ outcome' = "none"
    /\ UNCHANGED <<Services, batch>>

RemoveObject ==
    /\ at = "remove"
    /\ \/ objects' = objects \ {task.file} /\ UNCHANGED hit
       \/ Hit("minio") /\ UNCHANGED objects
    /\ To("ack")
    /\ UNCHANGED <<documents, queue, processing, index, batch, outcome>>

-----------------------------------------------------------------------------
(* process_task, delete: one name after the other. No document has the list's own hash. *)

DropName ==
    /\ at = "drop" /\ left # {}
    /\ \E n \in left :
        /\ index' = [index EXCEPT ![n] = Empty]
        /\ SetStatus(Unrepealed(n), "repealed")
        /\ left' = left \ {n}
    /\ UNCHANGED <<uploadsOnly, objects, queue, processing, hit, at, task, batch, outcome, crashes>>

\* Chroma refuses the deletion, or PostgreSQL the update: either is only a warning.
DropNameFails ==
    /\ at = "drop" /\ left # {}
    /\ \E n \in left :
        /\ \/ Hit("chroma") /\ UNCHANGED index
           \/ Hit("postgres") /\ index' = [index EXCEPT ![n] = Empty]
        /\ left' = left \ {n}
    /\ UNCHANGED <<uploadsOnly, documents, objects, queue, processing, at, task, batch, outcome,
                   crashes>>

DropDone ==
    /\ at = "drop" /\ left = {}
    /\ To("ack")
    /\ UNCHANGED <<Services, hit, batch, outcome>>

-----------------------------------------------------------------------------
\* The worker dies anywhere and is restarted.
Crash ==
    /\ crashes < MaxCrashes
    /\ crashes' = crashes + 1
    /\ at' = "recover" /\ task' = NoTask /\ batch' = 0 /\ left' = {} /\ outcome' = "none"
    /\ UNCHANGED <<uploadsOnly, Services, hit>>

Work ==
    \/ RecoverTask \/ StopRecovering \/ FetchTask \/ Acknowledge
    \/ Download \/ DownloadFails \/ ClearOldVectors \/ ClearFails
    \/ AddBatch \/ BatchFails \/ RecordStatus \/ RecordStatusFails \/ RemoveObject
    \/ DropName \/ DropNameFails \/ DropDone

\* Every upload has ended and the worker waits for a task.
Quiet == at = Idle /\ queue = <<>>
AllEnded == (\A u \in Uploads : pc[u] \in Ended) /\ Quiet /\ UNCHANGED vars

Next == (NextUploads /\ UNCHANGED workerVars) \/ Work \/ Crash \/ AllEnded

Spec == Init /\ [][Next]_vars

\* The worker's loop goes on whatever fails; nothing is assumed of the uploads.
FairSpec == Spec /\ WF_vars(Work)

-----------------------------------------------------------------------------
(* Properties. *)

Pending == ToSet(queue) \union ToSet(processing)

\* The document upload u has submitted waits for the worker's verdict; no other upload has
\* found the same row (two checks of one file may: then the later submission resets it).
Undecided(u) ==
    /\ Accepted(u)
    /\ \A v \in Uploads \ {u} : row[v] # row[u]
    /\ documents[row[u]] # NoRow
    /\ documents[row[u]].hash = Sha256(file[u]) /\ documents[row[u]].status = "processing"

\* The text of an accepted document is in MinIO until its fate is recorded, so that the
\* task can be done again after a death. Not so for a file two uploads share, whose
\* object the end of the first task takes from the second.
UndecidedKeepsText ==
    \A u \in Uploads :
        Undecided(u) /\ (\A v \in Uploads \ {u} : file[v] # file[u])
            => file[u] \in objects \/ "postgres" \in hit

\* A document becomes complete only when the index holds all of its batches, and none of
\* another edition of its name.
Completes(i, f) ==
    /\ documents[i] # NoRow /\ documents[i].hash = Sha256(f)
    /\ documents[i].status # "completed"
    /\ documents'[i] # NoRow /\ documents'[i].status = "completed"

CompletedIsIndexed ==
    [][\A i \in DOMAIN documents : \A f \in Files :
          Completes(i, f) => index[Name[f]] = Whole(f) \/ "chroma" \in hit]_vars

\* Once every task is done, the index holds what was queued last for each name, a document
\* or its deletion. A death of the worker spares this order only where nothing else was
\* queued for the name: recovered tasks go to the end of the queue, behind later ones. And
\* a file uploaded twice may lose the object of its second task to the first.
AllDone == Quiet /\ processing = <<>>
InOrder(n) == crashes = 0 \/ Len(asked[n]) = 1
UploadedOnce(n) ==
    \A u, v \in Uploads :
        file[u] = file[v] /\ file[u] # NoFile /\ Name[file[u]] = n => u = v

IndexFollowsRequests ==
    AllDone /\ hit = {} =>
        \A n \in Names :
            asked[n] # <<>> /\ InOrder(n) /\ UploadedOnce(n)
                => index[n] = Whole(Last(asked[n]))

\* The worker decides every accepted document, whatever dies or fails, unless the status
\* cannot be written or Redis fails while a task is pushed, recovered or removed.
AcceptedIsDecided ==
    \A u \in Uploads :
        Accepted(u) ~> ~Undecided(u) \/ hit \intersect {"postgres", "push", "redis"} # {}
=============================================================================
