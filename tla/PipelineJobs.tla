----------------------------- MODULE PipelineJobs -----------------------------
(***************************************************************************)
(* The jobs of the admin client's local backend (admin_client/backend/     *)
(* main.py): a document is taken in, waits for one of the threads of the   *)
(* pool, and is processed there, while a stream of events tells the page   *)
(* how it goes.  The threads and the event loop share three dictionaries,  *)
(* job_queues, job_statuses and job_creation_times, without a lock; the    *)
(* threads share the set of the MD5s in progress (pipeline.py).            *)
(*                                                                         *)
(* A step of a thread is one access to what is shared.  On the event loop  *)
(* a handler runs without interruption from one await to the next.  What   *)
(* process_file does on the server is the subject of DocumentUploads.      *)
(***************************************************************************)
EXTENDS Naturals, Sequences, FiniteSets

CONSTANTS
    Jobs,        \* documents handed to the backend, by job_id
    Hash,        \* Hash[j]: the MD5 of its file
    MaxWorkers,  \* threads of the pool
    None

VARIABLES
    stage,     \* stage[j]: how far the job is
    waiting,   \* the jobs no thread has taken yet, the oldest first
    listed,    \* DOMAIN job_queues
    box,       \* box[j]: the events in the queue of j; a reader that holds it may outlive the entry
    statuses,  \* job_statuses; None: no entry
    created,   \* DOMAIN job_creation_times
    files,     \* jobs whose file is in TEMP_DIR
    active,    \* _ACTIVE_MD5S
    owns,      \* jobs with is_hash_locked
    found,     \* jobs whose thread has seen the queue and is about to use it
    broken,    \* jobs whose process_file ended with an exception
    reader,    \* reader[j]: the stream of events: "none", "reading", "closed" by the page, "gone"
    told,      \* told[j]: what the page shows in the end
    departed,  \* jobs whose user has left the page
    old,       \* jobs taken in more than an hour ago
    result     \* history: result[j], what process_file came to

entries == <<listed, statuses, created>>
stream == <<box, reader, told, departed>>
lock == <<active, owns>>
jobVars == <<stage, waiting, entries, stream, lock, files, found, broken, old, result>>

\* Mutant: process_file leaves it to run_pipeline to report an error.
MessageErrorUnsaid ==
    [starting |-> "processing", working |-> "processing", skipping |-> "skipped",
     completing |-> "completed", reporting |-> "processing", finishing |-> "done",
     failing |-> "error"]
\* The messages of the pipeline, by the step that sends them; the page keeps the last three.
Message == [starting |-> "processing", working |-> "processing", skipping |-> "skipped",
            completing |-> "completed", reporting |-> "error", finishing |-> "done",
            failing |-> "error"]
Sending == DOMAIN Message
InProcessFile == {"hashing", "working", "deciding", "skipping", "completing", "reporting", "releasing"}
Running == {j \in Jobs : stage[j] \in InProcessFile \union Sending \union {"closing"}}

InitJobs ==
    /\ stage = [j \in Jobs |-> "none"] /\ waiting = << >>
    /\ listed = {} /\ created = {} /\ statuses = [j \in Jobs |-> None]
    /\ box = [j \in Jobs |-> << >>] /\ files = {}
    /\ active = {} /\ owns = {} /\ found = {} /\ broken = {}
    /\ reader = [j \in Jobs |-> "none"] /\ told = [j \in Jobs |-> None] /\ departed = {}
    /\ old = {} /\ result = [j \in Jobs |-> None]

Proceed(j, step) == stage' = [stage EXCEPT ![j] = step]

\* The entries of S are popped from the three dictionaries.
Forget(S) ==
    /\ listed' = listed \ S /\ created' = created \ S
    /\ statuses' = [j \in Jobs |-> IF j \in S THEN None ELSE statuses[j]]

-----------------------------------------------------------------------------
(* process_document.  A request that fails the checks of its arguments leaves nothing. *)

Enter(j) ==
    /\ stage[j] = "none"
    /\ listed' = listed \union {j} /\ created' = created \union {j}
    /\ statuses' = [statuses EXCEPT ![j] = "running"]

\* The file is read in pieces, and nobody knows the job before the answer.
Submit(j) ==
    /\ Enter(j)
    /\ files' = files \union {j}
    /\ waiting' = Append(waiting, j)
    /\ Proceed(j, "queued")
    /\ UNCHANGED <<stream, lock, found, broken, old, result>>

\* Too large, or it cannot be read or written: the file is removed, the entries stay.
Refuse(j) ==
    /\ Enter(j)
    /\ Proceed(j, "refused")
    /\ UNCHANGED <<waiting, stream, lock, files, found, broken, old, result>>

-----------------------------------------------------------------------------
(* run_pipeline and process_file, in a thread of the pool. *)

Start(j) ==
    /\ waiting # << >> /\ Head(waiting) = j /\ Cardinality(Running) < MaxWorkers
    /\ waiting' = Tail(waiting)
    /\ Proceed(j, "starting")
    /\ UNCHANGED <<entries, stream, lock, files, found, broken, old, result>>

\* The step after a message, and the one after a KeyError: the entry was popped between
\* "job_id in job_queues" and "job_queues[job_id]".
AfterSend == [starting |-> "hashing", working |-> "deciding", skipping |-> "releasing",
          completing |-> "releasing", reporting |-> "releasing", finishing |-> "closing",
          failing |-> "closing"]
OnKeyError == [starting |-> "failing", working |-> "reporting", skipping |-> "reporting",
               completing |-> "reporting", reporting |-> "releasing", finishing |-> "failing",
               failing |-> "closing"]

\* progress_callback, and the last event of run_pipeline: without an entry nothing is sent.
LookUp(j) ==
    /\ stage[j] \in Sending /\ j \notin found
    /\ IF j \in listed THEN found' = found \union {j} /\ UNCHANGED stage
                       ELSE Proceed(j, AfterSend[stage[j]]) /\ UNCHANGED found
    /\ UNCHANGED <<waiting, entries, stream, lock, files, broken, old, result>>

\* "processing" changes a text on the page and is left out of the box.
Put(j) ==
    LET m == Message[stage[j]] IN
    /\ j \in found /\ found' = found \ {j}
    /\ IF j \in listed
         THEN /\ box' = IF m = "processing" THEN box ELSE [box EXCEPT ![j] = Append(@, m)]
              /\ Proceed(j, AfterSend[stage[j]]) /\ UNCHANGED broken
         ELSE /\ Proceed(j, OnKeyError[stage[j]])
              /\ broken' = IF stage[j] = "reporting" THEN broken \union {j} ELSE broken
              /\ UNCHANGED box
    /\ UNCHANGED <<waiting, entries, reader, told, departed, lock, files, old, result>>

\* Mutant: files in progress are told by their names, which hold the job_id.
TakenByName(j) == j \in owns
Taken(j) == Hash[j] \in active

\* The thread that skips its file reports it with _ACTIVE_MD5_LOCK in its hands.
LockFree == \A j \in Jobs : stage[j] = "skipping" => j \in owns

\* A file somebody processes already is skipped.
TakeHash(j) ==
    /\ stage[j] = "hashing" /\ LockFree
    /\ IF Taken(j)
         THEN /\ Proceed(j, "skipping") /\ result' = [result EXCEPT ![j] = "skipped"]
              /\ UNCHANGED lock
         ELSE /\ active' = active \union {Hash[j]} /\ owns' = owns \union {j}
              /\ Proceed(j, "working") /\ UNCHANGED result
    /\ UNCHANGED <<waiting, entries, stream, files, found, broken, old>>

\* The file cannot be read, to compute its MD5.
FailHash(j) ==
    /\ stage[j] = "hashing"
    /\ Proceed(j, "reporting") /\ result' = [result EXCEPT ![j] = "error"]
    /\ UNCHANGED <<waiting, entries, stream, lock, files, found, broken, old>>

Outcome == [skipping |-> "skipped", completing |-> "sent", reporting |-> "error"]

\* The server's answers: a duplicate or an old edition, a receipt, or an error somewhere.
Decide(j) ==
    /\ stage[j] = "deciding"
    /\ \E step \in DOMAIN Outcome :
        Proceed(j, step) /\ result' = [result EXCEPT ![j] = Outcome[step]]
    /\ UNCHANGED <<waiting, entries, stream, lock, files, found, broken, old>>

EndFile(j) ==
    /\ stage[j] = "releasing" /\ (j \in owns => LockFree)
    /\ active' = IF j \in owns THEN active \ {Hash[j]} ELSE active
    /\ owns' = owns \ {j}
    /\ Proceed(j, IF j \in broken THEN "failing" ELSE "finishing")
    /\ UNCHANGED <<waiting, entries, stream, files, found, broken, old, result>>

\* The status is entered even if the entry has been popped: nobody pops it again.
Close(j) ==
    /\ stage[j] = "closing"
    /\ statuses' = [statuses EXCEPT ![j] = "finished"]
    /\ files' = files \ {j}
    /\ Proceed(j, "over")
    /\ UNCHANGED <<waiting, listed, created, stream, lock, found, broken, old, result>>

-----------------------------------------------------------------------------
(* get_progress, and the page that reads it (frontend/src/Dashboard.tsx). *)

\* The page has the job_id.
Known(j) == stage[j] \notin {"none", "refused"}

\* 404 is an error for the page.
Connect(j) ==
    /\ Known(j) /\ reader[j] = "none"
    /\ IF j \in listed
         THEN reader' = [reader EXCEPT ![j] = "reading"] /\ UNCHANGED told
         ELSE reader' = [reader EXCEPT ![j] = "gone"] /\ told' = [told EXCEPT ![j] = "error"]
    /\ UNCHANGED <<stage, waiting, entries, box, departed, lock, files, found, broken, old, result>>

\* What the page shows on an event; it closes the stream then.
Shown(event) == IF event \in {"done", "completed"} THEN "sent" ELSE event

LastEvent(event) == event \in {"done", "error", "skipped"}

\* The page may close the stream before the generator goes on after its yield.
Deliver(j) ==
    /\ reader[j] \in {"reading", "closed"} /\ box[j] # << >>
    /\ LET event == Head(box[j]) IN
        /\ box' = [box EXCEPT ![j] = Tail(@)]
        /\ told' = IF reader[j] = "reading" THEN [told EXCEPT ![j] = Shown(event)] ELSE told
        /\ reader' = [reader EXCEPT ![j] = IF LastEvent(event) THEN "gone" ELSE "closed"]
        /\ \E goesOn \in BOOLEAN :
            IF LastEvent(event) /\ (goesOn \/ statuses[j] = "finished") THEN Forget({j})
            ELSE UNCHANGED entries
    /\ UNCHANGED <<stage, waiting, departed, lock, files, found, broken, old, result>>

\* The user closes the page.
Leave(j) ==
    /\ reader[j] = "reading"
    /\ departed' = departed \union {j}
    /\ reader' = [reader EXCEPT ![j] = "closed"]
    /\ UNCHANGED <<stage, waiting, entries, box, told, lock, files, found, broken, old, result>>

\* The generator of a closed stream is cancelled.
CancelReader(j) ==
    /\ reader[j] = "closed"
    /\ reader' = [reader EXCEPT ![j] = "gone"]
    /\ IF statuses[j] = "finished" THEN Forget({j}) ELSE UNCHANGED entries
    /\ UNCHANGED <<stage, waiting, box, told, departed, lock, files, found, broken, old, result>>

-----------------------------------------------------------------------------
(* cleanup_stale_jobs *)

HourPasses ==
    /\ ~(created \subseteq old)
    /\ old' = old \union created
    /\ UNCHANGED <<stage, waiting, entries, stream, lock, files, found, broken, result>>

\* Mutant: a job no thread has finished is kept, as get_progress keeps it.
StaleFinished == {j \in created \intersect old : statuses[j] = "finished"}
\* An entry of job_creation_times that is old enough, even if the job waits or runs.
Stale == created \intersect old

CleanUp ==
    /\ Stale # {}
    /\ Forget(Stale)
    /\ UNCHANGED <<stage, waiting, stream, lock, files, found, broken, old, result>>

-----------------------------------------------------------------------------
ThreadStep(j) ==
    \/ Start(j) \/ LookUp(j) \/ Put(j) \/ TakeHash(j) \/ FailHash(j)
    \/ Decide(j) \/ EndFile(j) \/ Close(j)

NextJobs ==
    \/ \E j \in Jobs :
        \/ Submit(j) \/ Refuse(j) \/ ThreadStep(j)
        \/ Connect(j) \/ Deliver(j) \/ Leave(j) \/ CancelReader(j)
    \/ HourPasses \/ CleanUp

JobsSpec == InitJobs /\ [][NextJobs]_jobVars

\* Threads and event loop go on, the page connects at once, and time passes.
FairJobsSpec ==
    /\ JobsSpec
    /\ \A j \in Jobs :
        /\ WF_jobVars(ThreadStep(j))
        /\ WF_jobVars(Connect(j)) /\ WF_jobVars(Deliver(j)) /\ WF_jobVars(CancelReader(j))
    /\ WF_jobVars(HourPasses) /\ WF_jobVars(CleanUp)
-----------------------------------------------------------------------------
(* Properties. *)

\* "Освобождаем локальную блокировку MD5 только если этот поток её установил" (process_file): of
\* all threads one at most processes a file of some content, whoever else skipped it and left.
OneRunPerHash == \A i, j \in owns : Hash[i] = Hash[j] => i = j

\* Whoever stays on the page is told in the end what became of the document, whatever the order
\* of the last events and of the thread's end; only a job that waits or runs for more than an
\* hour loses its stream.
ReadersAreTold ==
    \A j \in Jobs :
        stage[j] = "queued" ~> (told[j] # None /\ told[j] = result[j]) \/ j \in departed \/ j \in old

\* Whether anybody listens or not, nothing stays: not the file, not the queue, not the MD5.
\* (An entry of job_statuses may.)
NothingStays == <>[](files = {} /\ listed = {} /\ created = {} /\ active = {})
=============================================================================
