--------------------------- MODULE DocumentUploads ---------------------------
(***************************************************************************)
(* The way of a document into the knowledge base, up to the queue of the   *)
(* vector worker: the admin client's pipeline                              *)
(* (src/admin_client/backend/pipeline.py) and the server's handlers it     *)
(* calls (check_md5, check_date_version, submit_rag_document and           *)
(* submit_rag_documents_delete), over the documents table, MinIO and the   *)
(* Redis queue.                                                            *)
(*                                                                         *)
(* One step is one statement or one call to a service. Everything is of    *)
(* one agent: every query of the code restricts agent_name to it, and      *)
(* bucket, collection and queue entries carry it.                          *)
(***************************************************************************)
EXTENDS Naturals, Sequences, SequencesExt, FiniteSets

CONSTANTS
    Uploads,       \* runs of process_file, each on a workstation of its own
    Files,         \* the files they upload
    Offered,       \* Offered[u]: the files upload u may be for
    Names,         \* document names
    FileName,      \* FileName[f]: its name on disk
    Title,         \* Title[f]: system_name, sanitized; ends with the edition's date if it has one
    Name,          \* Name[f]: short_name, the title without the date
    Edition,       \* Edition[f]: the date in its title, 0 (datetime.min) without one
    Repeals,       \* Repeals[f]: the short names of the acts it repeals
    Faults,        \* the services that may fail: subset of {"minio", "postgres", "push", "redis", "chroma", "llm"}
    MaxFaults,     \* bound: how many of them do fail
    NoRow, NoFile, NoName, NoDate

ASSUME UploadsAssumption ==
    /\ Offered \in [Uploads -> SUBSET Files]
    /\ Title \in [Files -> Names] /\ Name \in [Files -> Names]
    /\ Edition \in [Files -> Nat]
    /\ Repeals \in [Files -> SUBSET Names]
    /\ NoFile \notin Files /\ NoName \notin Names /\ NoDate \notin Nat

\* The client sends the MD5 of the file; the server keys the document by the
\* SHA-256 of the text it was sent. One function never yields a value of the other.
Md5(f)    == <<"md5", f>>
Sha256(f) == <<"sha256", f>>

UpsertTask == [action : {"upsert"}, file : Files]
DeleteTask == [action : {"delete"}, names : SUBSET Names]

VARIABLES
    documents,   \* table documents, by id: hash, filename, short_name, edition, status
    objects,     \* MinIO: the files whose text is stored (the object is named by hash and title)
    queue,       \* Redis list document_tasks, its LEFT end first
    pc,          \* pc[u]: the next step of upload u, or how it ended
    file,        \* file[u]: the file it uploads
    row,         \* row[u]: the id of the row its handler has found or made, 0 for none
    todo,        \* todo[u]: the names it still has to mark as repealed
    asked,       \* history: asked[n], the files queued for name n, NoFile for a deletion
    hit          \* history: the services that have failed

uploadVars == <<documents, objects, queue, pc, file, row, todo, asked, hit>>

Ended == {"duplicate", "old_version", "done", "stopped"}

InitUploads ==
    /\ documents = <<>>
    /\ objects = {}
    /\ queue = <<>>
    /\ pc = [u \in Uploads |-> "idle"]
    /\ file = [u \in Uploads |-> NoFile]
    /\ row = [u \in Uploads |-> 0]
    /\ todo = [u \in Uploads |-> {}]
    /\ asked = [n \in Names |-> <<>>]
    /\ hit = {}

Goto(u, step) == pc' = [pc EXCEPT ![u] = step]

\* The ids of the rows that satisfy P.
Rows(P(_)) == {i \in DOMAIN documents : documents[i] # NoRow /\ P(documents[i])}

\* UPDATE ... SET status, for the rows ids.
SetStatus(ids, status) ==
    documents' = [i \in DOMAIN documents |->
                    IF i \in ids THEN [documents[i] EXCEPT !.status = status] ELSE documents[i]]

\* A service answers with an error.
Hit(service) ==
    /\ service \in Faults
    /\ hit' = hit \union {service}
    /\ Cardinality(hit') <= MaxFaults

-----------------------------------------------------------------------------
(* check_md5: a file is announced by its MD5. *)

Announced(f) == Rows(LAMBDA d : d.hash = Md5(f) /\ d.status = "checking")

\* Mutant: no advisory lock.
NoAdvisoryLock(f) == TRUE

\* pg_advisory_xact_lock on the hash: held from the first read to the commit.
AdvisoryLockFree(f) == \A v \in Uploads : pc[v] \in {"seek", "announce"} => file[v] # f

CheckLoaded(u) ==
    /\ pc[u] = "idle"
    /\ \E f \in Offered[u] :
        /\ AdvisoryLockFree(f)
        /\ file' = [file EXCEPT ![u] = f]
        /\ Goto(u, IF Rows(LAMBDA d : d.hash = Md5(f)
                                       /\ d.status \in {"completed", "processing"}) # {}
                      THEN "duplicate" ELSE "seek")
    /\ UNCHANGED <<documents, objects, queue, row, todo, asked, hit>>

\* The order by created_at is the order of transaction starts, which need not be the
\* order of the inserts: any of several rows may come first.
First(ids, i) == IF ids = {} THEN i = 0 ELSE i \in ids

\* The other check of the file, if there is one. Unless it is older than 30 minutes the
\* file is a duplicate.
SeekCheck(u) ==
    /\ pc[u] = "seek"
    /\ \E i \in 0..Len(documents) :
        /\ First(Announced(file[u]), i)
        /\ \/ row' = [row EXCEPT ![u] = i] /\ Goto(u, "announce")
           \/ i # 0 /\ Goto(u, "duplicate") /\ UNCHANGED row
    /\ UNCHANGED <<documents, objects, queue, file, todo, asked, hit>>

NewDocument(f) ==
    [hash |-> Md5(f), filename |-> FileName[f], short_name |-> NoName,
     edition |-> NoDate, status |-> "checking"]

Announce(u) ==
    /\ pc[u] = "announce"
    /\ \/ row[u] = 0 /\ documents' = Append(documents, NewDocument(file[u]))
       \/ /\ row[u] # 0 /\ documents[row[u]] # NoRow
          /\ documents' = [documents EXCEPT ![row[u]].filename = FileName[file[u]]]
    /\ row' = [row EXCEPT ![u] = 0]
    /\ Goto(u, "dating")
    /\ UNCHANGED <<objects, queue, file, todo, asked, hit>>

-----------------------------------------------------------------------------
(* check_date_version: an edition that is not newer is refused. *)

OtherEditions(f) ==
    Rows(LAMBDA d : /\ d.short_name = Name[f] \/ d.hash = Md5(f)
                    /\ d.status \in {"completed", "processing", "checking"})

NotNewer(f) ==
    \E i \in OtherEditions(f) :
        documents[i].edition # NoDate /\ Edition[f] <= documents[i].edition

CheckDate(u) ==
    /\ pc[u] = "dating"
    /\ IF NotNewer(file[u])
          THEN /\ \E i \in 0..Len(documents) :
                    First(Announced(file[u]), i) /\ row' = [row EXCEPT ![u] = i]
               /\ Goto(u, "old")
          ELSE Goto(u, "submit") /\ UNCHANGED row
    /\ UNCHANGED <<documents, objects, queue, file, todo, asked, hit>>

\* Writes row[u], or a new row if none was found.
Write(u, d) ==
    \/ /\ row[u] = 0
       /\ documents' = Append(documents, d)
       /\ row' = [row EXCEPT ![u] = Len(documents) + 1]
    \/ /\ row[u] # 0 /\ documents[row[u]] # NoRow
       /\ documents' = [documents EXCEPT ![row[u]] = d]
       /\ UNCHANGED row

MarkOldVersion(u) ==
    /\ pc[u] = "old"
    /\ LET f    == file[u]
           kept == IF row[u] = 0 THEN NewDocument(f) ELSE documents[row[u]] IN
        Write(u, [kept EXCEPT !.short_name = Name[f], !.edition = Edition[f],
                              !.status = "old_version"])
    /\ Goto(u, "old_version")
    /\ UNCHANGED <<objects, queue, file, todo, asked, hit>>

-----------------------------------------------------------------------------
(* submit_rag_document: the row, the object, the task. *)

Namesakes(f) == Rows(LAMBDA d : d.filename = FileName[f] /\ d.status = "checking")

\* update_checking_to_processing reads the row without a lock.
FindRow(u) ==
    /\ pc[u] = "submit"
    /\ \E i \in 0..Len(documents) :
        /\ First(IF Announced(file[u]) # {} THEN Announced(file[u]) ELSE Namesakes(file[u]), i)
        /\ row' = [row EXCEPT ![u] = i]
    /\ Goto(u, "save")
    /\ UNCHANGED <<documents, objects, queue, file, todo, asked, hit>>

SubmittedDocument(f) ==
    [hash |-> Sha256(f), filename |-> FileName[f], short_name |-> Title[f],
     edition |-> Edition[f], status |-> "processing"]

SaveRow(u) ==
    /\ pc[u] = "save"
    /\ Write(u, SubmittedDocument(file[u]))
    /\ Goto(u, "put")
    /\ UNCHANGED <<objects, queue, file, todo, asked, hit>>

PutObject(u) ==
    /\ pc[u] = "put"
    /\ objects' = objects \union {file[u]}
    /\ Goto(u, "push")
    /\ UNCHANGED <<documents, queue, file, row, todo, asked, hit>>

\* Mutant: a failure of MinIO is only logged, as one of Redis is.
PutFailsSilently(u) ==
    /\ pc[u] = "put"
    /\ Hit("minio")
    /\ Goto(u, "push")
    /\ UNCHANGED <<documents, objects, queue, file, row, todo, asked>>

\* MinIO fails: the row is deleted again, unless that fails too.
PutFails(u) ==
    /\ pc[u] = "put"
    /\ Hit("minio")
    /\ \/ documents' = [documents EXCEPT ![row[u]] = NoRow]
       \/ UNCHANGED documents
    /\ Goto(u, "stopped")
    /\ UNCHANGED <<objects, queue, file, row, todo, asked>>

\* Mutant: RPUSH, the end the worker takes from.
PushRight(task) == queue' = Append(queue, task)

\* LPUSH.
Push(task) == queue' = <<task>> \o queue

\* LPUSH fails: a warning, and the client has its receipt all the same.
PushFails(u) ==
    /\ pc[u] \in {"push", "delete"}
    /\ Hit("push")
    /\ IF pc[u] = "push" /\ Repeals[file[u]] # {}
          THEN Goto(u, "repeal") /\ todo' = [todo EXCEPT ![u] = Repeals[file[u]]]
          ELSE Goto(u, "done") /\ UNCHANGED todo
    /\ UNCHANGED <<documents, objects, queue, file, row, asked>>

Ask(names, f) == asked' = [n \in Names |-> IF n \in names THEN Append(asked[n], f) ELSE asked[n]]

PushUpsert(u) ==
    /\ pc[u] = "push"
    /\ Push([action |-> "upsert", file |-> file[u]])
    /\ Ask({Name[file[u]]}, file[u])
    /\ todo' = [todo EXCEPT ![u] = Repeals[file[u]]]
    /\ Goto(u, IF Repeals[file[u]] = {} THEN "done" ELSE "repeal")
    /\ UNCHANGED <<documents, objects, file, row, hit>>

-----------------------------------------------------------------------------
(* submit_rag_documents_delete: the acts the document repeals. *)

\* The editions of n that are not repealed yet.
Unrepealed(n) == Rows(LAMBDA d : d.short_name = n /\ d.status # "repealed")

MarkRepealed(u) ==
    /\ pc[u] = "repeal"
    /\ \E n \in todo[u] :
        /\ SetStatus(Unrepealed(n), "repealed")
        /\ todo' = [todo EXCEPT ![u] = @ \ {n}]
    /\ Goto(u, IF Cardinality(todo[u]) = 1 THEN "delete" ELSE "repeal")
    /\ UNCHANGED <<objects, queue, file, row, asked, hit>>

\* The update raises: a warning, and the loop goes on.
MarkRepealedFails(u) ==
    /\ pc[u] = "repeal"
    /\ Hit("postgres")
    /\ \E n \in todo[u] : todo' = [todo EXCEPT ![u] = @ \ {n}]
    /\ Goto(u, IF Cardinality(todo[u]) = 1 THEN "delete" ELSE "repeal")
    /\ UNCHANGED <<documents, objects, queue, file, row, asked>>

\* The list of names is an object of its own and also part of the task, which is what
\* the worker falls back on: the object is left out.
PushDelete(u) ==
    /\ pc[u] = "delete"
    /\ Push([action |-> "delete", names |-> Repeals[file[u]]])
    /\ Ask(Repeals[file[u]], NoFile)
    /\ Goto(u, "done")
    /\ UNCHANGED <<documents, objects, file, row, todo, hit>>

-----------------------------------------------------------------------------
\* The upload stops between two of its steps: recognition or analysis fails, the client or
\* the connection is gone, the server dies, the row it would update is deleted, a
\* statement raises, or, with STRICT_SECURITY, the push to Redis.
Stop(u) ==
    /\ pc[u] \notin Ended \union {"idle"}
    /\ Goto(u, "stopped")
    /\ UNCHANGED <<documents, objects, queue, file, row, todo, asked, hit>>

UploadStep(u) ==
    \/ SeekCheck(u) \/ Announce(u)
    \/ CheckDate(u) \/ MarkOldVersion(u)
    \/ FindRow(u) \/ SaveRow(u) \/ PutObject(u) \/ PushUpsert(u)
    \/ MarkRepealed(u) \/ PushDelete(u)

NextUploads ==
    \E u \in Uploads :
        \/ CheckLoaded(u) \/ UploadStep(u)
        \/ PutFails(u) \/ PushFails(u) \/ MarkRepealedFails(u) \/ Stop(u)

-----------------------------------------------------------------------------
(* Properties. *)

\* The server has answered with a receipt that says the document is queued.
Accepted(u) == pc[u] \in {"repeal", "delete", "done"}

\* However checks of one file interleave with each other and with submissions, one row at most
\* is under check for it.
OneCheckPerFile == \A f \in Files : Cardinality(Announced(f)) <= 1

=============================================================================
