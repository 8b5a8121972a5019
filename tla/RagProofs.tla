------------------------------- MODULE RagProofs -------------------------------
(***************************************************************************)
(* Proofs about the way of a document into the knowledge base, for any     *)
(* number of jobs, uploads, files, names and deaths of the worker: two     *)
(* threads never process one content (PipelineJobs), one row at most is    *)
(* under check for a file (DocumentUploads), and the vector worker keeps   *)
(* the text of what it has not decided, completes only what it has         *)
(* indexed, and leaves each name as it was last asked to (VectorWorker).   *)
(***************************************************************************)
EXTENDS VectorWorker, PipelineJobs, OrderAndSums, SequenceTheorems, FiniteSetTheorems, TLAPS

-----------------------------------------------------------------------------
(* The jobs of the local backend: _ACTIVE_MD5S. *)

\* _ACTIVE_MD5S holds the contents of the jobs that own one, and nothing else.
LockInv ==
    /\ owns \subseteq Jobs
    /\ active = {Hash[j] : j \in owns}
    /\ OneRunPerHash

\* The lock matters to two steps only.
LEMMA OthersKeepLock ==
    ASSUME LockInv, UNCHANGED lock
    PROVE  LockInv'
  BY DEF LockInv, OneRunPerHash, lock

\* A job takes its content only while no other job owns it.
LEMMA TakeHashKeepsLock ==
    ASSUME LockInv, NEW j \in Jobs, TakeHash(j)
    PROVE  LockInv'
<1>1. CASE Taken(j)
  <2>1. UNCHANGED lock  BY <1>1 DEF TakeHash
  <2> QED  BY <2>1, OthersKeepLock
<1>2. CASE ~Taken(j)
  <2>1. active' = active \union {Hash[j]} /\ owns' = owns \union {j}
    BY <1>2 DEF TakeHash
  <2>2. \A i \in owns : Hash[i] # Hash[j]
    BY <1>2 DEF Taken, LockInv
  <2>3. OneRunPerHash'
    BY <2>1, <2>2 DEF OneRunPerHash, LockInv
  <2> QED  BY <2>1, <2>3 DEF LockInv
<1> QED  BY <1>1, <1>2

\* A job gives its content back only if it owns it.
LEMMA EndFileKeepsLock ==
    ASSUME LockInv, NEW j \in Jobs, EndFile(j)
    PROVE  LockInv'
<1>1. active' = (IF j \in owns THEN active \ {Hash[j]} ELSE active) /\ owns' = owns \ {j}
  BY DEF EndFile
<1>2. OneRunPerHash'
  BY <1>1 DEF OneRunPerHash, LockInv
<1>3. active' = {Hash[i] : i \in owns'}
  <2>1. CASE j \in owns
    <3>1. \A i \in owns \ {j} : Hash[i] # Hash[j]
      BY <2>1 DEF LockInv, OneRunPerHash
    <3> QED  BY <1>1, <2>1, <3>1 DEF LockInv
  <2>2. CASE j \notin owns
    BY <1>1, <2>2 DEF LockInv
  <2> QED  BY <2>1, <2>2
<1> QED  BY <1>1, <1>2, <1>3 DEF LockInv

LEMMA StepKeepsLock ==
    ASSUME LockInv, [NextJobs]_jobVars
    PROVE  LockInv'
<1>1. ASSUME NEW j \in Jobs, TakeHash(j)  PROVE LockInv'
  BY <1>1, TakeHashKeepsLock
<1>2. ASSUME NEW j \in Jobs, EndFile(j)  PROVE LockInv'
  BY <1>2, EndFileKeepsLock
<1>3. ASSUME NEW j \in Jobs,
             \/ Submit(j) \/ Refuse(j) \/ Start(j) \/ LookUp(j) \/ Put(j)
             \/ FailHash(j) \/ Decide(j) \/ Close(j)
      PROVE  LockInv'
  <2>1. UNCHANGED lock
    BY <1>3 DEF Submit, Refuse, Start, LookUp, Put, FailHash, Decide, Close
  <2> QED  BY <2>1, OthersKeepLock
<1>4. ASSUME NEW j \in Jobs, Connect(j) \/ Deliver(j) \/ Leave(j) \/ CancelReader(j)
      PROVE  LockInv'
  <2>1. UNCHANGED lock
    BY <1>4 DEF Connect, Deliver, Leave, CancelReader
  <2> QED  BY <2>1, OthersKeepLock
<1>5. ASSUME HourPasses \/ CleanUp \/ UNCHANGED jobVars  PROVE LockInv'
  <2>1. UNCHANGED lock
    BY <1>5 DEF HourPasses, CleanUp, jobVars
  <2> QED  BY <2>1, OthersKeepLock
<1> QED  BY <1>1, <1>2, <1>3, <1>4, <1>5 DEF NextJobs, ThreadStep

\* Whatever the threads, the pages and the clean-up do, the set of contents in progress is
\* that of the jobs that own them.
THEOREM JobsInvariant == JobsSpec => []LockInv
<1>1. InitJobs => LockInv
  BY DEF InitJobs, LockInv, OneRunPerHash
<1>2. LockInv /\ [NextJobs]_jobVars => LockInv'
  BY StepKeepsLock
<1> QED  BY <1>1, <1>2, PTL DEF JobsSpec

\* process_file: no two threads process files of the same content at once.
THEOREM ContentsProcessedOnce == JobsSpec => []OneRunPerHash
<1>1. LockInv => OneRunPerHash  BY DEF LockInv
<1> QED  BY <1>1, JobsInvariant, PTL

-----------------------------------------------------------------------------
(* Types. *)

Statuses == {"checking", "old_version", "processing", "repealed", "completed", "error"}
Document ==
    [hash : {Md5(f) : f \in Files} \union {Sha256(f) : f \in Files},
     filename : {FileName[f] : f \in Files}, short_name : Names \union {NoName},
     edition : Nat \union {NoDate}, status : Statuses]

Task == UpsertTask \union DeleteTask
Content == Files \union {NoFile}

UploadSteps ==
    {"idle", "seek", "announce", "dating", "old", "submit", "save", "put", "push", "repeal",
     "delete"} \union Ended

RowsTyped == documents \in Seq(Document \union {NoRow})

UploadsTyped ==
    /\ RowsTyped
    /\ objects \in SUBSET Files
    /\ queue \in Seq(Task)
    /\ pc \in [Uploads -> UploadSteps]
    /\ file \in [Uploads -> Content]
    /\ \A u \in Uploads : file[u] = NoFile <=> pc[u] = "idle"
    /\ row \in [Uploads -> Nat] /\ \A u \in Uploads : row[u] <= Len(documents)
    /\ todo \in [Uploads -> SUBSET Names]
    /\ asked \in [Names -> Seq(Content)]

UpsertSteps == {"download", "clear", "embed", "status", "remove"}

WorkerTyped ==
    /\ processing \in Seq(Task)
    /\ index \in [Names -> [1 .. Batches -> Content]]
    /\ at \in {"recover", Idle, "drop", "ack"} \union UpsertSteps
    /\ at \in {"recover", Idle} <=> task = NoTask
    /\ at \in UpsertSteps => task \in UpsertTask
    /\ at = "drop" => task \in DeleteTask
    /\ at = "ack" => task \in Task
    /\ at = "embed" => batch \in 1 .. Batches
    /\ at = "status" => outcome \in {"completed", "error"}
    /\ left \in SUBSET Names
    /\ crashes \in Nat

-----------------------------------------------------------------------------
(* One check per file. *)

InCheck == {u \in Uploads : pc[u] \in {"seek", "announce"}}

ChecksApart ==
    /\ \A f \in Files : \A i, j \in Announced(f) : i = j
    /\ \A u, v \in InCheck : file[u] = file[v] => u = v
    /\ \A u \in InCheck, f \in Files :
          pc[u] = "announce" /\ row[u] = 0 /\ file[u] = f => Announced(f) = {}

-----------------------------------------------------------------------------
(* The text of a document. *)

Pushed(u) == pc[u] \in {"repeal", "delete", "done", "stopped"}
Alone(u) == \A v \in Uploads \ {u} : file[v] # file[u]
Waiting(f) == Rows(LAMBDA d : d.hash = Sha256(f) /\ d.status = "processing")

\* An upload past its insert has the row it wrote.
RowsFound ==
    \A u \in Uploads : pc[u] \in {"put", "push", "repeal", "delete", "done"} => row[u] # 0

TasksArePushed ==
    \A t \in ToSet(queue) \union ToSet(processing) \union {task} :
        t \in UpsertTask => \E u \in Uploads : file[u] = t.file /\ Pushed(u)

TextsKept ==
    \A u \in Uploads, f \in Files : file[u] = f /\ Alone(u) /\ "postgres" \notin hit =>
        /\ pc[u] = "push" => f \in objects
        /\ Accepted(u) => f \in objects \/ Waiting(f) = {}
        /\ at = "remove" /\ task.file = f => Waiting(f) = {}

-----------------------------------------------------------------------------
(* The chunks of a document. *)

Filled(f, k) == index[Name[f]] = [b \in 1 .. Batches |-> IF b < k THEN f ELSE NoFile]

ChunksInIndex ==
    "chroma" \notin hit =>
        /\ at = "embed" => Filled(task.file, batch)
        /\ at = "status" /\ outcome = "completed" => index[Name[task.file]] = Whole(task.file)

-----------------------------------------------------------------------------
(* The order of the tasks. *)

Touches(t, n) == IF t.action = "upsert" THEN Name[t.file] = n ELSE n \in t.names
Wants(t) == IF t.action = "upsert" THEN t.file ELSE NoFile

Calm(n) == hit = {} /\ (crashes = 0 \/ Len(asked[n]) <= 1) /\ UploadedOnce(n)

HoldsItsTask ==
    hit = {} =>
        CASE at = Idle -> processing = <<>>
          [] at = "recover" -> processing = <<>> \/ (Len(processing) = 1 /\ crashes > 0)
          [] OTHER -> processing = <<task>>

DropsItsNames == at = "drop" => left \subseteq task.names

\* No task of the queue to the left of position i is about n.
NewestAt(i, n) == Touches(queue[i], n) /\ \A j \in 1 .. i - 1 : ~Touches(queue[j], n)
QueueTouches(n) == \E i \in DOMAIN queue : Touches(queue[i], n)

NewestWins(n) ==
    /\ \A i \in DOMAIN queue : NewestAt(i, n) => Wants(queue[i]) = Last(asked[n])
    /\ ~QueueTouches(n) =>
          \A i \in DOMAIN processing :
              Touches(processing[i], n) => Wants(processing[i]) = Last(asked[n])

TasksWereAsked(n) ==
    /\ asked[n] = <<>> =>
          ~QueueTouches(n) /\ \A i \in DOMAIN processing : ~Touches(processing[i], n)
    /\ Len(asked[n]) <= 1 =>
          /\ \A i, j \in DOMAIN queue : Touches(queue[i], n) /\ Touches(queue[j], n) => i = j
          /\ QueueTouches(n) => \A i \in DOMAIN processing : ~Touches(processing[i], n)

UpsertOf(t, n) == t.action = "upsert" /\ Name[t.file] = n

UpsertsApart(n) ==
    /\ \A i, j \in DOMAIN queue : UpsertOf(queue[i], n) /\ queue[i] = queue[j] => i = j
    /\ \A i \in DOMAIN queue, j \in DOMAIN processing :
          UpsertOf(queue[i], n) => queue[i] # processing[j]

TaskHasText(n) ==
    /\ \A i \in DOMAIN queue : UpsertOf(queue[i], n) =>
          queue[i].file \in objects \/ (crashes > 0 /\ index[n] = Whole(queue[i].file))
    /\ \A i \in DOMAIN processing : UpsertOf(processing[i], n) =>
          \/ processing[i].file \in objects
          \/ index[n] = Whole(processing[i].file) /\ (at = "ack" \/ crashes > 0)

WorkerOn(n) ==
    /\ at \in UpsertSteps \union {"ack"} /\ UpsertOf(task, n) =>
          /\ at \in {"clear", "embed"} => task.file \in objects
          /\ at \in {"status", "remove", "ack"} => index[n] = Whole(task.file)
    /\ at \in {"drop", "ack"} /\ task.action = "delete" /\ n \in task.names =>
          index[n] = Empty \/ (at = "drop" /\ n \in left)

IndexIsCurrent(n) ==
    asked[n] # <<>> /\ ~QueueTouches(n) /\ (\A i \in DOMAIN processing : ~Touches(processing[i], n))
        => index[n] = Whole(Last(asked[n]))

Ranked(n) == NewestWins(n) /\ TasksWereAsked(n) /\ UpsertsApart(n)
Current(n) == TaskHasText(n) /\ WorkerOn(n) /\ IndexIsCurrent(n)

OrderKept == \A n \in Names : Calm(n) => Ranked(n) /\ Current(n)

-----------------------------------------------------------------------------
(* Sequences. *)

\* LPUSH: the new task is the first, the others follow in their order.
LEMMA PrependProperties ==
    ASSUME NEW S, NEW q \in Seq(S), NEW t \in S, NEW r, r = <<t>> \o q
    PROVE  /\ r \in Seq(S) /\ Len(q) \in Nat /\ Len(r) = Len(q) + 1
           /\ DOMAIN q = 1 .. Len(q) /\ DOMAIN r = 1 .. Len(q) + 1
           /\ r[1] = t
           /\ \A i \in 1 .. Len(q) : r[i + 1] = q[i]
           /\ \A i \in 2 .. Len(q) + 1 : i - 1 \in DOMAIN q /\ r[i] = q[i - 1]
<1>1. r \in Seq(S) /\ Len(r) = Len(q) + 1 /\ r[1] = t /\ Len(q) \in Nat
      /\ (\A i \in 1 .. Len(q) : r[i + 1] = q[i])
  OBVIOUS
<1>2. DOMAIN q = 1 .. Len(q) /\ DOMAIN r = 1 .. Len(q) + 1
  BY <1>1, LenProperties
<1>3. ASSUME NEW i \in 2 .. Len(q) + 1
      PROVE  i - 1 \in DOMAIN q /\ r[i] = q[i - 1]
  <2>1. i - 1 \in 1 .. Len(q) /\ (i - 1) + 1 = i
    BY <1>1
  <2> QED
    BY <1>1, <1>2, <2>1
<1> QED
  BY <1>1, <1>2, <1>3

\* RPOPLPUSH takes the last task, the others stay where they are.
LEMMA FrontKeeps ==
    ASSUME NEW S, NEW q \in Seq(S), q # <<>>
    PROVE  /\ Front(q) \in Seq(S) /\ Len(q) \in Nat \ {0} /\ Len(Front(q)) = Len(q) - 1
           /\ DOMAIN q = 1 .. Len(q) /\ DOMAIN Front(q) = 1 .. Len(q) - 1
           /\ Last(q) = q[Len(q)] /\ Last(q) \in S
           /\ \A i \in 1 .. Len(q) - 1 : Front(q)[i] = q[i]
<1>1. Len(q) \in Nat \ {0} /\ DOMAIN q = 1 .. Len(q)
  BY EmptySeq, LenProperties
<1>2. Front(q) \in Seq(S) /\ Len(Front(q)) = Len(q) - 1
      /\ (\A i \in 1 .. Len(q) - 1 : Front(q)[i] = q[i])
  BY <1>1 DEF Front
<1>3. DOMAIN Front(q) = 1 .. Len(q) - 1
  BY <1>2, LenProperties
<1>4. Last(q) = q[Len(q)] /\ Last(q) \in S
  BY <1>1 DEF Last
<1> QED
  BY <1>1, <1>2, <1>3, <1>4

\* LREM 1 adds nothing, and leaves nothing of a list that holds the task alone.
LEMMA RemoveFirstKeeps ==
    ASSUME NEW S, NEW q \in Seq(S), NEW t, NEW r, r = RemoveFirst(q, t)
    PROVE  r \in Seq(S) /\ ToSet(r) \in SUBSET ToSet(q)
<1> DEFINE places == {i \in 1 .. Len(q) : q[i] = t}
           k == SelectInSeq(q, LAMBDA v : v = t)
           before == SubSeq(q, 1, k - 1)
           after == SubSeq(q, k + 1, Len(q))
<1>1. Len(q) \in Nat /\ DOMAIN q = 1 .. Len(q)
  BY LenProperties
<1>2. CASE places = {}
  <2>1. r = q
    BY <1>2 DEF RemoveFirst
  <2> QED
    BY <2>1
<1>3. CASE places # {}
  <2>1. r = before \o after
    BY <1>3 DEF RemoveFirst, RemoveAt
  <2>2. k = Min(places)
    BY <1>3 DEF SelectInSeq
  <2>3. PICK m \in places : \A n \in places : m <= n
    <3>1. places \in SUBSET Nat
      BY <1>1
    <3> HIDE DEF places
    <3> QED
      BY <1>3, <3>1, LeastNatural
  <2>4. k \in places
    BY <2>2, <2>3 DEF Min
  <2>5. k \in 1 .. Len(q)
    BY <2>4
  <2> HIDE DEF k, places
  <2>6. before \in Seq(S) /\ Len(before) = k - 1 /\ (\A i \in 1 .. k - 1 : before[i] = q[i])
    BY <1>1, <2>5, SubSeqProperties
  <2>7. after \in Seq(S) /\ Len(after) = Len(q) - k
        /\ (\A i \in 1 .. Len(q) - k : after[i] = q[k + i])
    <3>1. k + 1 \in 1 .. Len(q) + 1 /\ Len(q) \in 0 .. Len(q)
      BY <1>1, <2>5
    <3> QED
      BY <1>1, <2>5, <3>1
  <2> HIDE DEF before, after
  <2>8. r \in Seq(S) /\ Len(r) = Len(before) + Len(after)
        /\ (\A i \in 1 .. Len(before) + Len(after) :
              r[i] = IF i <= Len(before) THEN before[i] ELSE after[i - Len(before)])
    <3>1. before \o after \in Seq(S) /\ Len(before \o after) = Len(before) + Len(after)
      BY <2>6, <2>7, ConcatProperties
    <3>2. \A i \in 1 .. Len(before) + Len(after) :
            (before \o after)[i] = IF i <= Len(before) THEN before[i] ELSE after[i - Len(before)]
      BY <2>6, <2>7, ConcatProperties
    <3> QED
      BY ONLY <2>1, <3>1, <3>2
  <2>9. ASSUME NEW i \in DOMAIN r PROVE r[i] \in ToSet(q)
    <3>1. i \in 1 .. Len(before) + Len(after)
      BY <2>8, <2>9, LenProperties
    <3>2. CASE i <= k - 1
      <4>1. i \in 1 .. k - 1 /\ i \in DOMAIN q /\ r[i] = q[i]
        BY <1>1, <2>5, <2>6, <2>7, <2>8, <3>1, <3>2
      <4> QED
        BY <4>1 DEF ToSet
    <3>3. CASE ~(i <= k - 1)
      <4>1. i - (k - 1) \in 1 .. Len(q) - k /\ k + (i - (k - 1)) \in DOMAIN q
        BY <1>1, <2>5, <2>6, <2>7, <3>1, <3>3
      <4>2. r[i] = q[k + (i - (k - 1))]
        BY <2>6, <2>7, <2>8, <3>1, <3>3, <4>1
      <4> QED
        BY <4>1, <4>2 DEF ToSet
    <3> QED
      BY <2>5, <3>1, <3>2, <3>3
  <2> QED
    BY <2>8, <2>9 DEF ToSet
<1> QED
  BY <1>2, <1>3

LEMMA RemoveOnly ==
    ASSUME NEW t
    PROVE  RemoveFirst(<<t>>, t) = <<>>
<1> DEFINE q == <<t>>
           k == SelectInSeq(q, LAMBDA v : v = t)
<1>1. q \in Seq({t}) /\ Len(q) = 1 /\ q[1] = t
  OBVIOUS
<1>2. {i \in 1 .. Len(q) : q[i] = t} = {1}
  BY <1>1
<1>3. k = Min({1})
  <2> HIDE DEF q
  <2> QED
    BY <1>2 DEF SelectInSeq
<1>4. k = 1
  BY <1>3 DEF Min
<1>5. RemoveFirst(q, t) = SubSeq(q, 1, k - 1) \o SubSeq(q, k + 1, Len(q))
  <2>1. \E i \in 1 .. Len(q) : q[i] = t
    BY <1>1
  <2> HIDE DEF q
  <2> QED
    BY <2>1 DEF RemoveFirst, RemoveAt
<1>6. SubSeq(q, 1, 0) = <<>> /\ SubSeq(q, 2, 1) = <<>>
  <2> HIDE DEF q
  <2>1. SubSeq(q, 1, 0) \in Seq({t}) /\ Len(SubSeq(q, 1, 0)) = 0
    BY <1>1, SubSeqProperties
  <2>2. SubSeq(q, 2, 1) \in Seq({t}) /\ Len(SubSeq(q, 2, 1)) = 0
    BY <1>1, SubSeqProperties
  <2> QED
    BY <2>1, <2>2, EmptySeq
<1>7. RemoveFirst(q, t) = <<>> \o <<>>
  <2> HIDE DEF q, k
  <2> QED
    BY <1>1, <1>4, <1>5, <1>6
<1> QED
  BY <1>7

-----------------------------------------------------------------------------
(* Table documents. *)

LEMMA RowAt ==
    ASSUME RowsTyped, NEW i \in DOMAIN documents
    PROVE  documents[i] \in Document \union {NoRow} /\ i \in 1 .. Len(documents)
           /\ Len(documents) \in Nat
  BY LenProperties DEF RowsTyped

LEMMA RowAdded ==
    ASSUME RowsTyped, NEW d \in Document, documents' = Append(documents, d)
    PROVE  /\ RowsTyped' /\ Len(documents) \in Nat /\ Len(documents') = Len(documents) + 1
           /\ DOMAIN documents = 1 .. Len(documents)
           /\ DOMAIN documents' = 1 .. Len(documents) + 1
           /\ \A i \in DOMAIN documents : documents'[i] = documents[i]
           /\ documents'[Len(documents) + 1] = d
<1> DEFINE S == Document \union {NoRow}
<1>1. documents \in Seq(S) /\ d \in S
  BY DEF RowsTyped
<1> HIDE DEF S
<1>2. documents' \in Seq(S) /\ Len(documents') = Len(documents) + 1
      /\ (\A i \in 1 .. Len(documents) : documents'[i] = documents[i])
      /\ documents'[Len(documents) + 1] = d
  BY <1>1, AppendProperties
<1>3. Len(documents) \in Nat /\ DOMAIN documents = 1 .. Len(documents)
      /\ DOMAIN documents' = 1 .. Len(documents')
  BY <1>1, <1>2, LenProperties
<1> QED
  BY <1>2, <1>3 DEF RowsTyped, S

LEMMA RowWritten ==
    ASSUME RowsTyped, NEW i \in DOMAIN documents, NEW d \in Document \union {NoRow},
           documents' = [documents EXCEPT ![i] = d]
    PROVE  /\ RowsTyped' /\ Len(documents') = Len(documents)
           /\ DOMAIN documents' = DOMAIN documents
           /\ \A k \in DOMAIN documents : documents'[k] = IF k = i THEN d ELSE documents[k]
<1> DEFINE S == Document \union {NoRow}
<1>1. documents \in Seq(S) /\ d \in S
  BY DEF RowsTyped
<1> HIDE DEF S
<1>2. documents' \in Seq(S) /\ Len(documents') = Len(documents)
      /\ DOMAIN documents' = DOMAIN documents
  BY <1>1, ExceptSeq
<1>3. \A k \in DOMAIN documents : documents'[k] = IF k = i THEN d ELSE documents[k]
  BY <1>1
<1> QED
  BY <1>2, <1>3 DEF RowsTyped, S

\* UPDATE ... SET status.
LEMMA StatusesSet ==
    ASSUME RowsTyped, NEW ids, NEW s \in Statuses, SetStatus(ids, s),
           \A i \in ids : documents[i] # NoRow
    PROVE  /\ RowsTyped' /\ Len(documents') = Len(documents)
           /\ DOMAIN documents' = DOMAIN documents
           /\ \A i \in DOMAIN documents : IF i \in ids THEN documents'[i].status = s
                                                      ELSE documents'[i] = documents[i]
<1>1. Len(documents) \in Nat /\ DOMAIN documents = 1 .. Len(documents)
  BY LenProperties DEF RowsTyped
<1>2. \A i \in DOMAIN documents :
        documents'[i] = IF i \in ids THEN [documents[i] EXCEPT !.status = s] ELSE documents[i]
  BY DEF SetStatus
<1>3. ASSUME NEW i \in DOMAIN documents, i \in ids
      PROVE  documents'[i] \in Document /\ documents'[i].status = s
  <2>1. documents[i] \in Document
    BY <1>3, RowAt
  <2>2. documents'[i] = [documents[i] EXCEPT !.status = s]
    BY <1>2, <1>3
  <2> QED
    BY <2>1, <2>2 DEF Document
<1>4. \A i \in DOMAIN documents : documents'[i] \in Document \union {NoRow}
  BY <1>2, <1>3, RowAt
<1>5. documents' = [i \in 1 .. Len(documents) |-> documents'[i]]
  BY <1>1 DEF SetStatus
<1>6. RowsTyped' /\ Len(documents') = Len(documents)
  <2> DEFINE S == Document \union {NoRow}
  <2>1. \A i \in 1 .. Len(documents) : documents'[i] \in S
    BY <1>1, <1>4
  <2> HIDE DEF S
  <2>2. documents' \in Seq(S) /\ Len(documents') = Len(documents)
    BY <1>1, <1>5, <2>1, IsASeq
  <2> QED
    BY <2>2 DEF RowsTyped, S
<1>7. DOMAIN documents' = DOMAIN documents
  BY <1>1, <1>5
<1> QED
  BY <1>2, <1>3, <1>6, <1>7

LEMMA NewDocumentTyped ==
    ASSUME NEW f \in Files
    PROVE  NewDocument(f) \in Document /\ NewDocument(f).hash = Md5(f)
           /\ NewDocument(f).status = "checking"
  BY DEF NewDocument, Document, Statuses

LEMMA SubmittedDocumentTyped ==
    ASSUME NEW f \in Files
    PROVE  SubmittedDocument(f) \in Document /\ SubmittedDocument(f).hash = Sha256(f)
           /\ SubmittedDocument(f).status = "processing"
  BY UploadsAssumption DEF SubmittedDocument, Document, Statuses

LEMMA HashesApart ==
    ASSUME NEW f, NEW g
    PROVE  /\ Md5(f) # Sha256(g)
           /\ Md5(f) = Md5(g) => f = g
           /\ Sha256(f) = Sha256(g) => f = g
  BY DEF Md5, Sha256

-----------------------------------------------------------------------------
(* What a step does to the rows under check and to those that wait for the worker. *)

ChecksShrink(f) == Announced(f)' \subseteq Announced(f)
WaitingShrinks(f) == Waiting(f)' \subseteq Waiting(f)

LEMMA CheckRow ==
    ASSUME NEW f
    PROVE  /\ Announced(f) = {i \in DOMAIN documents :
                /\ documents[i] # NoRow
                /\ documents[i].hash = Md5(f) /\ documents[i].status = "checking"}
           /\ Waiting(f) = {i \in DOMAIN documents :
                /\ documents[i] # NoRow
                /\ documents[i].hash = Sha256(f) /\ documents[i].status = "processing"}
  BY DEF Announced, Waiting, Rows

LEMMA CheckRowNext ==
    ASSUME NEW f
    PROVE  /\ Announced(f)' = {i \in DOMAIN documents' :
                /\ documents'[i] # NoRow
                /\ documents'[i].hash = Md5(f) /\ documents'[i].status = "checking"}
           /\ Waiting(f)' = {i \in DOMAIN documents' :
                /\ documents'[i] # NoRow
                /\ documents'[i].hash = Sha256(f) /\ documents'[i].status = "processing"}
  BY DEF Announced, Waiting, Rows

\* A row that is neither under check nor waits afterwards adds to neither.
LEMMA RowsShrink ==
    ASSUME \A i \in DOMAIN documents' :
              \/ i \in DOMAIN documents /\ documents'[i] = documents[i]
              \/ documents'[i] = NoRow
              \/ documents'[i].status \notin {"checking", "processing"}
    PROVE  \A f : ChecksShrink(f) /\ WaitingShrinks(f)
<1> SUFFICES ASSUME NEW f PROVE ChecksShrink(f) /\ WaitingShrinks(f)
  OBVIOUS
<1> QED
  BY CheckRow, CheckRowNext DEF ChecksShrink, WaitingShrinks

LEMMA SettingShrinks ==
    ASSUME RowsTyped, NEW ids, NEW s \in Statuses \ {"checking", "processing"}, SetStatus(ids, s),
           \A i \in ids : documents[i] # NoRow
    PROVE  /\ RowsTyped' /\ Len(documents') = Len(documents)
           /\ \A f : ChecksShrink(f) /\ WaitingShrinks(f)
<1>1. /\ RowsTyped' /\ Len(documents') = Len(documents) /\ DOMAIN documents' = DOMAIN documents
      /\ \A i \in DOMAIN documents : IF i \in ids THEN documents'[i].status = s
                                                 ELSE documents'[i] = documents[i]
  BY StatusesSet
<1>2. \A f : ChecksShrink(f) /\ WaitingShrinks(f)
  BY <1>1, RowsShrink
<1> QED
  BY <1>1, <1>2

\* Writes a row, or a new one.
LEMMA AfterWrite ==
    ASSUME UploadsTyped, NEW u \in Uploads, NEW d \in Document, Write(u, d)
    PROVE  /\ RowsTyped' /\ row' \in [Uploads -> Nat] /\ row'[u] \in 1 .. Len(documents')
           /\ \A v \in Uploads \ {u} : row'[v] = row[v]
           /\ Len(documents) \in Nat /\ Len(documents') \in Nat
           /\ Len(documents) <= Len(documents')
           /\ documents'[row'[u]] = d
           /\ \A i \in DOMAIN documents' :
                 i # row'[u] => i \in DOMAIN documents /\ documents'[i] = documents[i]
<1>1. RowsTyped /\ row \in [Uploads -> Nat] /\ row[u] <= Len(documents)
  BY DEF UploadsTyped
<1>2. Len(documents) \in Nat /\ DOMAIN documents = 1 .. Len(documents)
  BY <1>1, LenProperties DEF RowsTyped
<1>3. CASE row[u] = 0
  <2>1. documents' = Append(documents, d) /\ row' = [row EXCEPT ![u] = Len(documents) + 1]
    BY <1>3 DEF Write
  <2>2. /\ RowsTyped' /\ Len(documents') = Len(documents) + 1
        /\ DOMAIN documents' = 1 .. Len(documents) + 1
        /\ (\A i \in DOMAIN documents : documents'[i] = documents[i])
        /\ documents'[Len(documents) + 1] = d
    BY <1>1, <2>1, RowAdded
  <2>3. row' \in [Uploads -> Nat] /\ row'[u] = Len(documents) + 1
        /\ (\A v \in Uploads \ {u} : row'[v] = row[v])
    BY <1>1, <1>2, <2>1
  <2> QED
    BY <1>2, <2>2, <2>3
<1>4. CASE row[u] # 0
  <2>1. documents' = [documents EXCEPT ![row[u]] = d] /\ row' = row
    BY <1>4 DEF Write
  <2>2. row[u] \in DOMAIN documents
    BY <1>1, <1>2, <1>4
  <2>3. /\ RowsTyped' /\ Len(documents') = Len(documents)
        /\ DOMAIN documents' = DOMAIN documents
        /\ \A k \in DOMAIN documents : documents'[k] = IF k = row[u] THEN d ELSE documents[k]
    BY <1>1, <2>1, <2>2, RowWritten
  <2> QED
    BY <1>1, <1>2, <2>1, <2>2, <2>3
<1> QED
  BY <1>3, <1>4

\* The file is entered under its MD5, or the name of its row is renewed.
LEMMA AfterAnnounce ==
    ASSUME UploadsTyped, NEW u \in Uploads, Announce(u)
    PROVE  /\ RowsTyped' /\ Len(documents) \in Nat /\ Len(documents') \in Nat
           /\ Len(documents) <= Len(documents')
           /\ \A f : WaitingShrinks(f)
           /\ \A f : row[u] # 0 \/ f # file[u] => ChecksShrink(f)
           /\ \A f : Announced(f)' \subseteq Announced(f) \union {Len(documents) + 1}
<1>1. RowsTyped /\ row[u] \in Nat /\ row[u] <= Len(documents) /\ file[u] \in Files
  BY DEF UploadsTyped, Announce, Content
<1>2. Len(documents) \in Nat /\ DOMAIN documents = 1 .. Len(documents)
  BY <1>1, LenProperties DEF RowsTyped
<1>3. CASE row[u] = 0
  <2>1. documents' = Append(documents, NewDocument(file[u]))
    BY <1>3 DEF Announce
  <2>2. PICK d \in Document : d = NewDocument(file[u])
    BY <1>1, NewDocumentTyped
  <2>3. d.hash = Md5(file[u]) /\ d.status = "checking"
    BY <1>1, <2>2, NewDocumentTyped
  <2>4. /\ RowsTyped' /\ Len(documents') = Len(documents) + 1
        /\ DOMAIN documents' = 1 .. Len(documents) + 1
        /\ (\A i \in DOMAIN documents : documents'[i] = documents[i])
        /\ documents'[Len(documents) + 1] = d
    BY <1>1, <2>1, <2>2, RowAdded
  <2>5. \A f : WaitingShrinks(f)
    BY <1>2, <2>3, <2>4, CheckRow, CheckRowNext DEF WaitingShrinks
  <2>6. \A f : f # file[u] => ChecksShrink(f)
    BY <1>2, <2>3, <2>4, CheckRow, CheckRowNext, HashesApart DEF ChecksShrink
  <2>7. \A f : Announced(f)' \subseteq Announced(f) \union {Len(documents) + 1}
    BY <1>2, <2>4, CheckRow, CheckRowNext
  <2> QED
    BY <1>2, <1>3, <2>4, <2>5, <2>6, <2>7
<1>4. CASE row[u] # 0
  <2>1. documents[row[u]] # NoRow
        /\ documents' = [documents EXCEPT ![row[u]].filename = FileName[file[u]]]
        /\ row[u] \in DOMAIN documents
    BY <1>1, <1>2, <1>4 DEF Announce
  <2>2. documents[row[u]] \in Document
    BY <1>1, <2>1, RowAt
  <2>3. PICK d : d = [documents[row[u]] EXCEPT !.filename = FileName[file[u]]]
    OBVIOUS
  <2>4. d \in Document /\ d.hash = documents[row[u]].hash /\ d.status = documents[row[u]].status
    BY <1>1, <2>2, <2>3 DEF Document
  <2>5. documents' = [documents EXCEPT ![row[u]] = d]
    BY <2>1, <2>3
  <2>6. /\ RowsTyped' /\ Len(documents') = Len(documents)
        /\ DOMAIN documents' = DOMAIN documents
        /\ \A k \in DOMAIN documents : documents'[k] = IF k = row[u] THEN d ELSE documents[k]
    BY <1>1, <2>1, <2>4, <2>5, RowWritten
  <2>7. \A f : WaitingShrinks(f) /\ ChecksShrink(f)
    BY <2>1, <2>4, <2>6, CheckRow, CheckRowNext DEF WaitingShrinks, ChecksShrink
  <2> QED
    BY <1>2, <2>6, <2>7 DEF ChecksShrink
<1> QED
  BY <1>3, <1>4

LEMMA AfterOldVersion ==
    ASSUME UploadsTyped, NEW u \in Uploads, MarkOldVersion(u)
    PROVE  /\ RowsTyped' /\ row' \in [Uploads -> Nat] /\ row'[u] <= Len(documents')
           /\ \A v \in Uploads \ {u} : row'[v] = row[v]
           /\ Len(documents) \in Nat /\ Len(documents') \in Nat
           /\ Len(documents) <= Len(documents')
           /\ \A f : ChecksShrink(f) /\ WaitingShrinks(f)
<1> DEFINE f == file[u]
           kept == IF row[u] = 0 THEN NewDocument(f) ELSE documents[row[u]]
<1>1. RowsTyped /\ row[u] \in Nat /\ row[u] <= Len(documents) /\ file[u] \in Files
  BY DEF UploadsTyped, MarkOldVersion, Content
<1>2. PICK d : d = [kept EXCEPT !.short_name = Name[f], !.edition = Edition[f],
                                !.status = "old_version"]
  OBVIOUS
<1>3. Write(u, d)
  BY <1>2 DEF MarkOldVersion
<1>4. kept \in Document
  <2>1. CASE row[u] = 0
    BY <1>1, <2>1, NewDocumentTyped
  <2>2. CASE row[u] # 0
    <3>1. documents[row[u]] # NoRow /\ row[u] \in 1 .. Len(documents) /\ Len(documents) \in Nat
      BY <1>1, <1>3, <2>2, LenProperties DEF Write, RowsTyped
    <3>2. row[u] \in DOMAIN documents
      BY <1>1, <3>1, LenProperties DEF RowsTyped
    <3> QED
      BY <1>1, <2>2, <3>1, <3>2, RowAt
  <2> QED
    BY <2>1, <2>2
<1>5. d \in Document /\ d.status = "old_version"
  <2> HIDE DEF kept
  <2> QED
    BY <1>1, <1>2, <1>4, UploadsAssumption DEF Document, Statuses
<1>6. /\ RowsTyped' /\ row' \in [Uploads -> Nat] /\ row'[u] \in 1 .. Len(documents')
      /\ (\A v \in Uploads \ {u} : row'[v] = row[v])
      /\ Len(documents) \in Nat /\ Len(documents') \in Nat /\ Len(documents) <= Len(documents')
      /\ documents'[row'[u]] = d
      /\ \A i \in DOMAIN documents' :
            i # row'[u] => i \in DOMAIN documents /\ documents'[i] = documents[i]
  BY <1>3, <1>5, AfterWrite
<1>7. \A g : ChecksShrink(g) /\ WaitingShrinks(g)
  BY <1>5, <1>6, RowsShrink
<1> QED
  BY <1>6, <1>7

LEMMA AfterSave ==
    ASSUME UploadsTyped, NEW u \in Uploads, SaveRow(u)
    PROVE  /\ RowsTyped' /\ row' \in [Uploads -> Nat] /\ row'[u] <= Len(documents')
           /\ \A v \in Uploads \ {u} : row'[v] = row[v]
           /\ Len(documents) \in Nat /\ Len(documents') \in Nat
           /\ Len(documents) <= Len(documents')
           /\ \A f : ChecksShrink(f)
           /\ \A f : f # file[u] => WaitingShrinks(f)
<1>1. file[u] \in Files
  BY DEF UploadsTyped, SaveRow, Content
<1>2. PICK d \in Document : d = SubmittedDocument(file[u])
  BY <1>1, SubmittedDocumentTyped
<1>3. d.hash = Sha256(file[u]) /\ d.status = "processing"
  BY <1>1, <1>2, SubmittedDocumentTyped
<1>4. Write(u, d)
  BY <1>2 DEF SaveRow
<1>5. /\ RowsTyped' /\ row' \in [Uploads -> Nat] /\ row'[u] \in 1 .. Len(documents')
      /\ (\A v \in Uploads \ {u} : row'[v] = row[v])
      /\ Len(documents) \in Nat /\ Len(documents') \in Nat /\ Len(documents) <= Len(documents')
      /\ documents'[row'[u]] = d
      /\ \A i \in DOMAIN documents' :
            i # row'[u] => i \in DOMAIN documents /\ documents'[i] = documents[i]
  BY <1>4, AfterWrite
<1>6. \A f : ChecksShrink(f)
  BY <1>3, <1>5, CheckRow, CheckRowNext DEF ChecksShrink
<1>7. \A f : f # file[u] => WaitingShrinks(f)
  BY <1>3, <1>5, CheckRow, CheckRowNext, HashesApart DEF WaitingShrinks
<1> QED
  BY <1>5, <1>6, <1>7

LEMMA AfterPutFails ==
    ASSUME UploadsTyped, NEW u \in Uploads, PutFails(u)
    PROVE  /\ RowsTyped' /\ Len(documents') = Len(documents)
           /\ \A f : ChecksShrink(f) /\ WaitingShrinks(f)
<1>1. RowsTyped /\ row[u] \in Nat
  BY DEF UploadsTyped
<1>2. CASE UNCHANGED documents
  BY <1>1, <1>2, RowsShrink DEF RowsTyped
<1>3. CASE documents' = [documents EXCEPT ![row[u]] = NoRow] /\ row[u] \in DOMAIN documents
  <2>1. /\ RowsTyped' /\ Len(documents') = Len(documents)
        /\ DOMAIN documents' = DOMAIN documents
        /\ \A k \in DOMAIN documents : documents'[k] = IF k = row[u] THEN NoRow ELSE documents[k]
    BY <1>1, <1>3, RowWritten
  <2>2. \A f : ChecksShrink(f) /\ WaitingShrinks(f)
    BY <2>1, RowsShrink
  <2> QED
    BY <2>1, <2>2
<1>4. CASE documents' = [documents EXCEPT ![row[u]] = NoRow] /\ row[u] \notin DOMAIN documents
  <2>1. documents = [i \in 1 .. Len(documents) |-> documents[i]]
        /\ DOMAIN documents = 1 .. Len(documents)
    BY <1>1, LenProperties DEF RowsTyped
  <2>2. documents' = documents
    BY <1>4, <2>1
  <2> QED
    BY <1>2, <2>2
<1> QED
  BY <1>2, <1>3, <1>4 DEF PutFails

\* A repeal, and the worker's verdict.
LEMMA AfterRepeal ==
    ASSUME RowsTyped, NEW n, SetStatus(Unrepealed(n), "repealed")
    PROVE  /\ RowsTyped' /\ Len(documents') = Len(documents)
           /\ \A f : ChecksShrink(f) /\ WaitingShrinks(f)
<1>1. \A i \in Unrepealed(n) : documents[i] # NoRow
  BY DEF Unrepealed, Rows
<1> QED
  BY <1>1, SettingShrinks DEF Statuses

LEMMA AfterVerdict ==
    ASSUME UploadsTyped, WorkerTyped, RecordStatus
    PROVE  /\ RowsTyped' /\ Len(documents') = Len(documents)
           /\ \A f : ChecksShrink(f) /\ WaitingShrinks(f)
           /\ \A f : f = task.file => Waiting(f)' = {}
<1>1. RowsTyped /\ outcome \in {"completed", "error"}
  BY DEF UploadsTyped, WorkerTyped, RecordStatus
<1>2. PICK ids : ids = Rows(LAMBDA d : d.hash = Sha256(task.file)
                                       /\ d.status \in {"processing", "checking"})
  OBVIOUS
<1>3. (\A i \in ids : documents[i] # NoRow) /\ SetStatus(ids, outcome)
  BY <1>2 DEF Rows, RecordStatus
<1>4. Waiting(task.file) \subseteq ids
  BY <1>2 DEF Rows, Waiting
<1>5. /\ RowsTyped' /\ Len(documents') = Len(documents)
      /\ \A f : ChecksShrink(f) /\ WaitingShrinks(f)
  BY <1>1, <1>3, SettingShrinks DEF Statuses
<1>6. \A i \in DOMAIN documents : i \in ids => documents'[i].status = outcome
  BY <1>1, <1>3, StatusesSet DEF Statuses
<1>7. ASSUME NEW f, f = task.file, NEW i \in Waiting(f)'
      PROVE  FALSE
  <2>1. i \in Waiting(f)
    BY <1>5, <1>7 DEF WaitingShrinks
  <2>2. i \in ids /\ i \in DOMAIN documents
    BY <1>4, <1>7, <2>1, CheckRow
  <2>3. documents'[i].status = "processing"
    BY <1>7, CheckRowNext
  <2> QED
    BY <1>1, <1>6, <2>2, <2>3
<1> QED
  BY <1>5, <1>7

-----------------------------------------------------------------------------
(* The uploads keep their types. *)

UploadsKept == UNCHANGED <<objects, queue, todo, asked>>

\* A step of upload u, and what it leaves alone.
LEMMA StepOfUpload ==
    ASSUME UploadsTyped, NEW u \in Uploads, NEW step \in UploadSteps \ {"idle"},
           pc[u] # "idle", Goto(u, step), UNCHANGED file
    PROVE  /\ pc' \in [Uploads -> UploadSteps] /\ file' \in [Uploads -> Content]
           /\ \A v \in Uploads : file'[v] = NoFile <=> pc'[v] = "idle"
<1>1. pc \in [Uploads -> UploadSteps] /\ pc' = [pc EXCEPT ![u] = step] /\ file' = file
  BY DEF UploadsTyped, Goto
<1>2. pc' \in [Uploads -> UploadSteps]
  BY <1>1
<1>3. \A v \in Uploads : pc'[v] = IF v = u THEN step ELSE pc[v]
  BY <1>1
<1>4. \A v \in Uploads : pc'[v] = "idle" <=> pc[v] = "idle"
  BY <1>3
<1> QED
  BY <1>1, <1>2, <1>4 DEF UploadsTyped

LEMMA LoadKeepsTypes ==
    ASSUME UploadsTyped, NEW u \in Uploads, CheckLoaded(u)
    PROVE  UploadsTyped'
<1>1. PICK f \in Files :
        /\ file' = [file EXCEPT ![u] = f]
        /\ \E step \in {"duplicate", "seek"} : pc' = [pc EXCEPT ![u] = step]
  <2>1. Offered[u] \subseteq Files
    BY UploadsAssumption
  <2> QED
    BY <2>1 DEF CheckLoaded, Goto
<1>2. f # NoFile
  BY UploadsAssumption
<1>3. pc' \in [Uploads -> UploadSteps] /\ file' \in [Uploads -> Content]
  BY <1>1 DEF UploadsTyped, UploadSteps, Ended, Content
<1>4. \A v \in Uploads : file'[v] = NoFile <=> pc'[v] = "idle"
  BY <1>1, <1>2 DEF UploadsTyped
<1>5. UNCHANGED <<documents, objects, queue, row, todo, asked, hit>>
  BY DEF CheckLoaded
<1> QED
  BY <1>3, <1>4, <1>5 DEF UploadsTyped, RowsTyped

\* The steps that look for a row.
LEMMA SearchKeepsTypes ==
    ASSUME UploadsTyped, NEW u \in Uploads, SeekCheck(u) \/ CheckDate(u) \/ FindRow(u)
    PROVE  UploadsTyped'
<1>1. Len(documents) \in Nat
  BY LenProperties DEF UploadsTyped, RowsTyped
<1>2. row' \in [Uploads -> Nat] /\ \A v \in Uploads : row'[v] <= Len(documents)
  <2>1. row' = row \/ \E i \in 0 .. Len(documents) : row' = [row EXCEPT ![u] = i]
    BY DEF SeekCheck, CheckDate, FindRow
  <2>2. row \in [Uploads -> Nat] /\ \A v \in Uploads : row[v] <= Len(documents)
    BY DEF UploadsTyped
  <2>3. ASSUME NEW i \in 0 .. Len(documents), row' = [row EXCEPT ![u] = i]
        PROVE  row' \in [Uploads -> Nat] /\ \A v \in Uploads : row'[v] <= Len(documents)
    BY <1>1, <2>2, <2>3
  <2> QED
    BY <2>1, <2>2, <2>3
<1>3. PICK step \in UploadSteps \ {"idle"} : Goto(u, step)
  BY DEF SeekCheck, CheckDate, FindRow, UploadSteps, Ended
<1>4. pc[u] # "idle"
  BY DEF SeekCheck, CheckDate, FindRow
<1>5. UNCHANGED <<documents, objects, queue, file, todo, asked, hit>>
  BY DEF SeekCheck, CheckDate, FindRow
<1>6. /\ pc' \in [Uploads -> UploadSteps] /\ file' \in [Uploads -> Content]
      /\ \A v \in Uploads : file'[v] = NoFile <=> pc'[v] = "idle"
  BY <1>3, <1>4, <1>5, StepOfUpload
<1> QED
  BY <1>2, <1>5, <1>6 DEF UploadsTyped, RowsTyped

\* The steps that write a row.
LEMMA WriteKeepsTypes ==
    ASSUME UploadsTyped, NEW u \in Uploads,
           Announce(u) \/ MarkOldVersion(u) \/ SaveRow(u) \/ PutFails(u)
    PROVE  UploadsTyped'
<1>1. RowsTyped' /\ row' \in [Uploads -> Nat] /\ \A v \in Uploads : row'[v] <= Len(documents')
  <2>1. Len(documents) \in Nat
    BY LenProperties DEF UploadsTyped, RowsTyped
  <2>2. row \in [Uploads -> Nat] /\ \A v \in Uploads : row[v] <= Len(documents)
    BY DEF UploadsTyped
  <2>3. CASE Announce(u)
    <3>1. RowsTyped' /\ Len(documents') \in Nat /\ Len(documents) <= Len(documents')
      BY <2>3, AfterAnnounce
    <3>2. row' = [row EXCEPT ![u] = 0]
      BY <2>3 DEF Announce
    <3> QED
      BY <2>1, <2>2, <3>1, <3>2
  <2>4. CASE MarkOldVersion(u) \/ SaveRow(u)
    <3>1. /\ RowsTyped' /\ row' \in [Uploads -> Nat] /\ row'[u] <= Len(documents')
          /\ (\A v \in Uploads \ {u} : row'[v] = row[v])
          /\ Len(documents') \in Nat /\ Len(documents) <= Len(documents')
      BY <2>4, AfterOldVersion, AfterSave
    <3> QED
      BY <2>1, <2>2, <3>1
  <2>5. CASE PutFails(u)
    <3>1. RowsTyped' /\ Len(documents') = Len(documents) /\ row' = row
      BY <2>5, AfterPutFails DEF PutFails
    <3> QED
      BY <2>2, <3>1
  <2> QED
    BY <2>3, <2>4, <2>5
<1>2. PICK step \in UploadSteps \ {"idle"} : Goto(u, step)
  BY DEF Announce, MarkOldVersion, SaveRow, PutFails, UploadSteps, Ended
<1>3. pc[u] # "idle" /\ UNCHANGED <<objects, queue, file, todo, asked>>
  BY DEF Announce, MarkOldVersion, SaveRow, PutFails
<1>4. /\ pc' \in [Uploads -> UploadSteps] /\ file' \in [Uploads -> Content]
      /\ \A v \in Uploads : file'[v] = NoFile <=> pc'[v] = "idle"
  BY <1>2, <1>3, StepOfUpload
<1> QED
  BY <1>1, <1>3, <1>4 DEF UploadsTyped

LEMMA QuietKeepsTypes ==
    ASSUME UploadsTyped, NEW u \in Uploads,
           PutObject(u) \/ PushFails(u) \/ MarkRepealedFails(u) \/ Stop(u)
    PROVE  UploadsTyped'
<1>1. PICK step \in UploadSteps \ {"idle"} : Goto(u, step)
  BY DEF PutObject, PushFails, MarkRepealedFails, Stop, UploadSteps, Ended
<1>2. pc[u] # "idle" /\ UNCHANGED <<documents, queue, file, row, asked>>
  BY DEF PutObject, PushFails, MarkRepealedFails, Stop
<1>3. /\ pc' \in [Uploads -> UploadSteps] /\ file' \in [Uploads -> Content]
      /\ \A v \in Uploads : file'[v] = NoFile <=> pc'[v] = "idle"
  BY <1>1, <1>2, StepOfUpload
<1>4. file[u] \in Files
  BY <1>2 DEF UploadsTyped, Content
<1>5. objects' \in SUBSET Files
  BY <1>4 DEF PutObject, PushFails, MarkRepealedFails, Stop, UploadsTyped
<1>6. todo' \in [Uploads -> SUBSET Names]
  <2>1. Repeals[file[u]] \in SUBSET Names
    BY <1>4, UploadsAssumption
  <2>2. todo' = todo \/ \E S \in SUBSET Names : todo' = [todo EXCEPT ![u] = S]
    <3>1. CASE PutObject(u) \/ Stop(u)
      BY <3>1 DEF PutObject, Stop
    <3>2. CASE PushFails(u)
      BY <2>1, <3>2 DEF PushFails
    <3>3. CASE MarkRepealedFails(u)
      BY <3>3 DEF MarkRepealedFails, UploadsTyped
    <3> QED
      BY <3>1, <3>2, <3>3
  <2> QED
    BY <2>2 DEF UploadsTyped
<1> QED
  BY <1>2, <1>3, <1>5, <1>6 DEF UploadsTyped, RowsTyped

LEMMA MarkKeepsTypes ==
    ASSUME UploadsTyped, NEW u \in Uploads, MarkRepealed(u)
    PROVE  UploadsTyped'
<1>1. PICK n \in todo[u] :
        /\ SetStatus(Unrepealed(n), "repealed")
        /\ todo' = [todo EXCEPT ![u] = @ \ {n}]
  BY DEF MarkRepealed
<1>2. RowsTyped' /\ Len(documents') = Len(documents)
  BY <1>1, AfterRepeal DEF UploadsTyped
<1>3. todo' \in [Uploads -> SUBSET Names]
  BY <1>1 DEF UploadsTyped
<1>4. PICK step \in UploadSteps \ {"idle"} : Goto(u, step)
  BY DEF MarkRepealed, UploadSteps, Ended
<1>5. pc[u] # "idle" /\ UNCHANGED <<objects, queue, file, row, asked>>
  BY DEF MarkRepealed
<1>6. /\ pc' \in [Uploads -> UploadSteps] /\ file' \in [Uploads -> Content]
      /\ \A v \in Uploads : file'[v] = NoFile <=> pc'[v] = "idle"
  BY <1>4, <1>5, StepOfUpload
<1> QED
  BY <1>2, <1>3, <1>5, <1>6 DEF UploadsTyped

\* What is queued is entered in the history of each name it is about.
LEMMA AskKeepsTypes ==
    ASSUME UploadsTyped, NEW names, NEW f \in Content, Ask(names, f)
    PROVE  /\ asked' \in [Names -> Seq(Content)]
           /\ \A n \in Names : IF n \in names
                 THEN /\ Len(asked'[n]) = Len(asked[n]) + 1 /\ asked'[n] # <<>>
                      /\ Last(asked'[n]) = f
                 ELSE asked'[n] = asked[n]
<1>1. \A n \in Names : asked'[n] = IF n \in names THEN Append(asked[n], f) ELSE asked[n]
  BY DEF Ask
<1>2. \A n \in Names : asked[n] \in Seq(Content)
  BY DEF UploadsTyped
<1>3. ASSUME NEW n \in Names
      PROVE  /\ Append(asked[n], f) \in Seq(Content)
             /\ Len(Append(asked[n], f)) = Len(asked[n]) + 1 /\ Append(asked[n], f) # <<>>
             /\ Last(Append(asked[n], f)) = f
  <2>1. Append(asked[n], f) \in Seq(Content)
        /\ Len(Append(asked[n], f)) = Len(asked[n]) + 1
        /\ Append(asked[n], f)[Len(asked[n]) + 1] = f
        /\ Append(asked[n], f) # <<>>
    BY <1>2, AppendProperties
  <2> QED
    BY <2>1 DEF Last
<1>4. asked' \in [Names -> Seq(Content)]
  BY <1>1, <1>2, <1>3 DEF Ask
<1> QED
  BY <1>1, <1>3, <1>4

LEMMA PushKeepsTypes ==
    ASSUME UploadsTyped, NEW u \in Uploads, PushUpsert(u) \/ PushDelete(u)
    PROVE  UploadsTyped'
<1>1. PICK step \in UploadSteps \ {"idle"} : Goto(u, step)
  BY DEF PushUpsert, PushDelete, UploadSteps, Ended
<1>2. pc[u] # "idle" /\ UNCHANGED <<documents, objects, file, row>>
  BY DEF PushUpsert, PushDelete
<1>3. /\ pc' \in [Uploads -> UploadSteps] /\ file' \in [Uploads -> Content]
      /\ \A v \in Uploads : file'[v] = NoFile <=> pc'[v] = "idle"
  BY <1>1, <1>2, StepOfUpload
<1>4. file[u] \in Files /\ Repeals[file[u]] \in SUBSET Names /\ Name[file[u]] \in Names
  BY <1>2, UploadsAssumption DEF UploadsTyped, Content
<1>5. todo' \in [Uploads -> SUBSET Names]
  BY <1>4 DEF UploadsTyped, PushUpsert, PushDelete
<1>6. PICK t \in Task : queue' = <<t>> \o queue
  BY <1>4 DEF PushUpsert, PushDelete, Push, Task, UpsertTask, DeleteTask
<1>7. queue' \in Seq(Task)
  BY <1>6, PrependProperties DEF UploadsTyped
<1>8. asked' \in [Names -> Seq(Content)]
  BY <1>4, AskKeepsTypes DEF PushUpsert, PushDelete, Content
<1> QED
  BY <1>2, <1>3, <1>5, <1>7, <1>8 DEF UploadsTyped, RowsTyped

LEMMA NextUploadsKeepsTypes ==
    ASSUME UploadsTyped, NextUploads
    PROVE  UploadsTyped'
  BY LoadKeepsTypes, SearchKeepsTypes, WriteKeepsTypes, QuietKeepsTypes, MarkKeepsTypes,
     PushKeepsTypes DEF NextUploads, UploadStep

-----------------------------------------------------------------------------
(* The worker keeps the types. *)

LEMMA RecoverQueues ==
    ASSUME UploadsTyped, WorkerTyped, RecoverTask
    PROVE  /\ Last(processing) \in Task /\ queue' = <<Last(processing)>> \o queue
           /\ queue' \in Seq(Task) /\ processing' \in Seq(Task)
           /\ ToSet(processing') \subseteq ToSet(processing)
           /\ ToSet(queue') \subseteq ToSet(queue) \union {Last(processing)}
           /\ Last(processing) \in ToSet(processing)
<1>1. processing \in Seq(Task) /\ processing # <<>> /\ queue \in Seq(Task)
      /\ processing' = Front(processing) /\ queue' = <<Last(processing)>> \o queue
  BY DEF UploadsTyped, WorkerTyped, RecoverTask
<1>2. /\ processing' \in Seq(Task) /\ Len(processing) \in Nat \ {0}
      /\ DOMAIN processing = 1 .. Len(processing) /\ DOMAIN processing' = 1 .. Len(processing) - 1
      /\ Last(processing) = processing[Len(processing)] /\ Last(processing) \in Task
      /\ \A i \in 1 .. Len(processing) - 1 : processing'[i] = processing[i]
  BY <1>1, FrontKeeps
<1>3. /\ queue' \in Seq(Task) /\ DOMAIN queue' = 1 .. Len(queue) + 1
      /\ DOMAIN queue = 1 .. Len(queue) /\ Len(queue) \in Nat
      /\ queue'[1] = Last(processing)
      /\ \A i \in 2 .. Len(queue) + 1 : i - 1 \in DOMAIN queue /\ queue'[i] = queue[i - 1]
  BY <1>1, <1>2, PrependProperties
<1>4. ToSet(processing') \subseteq ToSet(processing) /\ Last(processing) \in ToSet(processing)
  BY <1>2 DEF ToSet
<1>5. ToSet(queue') \subseteq ToSet(queue) \union {Last(processing)}
  <2> SUFFICES ASSUME NEW i \in 1 .. Len(queue) + 1
               PROVE  queue'[i] \in ToSet(queue) \union {Last(processing)}
    BY <1>3 DEF ToSet
  <2>1. CASE i = 1
    BY <1>3, <2>1
  <2>2. CASE i # 1
    BY <1>3, <2>2 DEF ToSet
  <2> QED
    BY <2>1, <2>2
<1> QED
  BY <1>1, <1>2, <1>3, <1>4, <1>5

LEMMA FetchTakes ==
    ASSUME UploadsTyped, WorkerTyped, FetchTask
    PROVE  /\ Last(queue) \in Task /\ Last(queue) \in ToSet(queue)
           /\ task' = Last(queue)
           /\ queue' = Front(queue) /\ queue' \in Seq(Task)
           /\ processing' = <<task'>> \o processing /\ processing' \in Seq(Task)
           /\ ToSet(queue') \subseteq ToSet(queue)
           /\ ToSet(processing') \subseteq ToSet(processing) \union {task'}
<1>1. queue \in Seq(Task) /\ queue # <<>> /\ processing \in Seq(Task)
      /\ task' = Last(queue) /\ queue' = Front(queue)
      /\ processing' = <<task'>> \o processing
  BY DEF UploadsTyped, WorkerTyped, FetchTask
<1>2. /\ queue' \in Seq(Task) /\ Len(queue) \in Nat \ {0}
      /\ DOMAIN queue = 1 .. Len(queue) /\ DOMAIN queue' = 1 .. Len(queue) - 1
      /\ Last(queue) = queue[Len(queue)] /\ Last(queue) \in Task
      /\ \A i \in 1 .. Len(queue) - 1 : queue'[i] = queue[i]
  BY <1>1, FrontKeeps
<1>3. /\ processing' \in Seq(Task) /\ DOMAIN processing' = 1 .. Len(processing) + 1
      /\ DOMAIN processing = 1 .. Len(processing) /\ Len(processing) \in Nat
      /\ processing'[1] = task'
      /\ \A i \in 2 .. Len(processing) + 1 :
            i - 1 \in DOMAIN processing /\ processing'[i] = processing[i - 1]
  BY <1>1, <1>2, PrependProperties
<1>4. ToSet(queue') \subseteq ToSet(queue) /\ Last(queue) \in ToSet(queue)
  BY <1>2 DEF ToSet
<1>5. ToSet(processing') \subseteq ToSet(processing) \union {task'}
  <2> SUFFICES ASSUME NEW i \in 1 .. Len(processing) + 1
               PROVE  processing'[i] \in ToSet(processing) \union {task'}
    BY <1>3 DEF ToSet
  <2>1. CASE i = 1
    BY <1>3, <2>1
  <2>2. CASE i # 1
    BY <1>3, <2>2 DEF ToSet
  <2> QED
    BY <2>1, <2>2
<1> QED
  BY <1>1, <1>2, <1>3, <1>4, <1>5

LEMMA AcknowledgeRemoves ==
    ASSUME WorkerTyped, Acknowledge
    PROVE  processing' \in Seq(Task) /\ ToSet(processing') \subseteq ToSet(processing)
  BY RemoveFirstKeeps DEF WorkerTyped, Acknowledge

\* The steps of the worker that leave its lists and the index alone.
Plain ==
    \/ StopRecovering \/ Download \/ DownloadFails \/ ClearFails \/ RecordStatus
    \/ RecordStatusFails \/ RemoveObject \/ DropDone \/ Crash

LEMMA PlainKeeps ==
    ASSUME Plain
    PROVE  UNCHANGED <<queue, processing, index>>
  BY DEF Plain, StopRecovering, Download, DownloadFails, ClearFails, RecordStatus,
         RecordStatusFails, RemoveObject, DropDone, Crash, Services

\* What the steps of the worker leave outside it.
LEMMA WorkOutside ==
    ASSUME UploadsTyped, WorkerTyped, Work \/ Crash
    PROVE  /\ UNCHANGED <<pc, file, row, todo, asked>>
           /\ RowsTyped' /\ Len(documents') = Len(documents)
           /\ objects' \subseteq objects
           /\ queue' \in Seq(Task)
           /\ \A f : ChecksShrink(f) /\ WaitingShrinks(f)
<1>1. UNCHANGED <<pc, file, row, todo, asked>>
  BY DEF Work, Crash, RecoverTask, StopRecovering, FetchTask, Acknowledge, Download, DownloadFails,
         ClearOldVectors, ClearFails, AddBatch, BatchFails, RecordStatus, RecordStatusFails,
         RemoveObject, DropName, DropNameFails, DropDone, To, Settle, uploadsOnly
<1>2. objects' \subseteq objects
  BY DEF Work, Crash, RecoverTask, StopRecovering, FetchTask, Acknowledge, Download, DownloadFails,
         ClearOldVectors, ClearFails, AddBatch, BatchFails, RecordStatus, RecordStatusFails,
         RemoveObject, DropName, DropNameFails, DropDone, Services
<1>3. queue' \in Seq(Task)
  <2>1. CASE RecoverTask
    BY <2>1, RecoverQueues
  <2>2. CASE FetchTask
    BY <2>2, FetchTakes
  <2>3. CASE ~RecoverTask /\ ~FetchTask
    <3>1. queue' = queue
      BY <2>3 DEF Work, Crash, StopRecovering, Acknowledge, Download, DownloadFails,
         ClearOldVectors, ClearFails, AddBatch, BatchFails, RecordStatus, RecordStatusFails,
         RemoveObject, DropName, DropNameFails, DropDone, Services
    <3> QED
      BY <3>1 DEF UploadsTyped
  <2> QED
    BY <2>1, <2>2, <2>3
<1>4. RowsTyped' /\ Len(documents') = Len(documents)
      /\ \A f : ChecksShrink(f) /\ WaitingShrinks(f)
  <2>1. CASE RecordStatus
    BY <2>1, AfterVerdict
  <2>2. CASE DropName
    BY <2>2, AfterRepeal DEF DropName, UploadsTyped
  <2>3. CASE ~RecordStatus /\ ~DropName
    <3>1. documents' = documents
      BY <2>3 DEF Work, Crash, RecoverTask, StopRecovering, FetchTask, Acknowledge, Download,
         DownloadFails, ClearOldVectors, ClearFails, AddBatch, BatchFails, RecordStatusFails,
         RemoveObject, DropNameFails, DropDone, Services
    <3> QED
      BY <3>1, RowsShrink DEF UploadsTyped, RowsTyped
  <2> QED
    BY <2>1, <2>2, <2>3
<1> QED
  BY <1>1, <1>2, <1>3, <1>4

LEMMA WorkKeepsUploadTypes ==
    ASSUME UploadsTyped, WorkerTyped, Work \/ Crash
    PROVE  UploadsTyped'
<1>1. /\ UNCHANGED <<pc, file, row, todo, asked>>
      /\ RowsTyped' /\ Len(documents') = Len(documents) /\ objects' \subseteq objects
      /\ queue' \in Seq(Task)
  BY WorkOutside
<1> QED
  BY <1>1 DEF UploadsTyped

LEMMA EmptyIndex ==
    ASSUME NEW n \in Names, index \in [Names -> [1 .. Batches -> Content]],
           index' = [index EXCEPT ![n] = Empty]
    PROVE  index' \in [Names -> [1 .. Batches -> Content]] /\ index'[n] = Empty
           /\ \A m \in Names \ {n} : index'[m] = index[m]
<1>1. Empty \in [1 .. Batches -> Content]
  BY DEF Empty, Content
<1> QED
  BY <1>1

LEMMA ListsKeepTypes ==
    ASSUME UploadsTyped, WorkerTyped, RecoverTask \/ FetchTask \/ Acknowledge
    PROVE  WorkerTyped'
<1>1. CASE RecoverTask
  <2>1. processing' \in Seq(Task)
    BY <1>1, RecoverQueues
  <2>2. UNCHANGED <<index, at, task, batch, left, outcome, crashes>>
    BY <1>1 DEF RecoverTask, Progress
  <2> QED
    BY <2>1, <2>2 DEF WorkerTyped
<1>2. CASE FetchTask
  <2>1. processing' \in Seq(Task) /\ task' \in Task
    BY <1>2, FetchTakes
  <2>2. /\ at' = IF task'.action = "upsert" THEN "download" ELSE "drop"
        /\ left' = IF task'.action = "delete" THEN task'.names ELSE {}
        /\ UNCHANGED <<index, crashes>>
    BY <1>2 DEF FetchTask
  <2>3. /\ task'.action = "upsert" => task' \in UpsertTask
        /\ task'.action # "upsert" => task' \in DeleteTask
        /\ task'.action = "delete" => task'.names \in SUBSET Names
        /\ task' # NoTask
    BY <2>1, WorkerAssumption DEF Task, UpsertTask, DeleteTask
  <2> QED
    BY <2>1, <2>2, <2>3 DEF WorkerTyped, UpsertSteps, Idle
<1>3. CASE Acknowledge
  <2>1. processing' \in Seq(Task)
    BY <1>3, AcknowledgeRemoves
  <2>2. at' = Idle /\ task' = NoTask /\ left' = {} /\ UNCHANGED <<index, crashes>>
    BY <1>3 DEF Acknowledge, Rest
  <2> QED
    BY <2>1, <2>2 DEF WorkerTyped, UpsertSteps, Idle
<1> QED
  BY <1>1, <1>2, <1>3

LEMMA PlainKeepsTypes ==
    ASSUME UploadsTyped, WorkerTyped, Plain
    PROVE  WorkerTyped'
<1>1. UNCHANGED <<processing, index>>
  BY PlainKeeps
<1>2. CASE StopRecovering
  <2>1. at' = Idle /\ at = "recover" /\ UNCHANGED <<task, batch, left, outcome, crashes>>
    BY <1>2 DEF StopRecovering, Progress
  <2> QED
    BY <1>1, <2>1 DEF WorkerTyped, UpsertSteps, Idle
<1>3. CASE Crash
  <2>1. at' = "recover" /\ task' = NoTask /\ left' = {} /\ crashes' = crashes + 1
    BY <1>3 DEF Crash
  <2> QED
    BY <1>1, <2>1 DEF WorkerTyped, UpsertSteps, Idle
<1>4. CASE Download \/ DownloadFails
  <2>1. at = "download" /\ UNCHANGED <<task, batch, left, crashes>>
        /\ (at' = "clear" \/ (at' = "status" /\ outcome' = "error"))
    BY <1>4 DEF Download, DownloadFails, Settle, To
  <2> QED
    BY <1>1, <2>1 DEF WorkerTyped, UpsertSteps, Idle
<1>5. CASE ClearFails
  <2>1. at = "clear" /\ UNCHANGED <<task, left, crashes>>
        /\ ((at' = "embed" /\ batch' = 1) \/ (at' = "status" /\ outcome' = "error"))
    BY <1>5 DEF ClearFails, Settle, To
  <2>2. 1 \in 1 .. Batches
    BY WorkerAssumption
  <2> QED
    BY <1>1, <2>1, <2>2 DEF WorkerTyped, UpsertSteps, Idle
<1>6. CASE RecordStatus \/ RecordStatusFails \/ RemoveObject
  <2>1. at \in {"status", "remove"} /\ at' \in {"remove", "ack"} /\ UNCHANGED <<task, left, crashes>>
    BY <1>6 DEF RecordStatus, RecordStatusFails, RemoveObject, To, AfterStatus
  <2> QED
    BY <1>1, <2>1 DEF WorkerTyped, UpsertSteps, Idle, Task
<1>7. CASE DropDone
  <2>1. at = "drop" /\ at' = "ack" /\ UNCHANGED <<task, left, crashes>>
    BY <1>7 DEF DropDone, To
  <2> QED
    BY <1>1, <2>1 DEF WorkerTyped, UpsertSteps, Idle, Task
<1> QED
  BY <1>2, <1>3, <1>4, <1>5, <1>6, <1>7 DEF Plain

LEMMA IndexingKeepsTypes ==
    ASSUME UploadsTyped, WorkerTyped,
           ClearOldVectors \/ AddBatch \/ BatchFails \/ DropName \/ DropNameFails
    PROVE  WorkerTyped'
<1>1. processing' = processing /\ crashes' = crashes /\ task' = task
  BY DEF ClearOldVectors, AddBatch, BatchFails, DropName, DropNameFails, To, Settle
<1>2. CASE ClearOldVectors \/ AddBatch \/ BatchFails
  <2>1. task \in UpsertTask /\ at \in {"clear", "embed"}
    BY <1>2 DEF WorkerTyped, UpsertSteps, ClearOldVectors, AddBatch, BatchFails
  <2>2. task.file \in Files /\ Name[task.file] \in Names
    BY <2>1, UploadsAssumption DEF UpsertTask
  <2>3. index' \in [Names -> [1 .. Batches -> Content]]
    <3>1. CASE ClearOldVectors
      BY <2>2, <3>1, EmptyIndex DEF ClearOldVectors, WorkerTyped
    <3>2. CASE BatchFails
      <4>1. index' = index \/ index' = [index EXCEPT ![Name[task.file]] = Empty]
        BY <3>2 DEF BatchFails
      <4> QED
        BY <2>2, <4>1, EmptyIndex DEF WorkerTyped
    <3>3. CASE AddBatch
      BY <2>2, <3>3 DEF AddBatch, WorkerTyped, Content
    <3> QED
      BY <1>2, <3>1, <3>2, <3>3
  <2>4. left' = left /\ ((at' = "embed" /\ batch' \in 1 .. Batches)
                         \/ (at' = "status" /\ outcome' \in {"completed", "error"}))
    <3>1. CASE ClearOldVectors
      BY <3>1, WorkerAssumption DEF ClearOldVectors, To
    <3>2. CASE BatchFails
      BY <3>2 DEF BatchFails, Settle, To
    <3>3. CASE AddBatch
      <4>1. batch \in 1 .. Batches
        BY <3>3 DEF AddBatch, WorkerTyped
      <4> QED
        BY <3>3, <4>1, WorkerAssumption DEF AddBatch, Settle, To, LastBatch
    <3> QED
      BY <1>2, <3>1, <3>2, <3>3
  <2> QED
    BY <1>1, <2>1, <2>3, <2>4 DEF WorkerTyped, UpsertSteps, Idle
<1>3. CASE DropName \/ DropNameFails
  <2>1. at = "drop" /\ UNCHANGED <<at, batch, outcome>> /\ left' \in SUBSET left
    BY <1>3 DEF DropName, DropNameFails
  <2>2. index' \in [Names -> [1 .. Batches -> Content]]
    <3>1. index' = index \/ \E n \in left : index' = [index EXCEPT ![n] = Empty]
      BY <1>3 DEF DropName, DropNameFails
    <3> QED
      BY <3>1, EmptyIndex DEF WorkerTyped
  <2> QED
    BY <1>1, <2>1, <2>2 DEF WorkerTyped, UpsertSteps, Idle
<1> QED
  BY <1>2, <1>3

LEMMA WorkKeepsTypes ==
    ASSUME UploadsTyped, WorkerTyped, Work \/ Crash
    PROVE  WorkerTyped'
  BY ListsKeepTypes, PlainKeepsTypes, IndexingKeepsTypes DEF Work, Plain

LEMMA NextKeepsTypes ==
    ASSUME UploadsTyped, WorkerTyped, [Next]_vars
    PROVE  UploadsTyped' /\ WorkerTyped'
<1>1. CASE NextUploads /\ UNCHANGED workerVars
  BY <1>1, NextUploadsKeepsTypes DEF workerVars, WorkerTyped
<1>2. CASE Work \/ Crash
  BY <1>2, WorkKeepsUploadTypes, WorkKeepsTypes
<1>3. CASE UNCHANGED vars
  BY <1>3 DEF vars, uploadVars, workerVars, UploadsTyped, RowsTyped, WorkerTyped
<1> QED
  BY <1>1, <1>2, <1>3 DEF Next, AllEnded

-----------------------------------------------------------------------------
(* One check per file. *)

\* The steps of an upload after its check was announced.
LaterStep(u) ==
    \/ CheckDate(u) \/ MarkOldVersion(u) \/ FindRow(u) \/ SaveRow(u) \/ PutObject(u)
    \/ PushUpsert(u) \/ MarkRepealed(u) \/ PushDelete(u)
    \/ PutFails(u) \/ PushFails(u) \/ MarkRepealedFails(u) \/ Stop(u)

LEMMA LaterStepsShrink ==
    ASSUME UploadsTyped, NEW u \in Uploads, LaterStep(u)
    PROVE  \A f : ChecksShrink(f)
<1>1. CASE MarkOldVersion(u) \/ SaveRow(u) \/ PutFails(u)
  BY <1>1, AfterOldVersion, AfterSave, AfterPutFails
<1>2. CASE MarkRepealed(u)
  BY <1>2, AfterRepeal DEF MarkRepealed, UploadsTyped
<1>3. CASE UNCHANGED documents
  BY <1>3, RowsShrink
<1> QED
  BY <1>1, <1>2, <1>3 DEF LaterStep, CheckDate, FindRow, PutObject, PushUpsert, PushDelete,
     PushFails, MarkRepealedFails, Stop

LEMMA LaterStepsMove ==
    ASSUME UploadsTyped, NEW u \in Uploads, LaterStep(u)
    PROVE  /\ UNCHANGED file /\ pc'[u] \notin {"seek", "announce"}
           /\ \A v \in Uploads \ {u} : pc'[v] = pc[v] /\ row'[v] = row[v]
<1>1. UNCHANGED file /\ \E step \in UploadSteps \ {"seek", "announce"} : Goto(u, step)
  BY DEF LaterStep, CheckDate, MarkOldVersion, FindRow, SaveRow, PutObject, PushUpsert,
     MarkRepealed, PushDelete, PutFails, PushFails, MarkRepealedFails, Stop, UploadSteps, Ended
<1>2. \A v \in Uploads \ {u} : row'[v] = row[v]
  <2>1. CASE MarkOldVersion(u) \/ SaveRow(u)
    BY <2>1, AfterOldVersion, AfterSave
  <2>2. CASE row' = row \/ \E i \in 0 .. Len(documents) : row' = [row EXCEPT ![u] = i]
    BY <2>2 DEF UploadsTyped
  <2> QED
    BY <2>1, <2>2 DEF LaterStep, CheckDate, FindRow, PutObject, PushUpsert, MarkRepealed,
       PushDelete, PutFails, PushFails, MarkRepealedFails, Stop
<1> QED
  BY <1>1, <1>2 DEF Goto, UploadsTyped

LEMMA LaterStepsKeepChecks ==
    ASSUME UploadsTyped, ChecksApart, NEW u \in Uploads, LaterStep(u)
    PROVE  ChecksApart'
<1>1. \A f : Announced(f)' \subseteq Announced(f)
  BY LaterStepsShrink DEF ChecksShrink
<1>2. /\ UNCHANGED file /\ pc'[u] \notin {"seek", "announce"}
      /\ \A v \in Uploads \ {u} : pc'[v] = pc[v] /\ row'[v] = row[v]
  BY LaterStepsMove
<1>3. InCheck' \subseteq InCheck \ {u}
  BY <1>2 DEF InCheck
<1>4. \A f \in Files : \A i, j \in Announced(f)' : i = j
  BY <1>1 DEF ChecksApart
<1>5. \A v, w \in InCheck' : file'[v] = file'[w] => v = w
  BY <1>2, <1>3 DEF ChecksApart
<1>6. ASSUME NEW v \in InCheck', NEW g \in Files,
             pc'[v] = "announce", row'[v] = 0, file'[v] = g
      PROVE  Announced(g)' = {}
  <2>1. v \in InCheck /\ pc[v] = "announce" /\ row[v] = 0 /\ file[v] = g
    BY <1>2, <1>3, <1>6 DEF InCheck
  <2>2. Announced(g) = {}
    BY <2>1 DEF ChecksApart
  <2> QED
    BY <1>1, <2>2
<1> QED
  BY <1>4, <1>5, <1>6 DEF ChecksApart

LEMMA LoadKeepsChecks ==
    ASSUME UploadsTyped, ChecksApart, NEW u \in Uploads, CheckLoaded(u)
    PROVE  ChecksApart'
<1>1. PICK f \in Files :
        /\ AdvisoryLockFree(f) /\ file' = [file EXCEPT ![u] = f]
        /\ \E step \in {"duplicate", "seek"} : pc' = [pc EXCEPT ![u] = step]
  <2>1. Offered[u] \subseteq Files
    BY UploadsAssumption
  <2> QED
    BY <2>1 DEF CheckLoaded, Goto
<1>2. pc[u] = "idle" /\ UNCHANGED <<documents, row>>
  BY DEF CheckLoaded
<1>3. \A g : Announced(g)' \subseteq Announced(g)
  BY <1>2, RowsShrink DEF ChecksShrink
<1>4. file'[u] = f /\ pc'[u] # "announce"
      /\ \A v \in Uploads \ {u} : pc'[v] = pc[v] /\ file'[v] = file[v]
  BY <1>1 DEF UploadsTyped
<1>5. u \notin InCheck /\ InCheck' \subseteq InCheck \union {u}
      /\ \A v \in InCheck : v \in Uploads /\ file[v] # f
  BY <1>1, <1>2, <1>4 DEF InCheck, AdvisoryLockFree
<1>6. \A v, w \in InCheck' : file'[v] = file'[w] => v = w
  BY <1>4, <1>5 DEF ChecksApart
<1>7. ASSUME NEW v \in InCheck', NEW g \in Files,
             pc'[v] = "announce", row'[v] = 0, file'[v] = g
      PROVE  Announced(g)' = {}
  <2>1. v \in InCheck /\ pc[v] = "announce" /\ row[v] = 0 /\ file[v] = g
    BY <1>2, <1>4, <1>5, <1>7
  <2> QED
    BY <1>3, <2>1 DEF ChecksApart
<1> QED
  BY <1>3, <1>6, <1>7 DEF ChecksApart

\* Row 0 stands for none: it is found only where there is none.
LEMMA SeekKeepsChecks ==
    ASSUME UploadsTyped, ChecksApart, NEW u \in Uploads, SeekCheck(u)
    PROVE  ChecksApart'
<1>1. PICK i \in 0 .. Len(documents) :
        /\ First(Announced(file[u]), i)
        /\ \/ row' = [row EXCEPT ![u] = i] /\ Goto(u, "announce")
           \/ i # 0 /\ Goto(u, "duplicate") /\ UNCHANGED row
  BY DEF SeekCheck
<1>2. UNCHANGED <<documents, file>> /\ pc[u] = "seek" /\ u \in InCheck
  BY DEF SeekCheck, InCheck
<1>3. \A g : Announced(g)' \subseteq Announced(g)
  BY <1>2, RowsShrink DEF ChecksShrink
<1>4. i = 0 => Announced(file[u]) = {}
  <2>1. 0 \notin DOMAIN documents
    BY LenProperties DEF UploadsTyped, RowsTyped
  <2> QED
    BY <1>1, <2>1, CheckRow DEF First
<1>5. InCheck' \subseteq InCheck
  BY <1>1, <1>2 DEF InCheck, Goto, UploadsTyped
<1>6. \A v, w \in InCheck' : file'[v] = file'[w] => v = w
  BY <1>2, <1>5 DEF ChecksApart
<1>7. ASSUME NEW v \in InCheck', NEW g \in Files,
             pc'[v] = "announce", row'[v] = 0, file'[v] = g
      PROVE  Announced(g)' = {}
  <2>1. CASE v = u
    BY <1>1, <1>2, <1>3, <1>4, <1>7, <2>1 DEF Goto, UploadsTyped
  <2>2. CASE v # u
    <3>1. v \in InCheck /\ pc[v] = "announce" /\ row[v] = 0 /\ file[v] = g
      BY <1>1, <1>2, <1>5, <1>7, <2>2 DEF Goto, UploadsTyped, InCheck
    <3> QED
      BY <1>3, <3>1 DEF ChecksApart
  <2> QED
    BY <2>1, <2>2
<1> QED
  BY <1>3, <1>6, <1>7 DEF ChecksApart

LEMMA AnnounceKeepsChecks ==
    ASSUME UploadsTyped, ChecksApart, NEW u \in Uploads, Announce(u)
    PROVE  ChecksApart'
<1>1. /\ \A f : row[u] # 0 \/ f # file[u] => Announced(f)' \subseteq Announced(f)
      /\ \A f : Announced(f)' \subseteq Announced(f) \union {Len(documents) + 1}
  BY AfterAnnounce DEF ChecksShrink
<1>2. u \in InCheck /\ pc[u] = "announce"
      /\ \A f \in Files : row[u] = 0 /\ f = file[u] => Announced(f) = {}
  BY DEF Announce, InCheck, ChecksApart
<1>3. UNCHANGED file /\ pc'[u] = "dating"
      /\ \A v \in Uploads \ {u} : pc'[v] = pc[v] /\ row'[v] = row[v]
  BY DEF Announce, Goto, UploadsTyped
<1>4. InCheck' \subseteq InCheck \ {u}
  BY <1>3 DEF InCheck
<1>5. ASSUME NEW f \in Files, NEW i \in Announced(f)', NEW j \in Announced(f)'
      PROVE  i = j
  <2>1. CASE row[u] # 0 \/ f # file[u]
    BY <1>1, <1>5, <2>1 DEF ChecksApart
  <2>2. CASE row[u] = 0 /\ f = file[u]
    <3>1. Announced(f)' \subseteq {Len(documents) + 1}
      BY <1>1, <1>2, <2>2
    <3> QED
      BY <1>5, <3>1
  <2> QED
    BY <2>1, <2>2
<1>6. \A v, w \in InCheck' : file'[v] = file'[w] => v = w
  BY <1>3, <1>4 DEF ChecksApart
<1>7. ASSUME NEW v \in InCheck', NEW g \in Files,
             pc'[v] = "announce", row'[v] = 0, file'[v] = g
      PROVE  Announced(g)' = {}
  <2>1. v \in InCheck /\ v # u /\ pc[v] = "announce" /\ row[v] = 0 /\ file[v] = g
    BY <1>3, <1>4, <1>7 DEF InCheck
  <2>2. g # file[u] /\ Announced(g) = {}
    BY <1>2, <2>1 DEF ChecksApart
  <2> QED
    BY <1>1, <2>2
<1> QED
  BY <1>5, <1>6, <1>7 DEF ChecksApart

LEMMA NextKeepsChecks ==
    ASSUME UploadsTyped, WorkerTyped, ChecksApart, [Next]_vars
    PROVE  ChecksApart'
<1>1. CASE NextUploads
  BY <1>1, LoadKeepsChecks, SeekKeepsChecks, AnnounceKeepsChecks, LaterStepsKeepChecks
     DEF NextUploads, UploadStep, LaterStep
<1>2. CASE Work \/ Crash \/ UNCHANGED vars
  <2>1. UNCHANGED <<pc, file, row>>
    BY <1>2, WorkOutside DEF vars, uploadVars
  <2>2. \A f : Announced(f)' \subseteq Announced(f)
    <3>1. CASE UNCHANGED vars
      BY <3>1, RowsShrink DEF ChecksShrink, vars, uploadVars
    <3> QED
      BY <1>2, <3>1, WorkOutside DEF ChecksShrink
  <2>3. \A f \in Files : \A i, j \in Announced(f)' : i = j
    BY <2>2 DEF ChecksApart
  <2>4. \A v, w \in InCheck' : file'[v] = file'[w] => v = w
    BY <2>1 DEF ChecksApart, InCheck
  <2>5. ASSUME NEW v \in InCheck', NEW g \in Files,
               pc'[v] = "announce", row'[v] = 0, file'[v] = g
        PROVE  Announced(g)' = {}
    <3>1. Announced(g) = {}
      BY <2>1, <2>5 DEF ChecksApart, InCheck
    <3> QED
      BY <2>2, <3>1
  <2> QED
    BY <2>3, <2>4, <2>5 DEF ChecksApart
<1> QED
  BY <1>1, <1>2 DEF Next, AllEnded

-----------------------------------------------------------------------------
(* The uploads and their tasks. *)

\* An upload keeps its file, whether the file is alone, and what it has pushed.
LEMMA FilesStay ==
    ASSUME UploadsTyped, NextUploads
    PROVE  /\ \A v \in Uploads : file[v] # NoFile => file'[v] = file[v]
           /\ \A v \in Uploads : Pushed(v) => Pushed(v)' /\ file'[v] = file[v] /\ file[v] \in Files
<1>1. ASSUME NEW u \in Uploads, CheckLoaded(u)
      PROVE  /\ \A v \in Uploads : file[v] # NoFile => file'[v] = file[v]
             /\ \A v \in Uploads : Pushed(v) => Pushed(v)'
  <2>1. \E f : file' = [file EXCEPT ![u] = f]
    BY <1>1 DEF CheckLoaded
  <2>2. pc[u] = "idle" /\ file[u] = NoFile
    BY <1>1 DEF CheckLoaded, UploadsTyped
  <2>3. \A v \in Uploads \ {u} : file'[v] = file[v] /\ pc'[v] = pc[v]
    BY <1>1, <2>1 DEF CheckLoaded, Goto, UploadsTyped
  <2> QED
    BY <2>2, <2>3 DEF Pushed
<1>2. ASSUME NEW u \in Uploads, UploadStep(u) \/ PutFails(u) \/ PushFails(u)
                                  \/ MarkRepealedFails(u) \/ Stop(u)
      PROVE  /\ \A v \in Uploads : file[v] # NoFile => file'[v] = file[v]
             /\ \A v \in Uploads : Pushed(v) => Pushed(v)'
  <2>1. file' = file
    BY <1>2 DEF UploadStep, SeekCheck, Announce, CheckDate, MarkOldVersion, FindRow, SaveRow,
       PutObject, PushUpsert, MarkRepealed, PushDelete, PutFails, PushFails, MarkRepealedFails, Stop
  <2>2. Pushed(u) => \E step \in {"repeal", "delete", "done", "stopped"} : Goto(u, step)
    BY <1>2 DEF Pushed, UploadStep, SeekCheck, Announce, CheckDate, MarkOldVersion, FindRow,
       SaveRow, PutObject, PushUpsert, MarkRepealed, PushDelete, PutFails, PushFails,
       MarkRepealedFails, Stop
  <2>3. \E step : Goto(u, step)
    BY <1>2 DEF UploadStep, SeekCheck, Announce, CheckDate, MarkOldVersion, FindRow,
       SaveRow, PutObject, PushUpsert, MarkRepealed, PushDelete, PutFails, PushFails,
       MarkRepealedFails, Stop
  <2>4. \A v \in Uploads \ {u} : pc'[v] = pc[v]
    BY <2>3 DEF Goto, UploadsTyped
  <2>5. Pushed(u) => Pushed(u)'
    BY <2>2 DEF Goto, UploadsTyped, Pushed
  <2> QED
    BY <2>1, <2>4, <2>5 DEF Pushed
<1>3. \A v \in Uploads : Pushed(v) => file[v] # NoFile /\ file[v] \in Files
  BY DEF UploadsTyped, Pushed, Content
<1> QED
  BY <1>1, <1>2, <1>3 DEF NextUploads

\* What stops an upload.
LEMMA HitGrows ==
    ASSUME [Next]_vars
    PROVE  hit \subseteq hit'
<1>1. CASE NextUploads
  BY <1>1 DEF NextUploads, CheckLoaded, UploadStep, SeekCheck, Announce, CheckDate, MarkOldVersion,
     FindRow, SaveRow, PutObject, PushUpsert, MarkRepealed, PushDelete, PutFails, PushFails,
     MarkRepealedFails, Stop, Hit
<1>2. CASE Work \/ Crash
  BY <1>2 DEF Work, Crash, RecoverTask, StopRecovering, FetchTask, Acknowledge, Download,
     DownloadFails, ClearOldVectors, ClearFails, AddBatch, BatchFails, RecordStatus,
     RecordStatusFails, RemoveObject, DropName, DropNameFails, DropDone, Hit, Settle, To
<1> QED
  BY <1>1, <1>2 DEF Next, AllEnded, vars, uploadVars

\* A task enters the queue with the upload that pushes it.
LEMMA QueueGrows ==
    ASSUME UploadsTyped, NextUploads
    PROVE  \/ queue' = queue /\ asked' = asked
           \/ \E u \in Uploads, t \in Task :
                /\ queue' = <<t>> \o queue /\ queue' \in Seq(Task)
                /\ ToSet(queue') \subseteq ToSet(queue) \union {t}
                /\ \/ PushUpsert(u) /\ t = [action |-> "upsert", file |-> file[u]]
                   \/ PushDelete(u) /\ t = [action |-> "delete", names |-> Repeals[file[u]]]
<1>1. CASE ~\E u \in Uploads : PushUpsert(u) \/ PushDelete(u)
  BY <1>1 DEF NextUploads, CheckLoaded, UploadStep, SeekCheck, Announce, CheckDate,
     MarkOldVersion, FindRow, SaveRow, PutObject, MarkRepealed, PutFails, PushFails,
     MarkRepealedFails, Stop
<1>2. ASSUME NEW u \in Uploads, PushUpsert(u) \/ PushDelete(u)
      PROVE  \E t \in Task :
                /\ queue' = <<t>> \o queue /\ queue' \in Seq(Task)
                /\ ToSet(queue') \subseteq ToSet(queue) \union {t}
                /\ \/ PushUpsert(u) /\ t = [action |-> "upsert", file |-> file[u]]
                   \/ PushDelete(u) /\ t = [action |-> "delete", names |-> Repeals[file[u]]]
  <2>1. file[u] \in Files /\ Repeals[file[u]] \in SUBSET Names
    BY <1>2, UploadsAssumption DEF UploadsTyped, Content, PushUpsert, PushDelete
  <2>2. PICK t \in Task :
          /\ queue' = <<t>> \o queue
          /\ \/ PushUpsert(u) /\ t = [action |-> "upsert", file |-> file[u]]
             \/ PushDelete(u) /\ t = [action |-> "delete", names |-> Repeals[file[u]]]
    BY <1>2, <2>1 DEF PushUpsert, PushDelete, Push, Task, UpsertTask, DeleteTask
  <2>3. /\ queue' \in Seq(Task) /\ DOMAIN queue' = 1 .. Len(queue) + 1
        /\ queue'[1] = t
        /\ \A i \in 2 .. Len(queue) + 1 : i - 1 \in DOMAIN queue /\ queue'[i] = queue[i - 1]
    BY <2>2, PrependProperties DEF UploadsTyped
  <2>4. ToSet(queue') \subseteq ToSet(queue) \union {t}
    <3> SUFFICES ASSUME NEW i \in 1 .. Len(queue) + 1
                 PROVE  queue'[i] \in ToSet(queue) \union {t}
      BY <2>3 DEF ToSet
    <3>1. Len(queue) \in Nat
      BY LenProperties DEF UploadsTyped
    <3>2. CASE i = 1
      BY <2>3, <3>2
    <3>3. CASE i # 1
      <4>1. i \in 2 .. Len(queue) + 1
        BY <3>1, <3>3
      <4> QED
        BY <2>3, <4>1 DEF ToSet
    <3> QED
      BY <3>2, <3>3
  <2> QED
    BY <2>2, <2>3, <2>4
<1> QED
  BY <1>1, <1>2

Pendings == ToSet(queue) \union ToSet(processing) \union {task}

\* The worker adds no task to those that are pending.
LEMMA WorkAddsNoTask ==
    ASSUME UploadsTyped, WorkerTyped, Work \/ Crash
    PROVE  Pendings' \subseteq Pendings \union {NoTask}
<1>1. CASE RecoverTask
  BY <1>1, RecoverQueues DEF Pendings, RecoverTask, Progress
<1>2. CASE FetchTask
  BY <1>2, FetchTakes DEF Pendings
<1>3. CASE Acknowledge
  BY <1>3, AcknowledgeRemoves DEF Pendings, Acknowledge, Rest
<1>4. CASE Plain
  <2>1. task' \in {task, NoTask}
    BY <1>4 DEF Plain, StopRecovering, Download, DownloadFails, ClearFails, RecordStatus,
         RecordStatusFails, RemoveObject, DropDone, Crash, Progress, Settle, To
  <2> QED
    BY <1>4, <2>1, PlainKeeps DEF Pendings
<1>5. CASE ClearOldVectors \/ AddBatch \/ BatchFails \/ DropName \/ DropNameFails
  <2>1. UNCHANGED <<queue, processing, task>>
    BY <1>5 DEF ClearOldVectors, AddBatch, BatchFails, DropName, DropNameFails, To, Settle
  <2> QED
    BY <2>1 DEF Pendings
<1> QED
  BY <1>1, <1>2, <1>3, <1>4, <1>5 DEF Work, Plain

LEMMA NextKeepsTasks ==
    ASSUME UploadsTyped, WorkerTyped, TasksArePushed, [Next]_vars
    PROVE  TasksArePushed'
<1>1. CASE Work \/ Crash \/ UNCHANGED vars
  <2>1. Pendings' \subseteq Pendings \union {NoTask} /\ UNCHANGED <<pc, file>>
    <3>1. CASE UNCHANGED vars
      BY <3>1 DEF Pendings, vars, uploadVars, workerVars
    <3> QED
      BY <1>1, <3>1, WorkAddsNoTask, WorkOutside
  <2>2. NoTask \notin UpsertTask
    BY WorkerAssumption
  <2> QED
    BY <2>1, <2>2 DEF TasksArePushed, Pendings, Pushed
<1>2. CASE NextUploads /\ UNCHANGED workerVars
  <2>1. \A v \in Uploads : Pushed(v) => Pushed(v)' /\ file'[v] = file[v]
    BY <1>2, FilesStay
  <2>2. UNCHANGED <<processing, task>>
    BY <1>2 DEF workerVars
  <2>3. CASE queue' = queue
    BY <2>1, <2>2, <2>3 DEF TasksArePushed
  <2>4. ASSUME NEW u \in Uploads, NEW t \in Task,
               ToSet(queue') \subseteq ToSet(queue) \union {t},
               \/ PushUpsert(u) /\ t = [action |-> "upsert", file |-> file[u]]
               \/ PushDelete(u) /\ t = [action |-> "delete", names |-> Repeals[file[u]]]
        PROVE  TasksArePushed'
    <3>1. t \in UpsertTask => t.file = file'[u] /\ Pushed(u)'
      <4>1. CASE PushUpsert(u) /\ t = [action |-> "upsert", file |-> file[u]]
        BY <4>1 DEF PushUpsert, Goto, Pushed, UploadsTyped
      <4>2. CASE t = [action |-> "delete", names |-> Repeals[file[u]]]
        BY <4>2 DEF UpsertTask
      <4> QED
        BY <2>4, <4>1, <4>2
    <3> QED
      BY <2>1, <2>2, <2>4, <3>1 DEF TasksArePushed
  <2> QED
    BY <1>2, <2>3, <2>4, QueueGrows
<1> QED
  BY <1>1, <1>2 DEF Next, AllEnded

-----------------------------------------------------------------------------
(* The texts of undecided documents. *)

\* A row waits for the worker from the step that saves it.
LEMMA SaveMakesWait ==
    ASSUME UploadsTyped, NextUploads
    PROVE  \A f : WaitingShrinks(f) \/ \E u \in Uploads : pc[u] = "save" /\ file[u] = f
<1>1. ASSUME NEW u \in Uploads, SaveRow(u)
      PROVE  \A f : WaitingShrinks(f) \/ (pc[u] = "save" /\ file[u] = f)
  BY <1>1, AfterSave DEF SaveRow
<1>2. ASSUME NEW u \in Uploads, Announce(u) \/ MarkOldVersion(u) \/ PutFails(u)
      PROVE  \A f : WaitingShrinks(f)
  BY <1>2, AfterAnnounce, AfterOldVersion, AfterPutFails
<1>3. ASSUME NEW u \in Uploads, MarkRepealed(u)
      PROVE  \A f : WaitingShrinks(f)
  BY <1>3, AfterRepeal DEF MarkRepealed, UploadsTyped
<1>4. CASE UNCHANGED documents
  BY <1>4, RowsShrink
<1> QED
  BY <1>1, <1>2, <1>3, <1>4 DEF NextUploads, CheckLoaded, UploadStep, SeekCheck, CheckDate, FindRow,
     PutObject, PushUpsert, PushDelete, PushFails, MarkRepealedFails, Stop

\* A document is accepted only after its text was stored.
LEMMA PushedAfterPut ==
    ASSUME UploadsTyped, NextUploads
    PROVE  /\ objects \subseteq objects'
           /\ \A v \in Uploads : pc'[v] = "push" => pc[v] = "push" \/ file'[v] \in objects'
           /\ \A v \in Uploads : Accepted(v)' => Accepted(v) \/ pc[v] = "push"
<1>1. objects \subseteq objects'
  BY DEF NextUploads, CheckLoaded, UploadStep, SeekCheck, Announce, CheckDate, MarkOldVersion,
     FindRow, SaveRow, PutObject, PushUpsert, MarkRepealed, PushDelete, PutFails, PushFails,
     MarkRepealedFails, Stop
<1>2. PICK u \in Uploads :
        \/ CheckLoaded(u) \/ UploadStep(u)
        \/ PutFails(u) \/ PushFails(u) \/ MarkRepealedFails(u) \/ Stop(u)
  BY DEF NextUploads
<1>3. PICK step : Goto(u, step)
  BY <1>2 DEF CheckLoaded, UploadStep, SeekCheck, Announce, CheckDate, MarkOldVersion,
     FindRow, SaveRow, PutObject, PushUpsert, MarkRepealed, PushDelete, PutFails, PushFails,
     MarkRepealedFails, Stop
<1>4. pc'[u] = step /\ \A v \in Uploads \ {u} : pc'[v] = pc[v]
  BY <1>3 DEF Goto, UploadsTyped
<1>5. pc'[u] = "push" => pc[u] = "push" \/ file'[u] \in objects'
  BY <1>2, <1>4 DEF CheckLoaded, UploadStep, SeekCheck, Announce, CheckDate, MarkOldVersion,
     FindRow, SaveRow, PutObject, PushUpsert, MarkRepealed, PushDelete, PutFails, PushFails,
     MarkRepealedFails, Stop, Goto, UploadsTyped
<1>6. Accepted(u)' => Accepted(u) \/ pc[u] = "push"
  BY <1>2, <1>4 DEF CheckLoaded, UploadStep, SeekCheck, Announce, CheckDate, MarkOldVersion,
     FindRow, SaveRow, PutObject, PushUpsert, MarkRepealed, PushDelete, PutFails, PushFails,
     MarkRepealedFails, Stop, Goto, UploadsTyped, Accepted
<1> QED
  BY <1>1, <1>4, <1>5, <1>6 DEF Accepted

LEMMA UploadsKeepTexts ==
    ASSUME UploadsTyped, WorkerTyped, TasksArePushed, TextsKept, NextUploads, UNCHANGED workerVars
    PROVE  TextsKept'
<1> SUFFICES ASSUME NEW v \in Uploads, NEW f \in Files,
                    file'[v] = f, Alone(v)', "postgres" \notin hit'
             PROVE  /\ pc'[v] = "push" => f \in objects'
                    /\ Accepted(v)' => f \in objects' \/ Waiting(f)' = {}
                    /\ at' = "remove" /\ task'.file = f => Waiting(f)' = {}
  BY DEF TextsKept
<1>1. "postgres" \notin hit /\ UNCHANGED <<at, task>>
  BY HitGrows DEF Next, workerVars
<1>2. /\ \A w \in Uploads : file[w] # NoFile => file'[w] = file[w]
      /\ \A w \in Uploads : Pushed(w) => Pushed(w)' /\ file'[w] = file[w]
  BY FilesStay
<1>3. \A w \in Uploads : file[w] = f => w = v
  <2>1. f # NoFile
    BY UploadsAssumption
  <2> QED
    BY <1>2, <2>1 DEF Alone
<1>4. /\ objects \subseteq objects'
      /\ pc'[v] = "push" => pc[v] = "push" \/ file'[v] \in objects'
      /\ Accepted(v)' => Accepted(v) \/ pc[v] = "push"
  BY PushedAfterPut
<1>5. file[v] = f =>
        /\ pc[v] = "push" => f \in objects
        /\ Accepted(v) => f \in objects \/ Waiting(f) = {}
        /\ at = "remove" /\ task.file = f => Waiting(f) = {}
  <2>1. file[v] = f => Alone(v)
    BY <1>3 DEF Alone
  <2> QED
    BY <1>1, <2>1 DEF TextsKept
<1>6. pc[v] # "idle" => file[v] = f
  BY <1>2 DEF UploadsTyped
<1>7. Pushed(v) \/ Accepted(v) => WaitingShrinks(f)
  <2>1. WaitingShrinks(f) \/ \E u \in Uploads : pc[u] = "save" /\ file[u] = f
    BY SaveMakesWait
  <2> QED
    BY <1>3, <2>1 DEF Pushed, Accepted
<1>8. at = "remove" /\ task.file = f => Pushed(v)
  <2> SUFFICES ASSUME at = "remove", task.file = f PROVE Pushed(v)
    OBVIOUS
  <2>1. task \in UpsertTask
    BY DEF WorkerTyped, UpsertSteps
  <2>2. PICK w \in Uploads : file[w] = task.file /\ Pushed(w)
    BY <2>1 DEF TasksArePushed
  <2> QED
    BY <1>3, <2>2
<1>9. pc'[v] = "push" => f \in objects'
  BY <1>4, <1>5, <1>6
<1>10. Accepted(v)' => f \in objects' \/ Waiting(f)' = {}
  <2>1. CASE Accepted(v)
    <3>1. file[v] = f
      BY <1>6, <2>1 DEF Accepted
    <3> QED
      BY <1>4, <1>5, <1>7, <2>1, <3>1 DEF WaitingShrinks
  <2>2. CASE pc[v] = "push"
    BY <1>4, <1>5, <1>6, <2>2
  <2> QED
    BY <1>4, <2>1, <2>2
<1>11. at' = "remove" /\ task'.file = f => Waiting(f)' = {}
  <2>1. Pushed(v) => file[v] = f
    BY <1>2
  <2> QED
    BY <1>1, <1>5, <1>7, <1>8, <2>1 DEF WaitingShrinks
<1> QED
  BY <1>9, <1>10, <1>11

LEMMA WorkKeepsTexts ==
    ASSUME UploadsTyped, WorkerTyped, TasksArePushed, TextsKept, Work \/ Crash
    PROVE  TextsKept'
<1> SUFFICES ASSUME NEW v \in Uploads, NEW f \in Files,
                    file'[v] = f, Alone(v)', "postgres" \notin hit'
             PROVE  /\ pc'[v] = "push" => f \in objects'
                    /\ Accepted(v)' => f \in objects' \/ Waiting(f)' = {}
                    /\ at' = "remove" /\ task'.file = f => Waiting(f)' = {}
  BY DEF TextsKept
<1>1. "postgres" \notin hit
  BY HitGrows DEF Next
<1>2. UNCHANGED <<pc, file>> /\ WaitingShrinks(f)
  BY WorkOutside
<1>3. file[v] = f /\ Alone(v)
  BY <1>2 DEF Alone
<1>4. /\ pc[v] = "push" => f \in objects
      /\ Accepted(v) => f \in objects \/ Waiting(f) = {}
      /\ at = "remove" /\ task.file = f => Waiting(f) = {}
  BY <1>1, <1>3 DEF TextsKept
<1>5. f \in objects => f \in objects' \/ (at = "remove" /\ task.file = f)
  BY DEF Work, Crash, RecoverTask, StopRecovering, FetchTask, Acknowledge, Download, DownloadFails,
         ClearOldVectors, ClearFails, AddBatch, BatchFails, RecordStatus, RecordStatusFails,
         RemoveObject, DropName, DropNameFails, DropDone, Services
<1>6. at = "remove" /\ task.file = f => Pushed(v)
  <2> SUFFICES ASSUME at = "remove", task.file = f PROVE Pushed(v)
    OBVIOUS
  <2>1. task \in UpsertTask
    BY DEF WorkerTyped, UpsertSteps
  <2>2. PICK w \in Uploads : file[w] = task.file /\ Pushed(w)
    BY <2>1 DEF TasksArePushed
  <2> QED
    BY <1>3, <2>2 DEF Alone
<1>7. pc'[v] = "push" => f \in objects'
  BY <1>2, <1>4, <1>5, <1>6 DEF Pushed
<1>8. Accepted(v)' => f \in objects' \/ Waiting(f)' = {}
  BY <1>2, <1>4, <1>5 DEF Accepted, WaitingShrinks
<1>9. at' = "remove" /\ task'.file = f => Waiting(f)' = {}
  <2>1. at' = "remove" => RecordStatus \/ RecordStatusFails
    BY DEF Work, Crash, RecoverTask, StopRecovering, FetchTask, Acknowledge, Rest, Download,
         DownloadFails, ClearOldVectors, ClearFails, AddBatch, BatchFails, RecordStatus,
         RecordStatusFails, RemoveObject, DropName, DropNameFails, DropDone, Settle, To, Idle
  <2>2. ~RecordStatusFails
    BY DEF RecordStatusFails, Hit
  <2>3. RecordStatus => task' = task /\ (f = task.file => Waiting(f)' = {})
    BY AfterVerdict DEF RecordStatus, To
  <2> QED
    BY <2>1, <2>2, <2>3
<1> QED
  BY <1>7, <1>8, <1>9

LEMMA NextKeepsTexts ==
    ASSUME UploadsTyped, WorkerTyped, TasksArePushed, TextsKept, [Next]_vars
    PROVE  TextsKept'
<1>1. CASE UNCHANGED vars
  BY <1>1 DEF vars, uploadVars, workerVars, TextsKept, Alone, Accepted, Waiting, Rows
<1> QED
  BY <1>1, UploadsKeepTexts, WorkKeepsTexts DEF Next, AllEnded

LEMMA NextKeepsRows ==
    ASSUME UploadsTyped, WorkerTyped, RowsFound, [Next]_vars
    PROVE  RowsFound'
<1>1. CASE NextUploads
  <2>1. PICK u \in Uploads : CheckLoaded(u) \/ SeekCheck(u) \/ Announce(u) \/ LaterStep(u)
    BY <1>1 DEF NextUploads, UploadStep, LaterStep
  <2>2. CASE CheckLoaded(u) \/ SeekCheck(u) \/ Announce(u)
    <3>1. /\ pc'[u] \in {"duplicate", "seek", "announce", "dating"}
          /\ \A v \in Uploads \ {u} : pc'[v] = pc[v] /\ row'[v] = row[v]
      BY <2>2 DEF CheckLoaded, SeekCheck, Announce, Goto, UploadsTyped
    <3> QED
      BY <3>1 DEF RowsFound
  <2>3. CASE LaterStep(u)
    <3>1. \A v \in Uploads \ {u} : pc'[v] = pc[v] /\ row'[v] = row[v]
      BY <2>3, LaterStepsMove
    <3>2. pc'[u] \in {"put", "push", "repeal", "delete", "done"} => row'[u] # 0
      <4>1. CASE SaveRow(u)
        <5>1. file[u] \in Files
          BY <4>1 DEF SaveRow, UploadsTyped, Content
        <5>2. SubmittedDocument(file[u]) \in Document /\ Write(u, SubmittedDocument(file[u]))
          BY <4>1, <5>1, SubmittedDocumentTyped DEF SaveRow
        <5>3. row'[u] \in 1 .. Len(documents')
          BY <5>2, AfterWrite
        <5> QED
          BY <5>3
      <4>2. CASE CheckDate(u) \/ MarkOldVersion(u) \/ FindRow(u) \/ PutFails(u) \/ Stop(u)
        <5>1. pc'[u] \in {"old", "submit", "old_version", "save", "stopped"}
          BY <4>2 DEF CheckDate, MarkOldVersion, FindRow, PutFails, Stop, Goto, UploadsTyped
        <5> QED
          BY <5>1
      <4>3. CASE \/ PutObject(u) \/ PushUpsert(u) \/ MarkRepealed(u) \/ PushDelete(u)
                 \/ PushFails(u) \/ MarkRepealedFails(u)
        <5>1. pc[u] \in {"put", "push", "repeal", "delete"} /\ row' = row
          BY <4>3 DEF PutObject, PushUpsert, MarkRepealed, PushDelete, PushFails, MarkRepealedFails
        <5> QED
          BY <5>1 DEF RowsFound
      <4> QED
        BY <2>3, <4>1, <4>2, <4>3 DEF LaterStep
    <3> QED
      BY <3>1, <3>2 DEF RowsFound
  <2> QED
    BY <2>1, <2>2, <2>3
<1>2. CASE Work \/ Crash
  BY <1>2, WorkOutside DEF RowsFound
<1>3. CASE UNCHANGED vars
  BY <1>3 DEF vars, uploadVars, RowsFound
<1> QED
  BY <1>1, <1>2, <1>3 DEF Next, AllEnded

-----------------------------------------------------------------------------
(* The chunks of a document. *)

\* collection.add puts the file's chunks where the cleared index has none.
LEMMA BatchAdded ==
    ASSUME UploadsTyped, WorkerTyped, AddBatch, Filled(task.file, batch)
    PROVE  /\ task' = task /\ Name[task.file] \in Names
           /\ LastBatch => /\ index'[Name[task.file]] = Whole(task.file)
                           /\ at' = "status"
           /\ ~LastBatch => /\ at' = "embed"
                            /\ index'[Name[task.file]]
                                  = [b \in 1 .. Batches |-> IF b < batch' THEN task.file ELSE NoFile]
           /\ \A m \in Names \ {Name[task.file]} : index'[m] = index[m]
<1> DEFINE f == task.file
           n == Name[f]
<1>1. at = "embed" /\ batch \in 1 .. Batches /\ batch \in Nat /\ Batches \in Nat
      /\ task \in UpsertTask
  BY WorkerAssumption DEF AddBatch, WorkerTyped, UpsertSteps
<1>2. f \in Files /\ n \in Names
  BY <1>1, UploadsAssumption DEF UpsertTask
<1>3. task' = task /\ (LastBatch => at' = "status")
      /\ (~LastBatch => at' = "embed" /\ batch' = batch + 1)
  BY DEF AddBatch, Settle, To
<1>4. index[n] = [b \in 1 .. Batches |-> IF b < batch THEN f ELSE NoFile]
  BY DEF Filled
<1>5. index' = [index EXCEPT ![n] = [index[n] EXCEPT ![batch] =
                                        IF index[n][batch] = NoFile THEN f ELSE index[n][batch]]]
  BY DEF AddBatch
<1>6. index \in [Names -> [1 .. Batches -> Content]]
  BY DEF WorkerTyped
<1> HIDE DEF f, n
<1>7. index[n][batch] = NoFile
  BY <1>1, <1>4
<1>8. index'[n] = [index[n] EXCEPT ![batch] = f] /\ \A m \in Names \ {n} : index'[m] = index[m]
  BY <1>2, <1>5, <1>6, <1>7
<1>9. index'[n] = [b \in 1 .. Batches |-> IF b < batch + 1 THEN f ELSE NoFile]
  <2>1. [index[n] EXCEPT ![batch] = f] = [b \in 1 .. Batches |-> IF b = batch THEN f ELSE index[n][b]]
    BY <1>4
  <2>2. \A b \in 1 .. Batches :
          (IF b = batch THEN f ELSE index[n][b]) = IF b < batch + 1 THEN f ELSE NoFile
    BY <1>1, <1>4
  <2> QED
    BY <1>8, <2>1, <2>2
<1>10. CASE LastBatch
  <2>1. \A b \in 1 .. Batches : (IF b < batch + 1 THEN f ELSE NoFile) = f
    BY <1>1, <1>10 DEF LastBatch
  <2>2. index'[n] = Whole(f)
    BY <1>9, <2>1 DEF Whole
  <2> QED
    BY <1>2, <1>3, <1>8, <1>10, <2>2 DEF f, n
<1>11. CASE ~LastBatch
  BY <1>2, <1>3, <1>8, <1>9, <1>11 DEF f, n
<1> QED
  BY <1>10, <1>11

LEMMA NextKeepsChunks ==
    ASSUME UploadsTyped, WorkerTyped, ChunksInIndex, [Next]_vars
    PROVE  ChunksInIndex'
<1> SUFFICES ASSUME "chroma" \notin hit'
             PROVE  /\ at' = "embed" => Filled(task.file, batch)'
                    /\ at' = "status" /\ outcome' = "completed"
                          => index'[Name[task'.file]] = Whole(task'.file)
  BY DEF ChunksInIndex, Whole
<1>1. /\ at = "embed" => Filled(task.file, batch)
      /\ at = "status" /\ outcome = "completed" => index[Name[task.file]] = Whole(task.file)
  BY HitGrows DEF ChunksInIndex
<1>2. CASE UNCHANGED workerVars
  BY <1>1, <1>2 DEF workerVars, Filled
<1>3. CASE ClearOldVectors
  <2>1. at = "clear" /\ at' = "embed" /\ batch' = 1 /\ task' = task
        /\ index' = [index EXCEPT ![Name[task.file]] = Empty]
    BY <1>3 DEF ClearOldVectors, To
  <2>2. task.file \in Files /\ Name[task.file] \in Names
    BY <2>1, UploadsAssumption DEF WorkerTyped, UpsertSteps, UpsertTask
  <2>3. index'[Name[task.file]] = Empty
    BY <2>1, <2>2, EmptyIndex DEF WorkerTyped
  <2>4. \A b \in 1 .. Batches : ~(b < 1)
    BY WorkerAssumption
  <2>5. Empty = [b \in 1 .. Batches |-> IF b < 1 THEN task.file ELSE NoFile]
    BY <2>4 DEF Empty
  <2> QED
    BY <2>1, <2>3, <2>5 DEF Filled
<1>4. CASE AddBatch
  <2>1. at = "embed"
    BY <1>4 DEF AddBatch
  <2> QED
    BY <1>1, <1>4, <2>1, BatchAdded DEF Filled
<1>5. CASE BatchFails \/ ClearFails \/ DownloadFails
  <2>1. at' = "status" /\ outcome' = "error"
    BY <1>5 DEF BatchFails, ClearFails, DownloadFails, Settle, To, Hit
  <2> QED
    BY <2>1
<1>6. CASE \/ RecoverTask \/ StopRecovering \/ FetchTask \/ Acknowledge \/ Download
           \/ RecordStatus \/ RecordStatusFails \/ RemoveObject
           \/ DropName \/ DropNameFails \/ DropDone \/ Crash
  <2>1. at' \notin {"embed", "status"}
    BY <1>6 DEF RecoverTask, StopRecovering, FetchTask, Acknowledge, Rest, Download, RecordStatus,
       RecordStatusFails, RemoveObject, DropName, DropNameFails, DropDone, Crash, To, AfterStatus, Idle
  <2> QED
    BY <2>1
<1> QED
  BY <1>2, <1>3, <1>4, <1>5, <1>6 DEF Next, Work, AllEnded, vars

LEMMA RepealCompletesNothing ==
    ASSUME RowsTyped, NEW n, SetStatus(Unrepealed(n), "repealed"),
           NEW i \in DOMAIN documents, documents[i].status # "completed"
    PROVE  documents'[i].status # "completed"
<1>1. PICK ids : ids = Unrepealed(n)
  OBVIOUS
<1>2. SetStatus(ids, "repealed") /\ (\A j \in ids : documents[j] # NoRow)
  BY <1>1 DEF Unrepealed, Rows
<1>3. IF i \in ids THEN documents'[i].status = "repealed" ELSE documents'[i] = documents[i]
  BY <1>2, StatusesSet DEF Statuses
<1> QED
  BY <1>3

\* No upload makes a row complete.
LEMMA UploadsCompleteNothing ==
    ASSUME UploadsTyped, NextUploads,
           NEW i \in DOMAIN documents, documents[i] # NoRow, documents[i].status # "completed",
           documents'[i] # NoRow
    PROVE  documents'[i].status # "completed"
<1>1. PICK u \in Uploads : CheckLoaded(u) \/ UploadStep(u) \/ PutFails(u) \/ PushFails(u)
                           \/ MarkRepealedFails(u) \/ Stop(u)
  BY DEF NextUploads
<1>2. i \in 1 .. Len(documents) /\ Len(documents) \in Nat /\ documents[i] \in Document
  BY RowAt DEF UploadsTyped
<1>3. CASE Announce(u)
  <2>1. CASE row[u] = 0
    <3>1. pc[u] = "announce" /\ file[u] \in Files
      BY <1>3 DEF Announce, UploadsTyped, Content
    <3>2. NewDocument(file[u]) \in Document
      BY <3>1, NewDocumentTyped
    <3>3. documents' = Append(documents, NewDocument(file[u]))
      BY <1>3, <2>1 DEF Announce
    <3>4. documents'[i] = documents[i]
      BY <3>2, <3>3, RowAdded DEF UploadsTyped
    <3> QED
      BY <3>4
  <2>2. CASE row[u] # 0
    <3>1. documents' = [documents EXCEPT ![row[u]].filename = FileName[file[u]]]
      BY <1>3, <2>2 DEF Announce
    <3>2. documents'[i].status = documents[i].status
      BY <1>2, <3>1 DEF Document
    <3> QED
      BY <3>2
  <2> QED
    BY <2>1, <2>2
<1>4. CASE MarkOldVersion(u) \/ SaveRow(u)
  <2>1. PICK d \in Document : Write(u, d) /\ d.status \in {"old_version", "processing"}
    <3>1. pc[u] \in {"old", "save"} /\ file[u] \in Files
      BY <1>4 DEF MarkOldVersion, SaveRow, UploadsTyped, Content
    <3>2. CASE SaveRow(u)
      BY <3>1, <3>2, SubmittedDocumentTyped DEF SaveRow
    <3>3. CASE MarkOldVersion(u)
      <4>1. PICK k : /\ k = IF row[u] = 0 THEN NewDocument(file[u]) ELSE documents[row[u]]
                     /\ Write(u, [k EXCEPT !.short_name = Name[file[u]],
                                           !.edition = Edition[file[u]], !.status = "old_version"])
        BY <3>3 DEF MarkOldVersion
      <4>2. k \in Document
        <5>1. CASE row[u] = 0
          BY <3>1, <4>1, <5>1, NewDocumentTyped
        <5>2. CASE row[u] # 0
          <6>1. documents[row[u]] # NoRow
            BY <4>1, <5>2 DEF Write
          <6>2. row[u] \in DOMAIN documents
            BY <5>2, LenProperties DEF UploadsTyped, RowsTyped
          <6> QED
            BY <4>1, <5>2, <6>1, <6>2, RowAt DEF UploadsTyped
        <5> QED
          BY <5>1, <5>2
      <4>3. PICK d : d = [k EXCEPT !.short_name = Name[file[u]],
                                   !.edition = Edition[file[u]], !.status = "old_version"]
        OBVIOUS
      <4>4. d \in Document /\ d.status = "old_version"
        BY <3>1, <4>2, <4>3, UploadsAssumption DEF Document, Statuses
      <4> QED
        BY <4>1, <4>3, <4>4
    <3> QED
      BY <1>4, <3>2, <3>3
  <2>2. documents'[row'[u]] = d
        /\ \A j \in DOMAIN documents' :
              j # row'[u] => j \in DOMAIN documents /\ documents'[j] = documents[j]
    BY <2>1, AfterWrite
  <2>3. i \in DOMAIN documents'
    <3>1. RowsTyped' /\ Len(documents') \in Nat /\ Len(documents) <= Len(documents')
      BY <2>1, AfterWrite
    <3>2. DOMAIN documents' = 1 .. Len(documents')
      BY <3>1, LenProperties DEF RowsTyped
    <3> QED
      BY <1>2, <3>1, <3>2
  <2> QED
    BY <2>1, <2>2, <2>3
<1>5. CASE PutFails(u)
  BY <1>2, <1>5 DEF PutFails
<1>6. CASE MarkRepealed(u)
  <2>1. PICK n \in todo[u] : SetStatus(Unrepealed(n), "repealed")
    BY <1>6 DEF MarkRepealed
  <2> QED
    BY <2>1, RepealCompletesNothing DEF UploadsTyped
<1>7. CASE \/ CheckLoaded(u) \/ SeekCheck(u) \/ CheckDate(u) \/ FindRow(u) \/ PutObject(u)
           \/ PushUpsert(u) \/ PushDelete(u) \/ PushFails(u) \/ MarkRepealedFails(u) \/ Stop(u)
  BY <1>7 DEF CheckLoaded, SeekCheck, CheckDate, FindRow, PutObject, PushUpsert, PushDelete,
     PushFails, MarkRepealedFails, Stop
<1> QED
  BY <1>1, <1>3, <1>4, <1>5, <1>6, <1>7 DEF UploadStep

\* The worker completes the rows of its task only.
LEMMA WorkCompletesItsTask ==
    ASSUME UploadsTyped, WorkerTyped, Work \/ Crash,
           NEW i \in DOMAIN documents, NEW f \in Files, Completes(i, f)
    PROVE  at = "status" /\ outcome = "completed" /\ task.file = f
<1>1. documents[i] # NoRow /\ documents[i].hash = Sha256(f) /\ documents[i].status # "completed"
      /\ documents'[i] # NoRow /\ documents'[i].status = "completed"
  BY DEF Completes
<1>2. CASE RecordStatus
  <2>1. at = "status" /\ outcome \in {"completed", "error"}
    BY <1>2 DEF RecordStatus, WorkerTyped
  <2>2. PICK ids : /\ ids = Rows(LAMBDA d : /\ d.hash = Sha256(task.file)
                                            /\ d.status \in {"processing", "checking"})
                   /\ SetStatus(ids, outcome)
    BY <1>2 DEF RecordStatus
  <2>3. \A j \in ids : documents[j] # NoRow /\ documents[j].hash = Sha256(task.file)
    BY <2>2 DEF Rows
  <2>4. IF i \in ids THEN documents'[i].status = outcome ELSE documents'[i] = documents[i]
    <3>1. RowsTyped /\ outcome \in Statuses /\ SetStatus(ids, outcome)
          /\ \A j \in ids : documents[j] # NoRow
      BY <2>1, <2>2, <2>3 DEF UploadsTyped, Statuses
    <3> QED
      BY <3>1, StatusesSet
  <2>5. Sha256(f) = Sha256(task.file) /\ outcome = "completed"
    BY <1>1, <2>3, <2>4
  <2> QED
    BY <2>1, <2>5, HashesApart
<1>3. CASE DropName
  <2>1. PICK n \in left : SetStatus(Unrepealed(n), "repealed")
    BY <1>3 DEF DropName
  <2> QED
    BY <1>1, <2>1, RepealCompletesNothing DEF UploadsTyped
<1>4. CASE ~RecordStatus /\ ~DropName
  <2>1. documents' = documents
    BY <1>4 DEF Work, Crash, RecoverTask, StopRecovering, FetchTask, Acknowledge, Download,
       DownloadFails, ClearOldVectors, ClearFails, AddBatch, BatchFails, RecordStatusFails,
       RemoveObject, DropNameFails, DropDone, Services
  <2> QED
    BY <1>1, <2>1
<1> QED
  BY <1>2, <1>3, <1>4

LEMMA NextCompletesIndexed ==
    ASSUME UploadsTyped, WorkerTyped, ChunksInIndex, [Next]_vars,
           NEW i \in DOMAIN documents, NEW f \in Files, Completes(i, f)
    PROVE  index[Name[f]] = Whole(f) \/ "chroma" \in hit
<1>1. CASE NextUploads
  BY <1>1, UploadsCompleteNothing DEF Completes
<1>2. CASE Work \/ Crash
  BY <1>2, WorkCompletesItsTask DEF ChunksInIndex
<1>3. CASE UNCHANGED vars
  BY <1>3 DEF vars, uploadVars, Completes
<1> QED
  BY <1>1, <1>2, <1>3 DEF Next, AllEnded

LEMMA PrependRanks ==
    ASSUME queue \in Seq(Task), NEW t \in Task, queue' = <<t>> \o queue, NEW n \in Names
    PROVE  /\ QueueTouches(n)' <=> Touches(t, n) \/ QueueTouches(n)
           /\ \A i \in DOMAIN queue' :
                 NewestAt(i, n)' =>
                    IF Touches(t, n) THEN i = 1
                    ELSE i - 1 \in DOMAIN queue /\ queue'[i] = queue[i - 1] /\ NewestAt(i - 1, n)
<1>1. /\ Len(queue) \in Nat /\ DOMAIN queue = 1 .. Len(queue) /\ DOMAIN queue' = 1 .. Len(queue) + 1
      /\ queue'[1] = t
      /\ \A i \in 1 .. Len(queue) : queue'[i + 1] = queue[i]
      /\ \A i \in 2 .. Len(queue) + 1 : i - 1 \in DOMAIN queue /\ queue'[i] = queue[i - 1]
  BY PrependProperties
<1>2. QueueTouches(n)' <=> Touches(t, n) \/ QueueTouches(n)
  <2>1. QueueTouches(n)' <=> \E i \in DOMAIN queue' : Touches(queue'[i], n)
    BY DEF QueueTouches
  <2>2. ASSUME NEW i \in DOMAIN queue', Touches(queue'[i], n)
        PROVE  Touches(t, n) \/ QueueTouches(n)
    <3>1. i = 1 \/ i \in 2 .. Len(queue) + 1
      BY <1>1
    <3> QED
      BY <1>1, <2>2, <3>1 DEF QueueTouches
  <2>3. Touches(t, n) => \E i \in DOMAIN queue' : Touches(queue'[i], n)
    <3>1. 1 \in DOMAIN queue'
      BY <1>1
    <3> QED
      BY <1>1, <3>1
  <2>4. ASSUME NEW i \in DOMAIN queue, Touches(queue[i], n)
        PROVE  \E j \in DOMAIN queue' : Touches(queue'[j], n)
    <3>1. i + 1 \in DOMAIN queue' /\ queue'[i + 1] = queue[i]
      BY <1>1
    <3> QED
      BY <2>4, <3>1
  <2> QED
    BY <2>1, <2>2, <2>3, <2>4 DEF QueueTouches
<1>3. ASSUME NEW i \in DOMAIN queue', NewestAt(i, n)'
      PROVE  IF Touches(t, n) THEN i = 1
             ELSE i - 1 \in DOMAIN queue /\ queue'[i] = queue[i - 1] /\ NewestAt(i - 1, n)
  <2>1. Touches(queue'[i], n) /\ \A j \in 1 .. i - 1 : ~Touches(queue'[j], n)
    BY <1>3 DEF NewestAt
  <2>2. CASE i = 1
    BY <1>1, <2>1, <2>2
  <2>3. CASE i # 1
    <3>1. i \in 2 .. Len(queue) + 1 /\ 1 \in 1 .. i - 1
      BY <1>1, <2>3
    <3>2. ~Touches(t, n) /\ i - 1 \in DOMAIN queue /\ queue'[i] = queue[i - 1]
      BY <1>1, <2>1, <3>1
    <3>3. ASSUME NEW j \in 1 .. (i - 1) - 1 PROVE ~Touches(queue[j], n)
      <4>1. j + 1 \in 1 .. i - 1 /\ j \in 1 .. Len(queue)
        BY <1>1, <3>1
      <4> QED
        BY <1>1, <2>1, <4>1
    <3> QED
      BY <2>1, <3>2, <3>3 DEF NewestAt
  <2> QED
    BY <2>2, <2>3
<1> QED
  BY <1>2, <1>3

\* A new task is the newest for the names it is about.
LEMMA PushRanks ==
    ASSUME UploadsTyped, WorkerTyped, NEW n \in Names, Ranked(n),
           NEW t \in Task, queue' = <<t>> \o queue, UNCHANGED processing,
           Touches(t, n) => /\ asked'[n] # <<>> /\ Last(asked'[n]) = Wants(t)
                            /\ Len(asked'[n]) <= 1 => asked[n] = <<>>,
           ~Touches(t, n) => asked'[n] = asked[n],
           UpsertOf(t, n) => /\ \A i \in DOMAIN queue : queue[i] # t
                             /\ \A i \in DOMAIN processing : processing[i] # t
    PROVE  Ranked(n)'
<1>1. queue \in Seq(Task)
  BY DEF UploadsTyped
<1>2. /\ Len(queue) \in Nat /\ DOMAIN queue = 1 .. Len(queue) /\ DOMAIN queue' = 1 .. Len(queue) + 1
      /\ queue'[1] = t
      /\ \A i \in 2 .. Len(queue) + 1 : i - 1 \in DOMAIN queue /\ queue'[i] = queue[i - 1]
  BY <1>1, PrependProperties
<1>3. /\ QueueTouches(n)' <=> Touches(t, n) \/ QueueTouches(n)
      /\ \A i \in DOMAIN queue' :
            NewestAt(i, n)' =>
               IF Touches(t, n) THEN i = 1
               ELSE i - 1 \in DOMAIN queue /\ queue'[i] = queue[i - 1] /\ NewestAt(i - 1, n)
  BY <1>1, PrependRanks
<1>4. NewestWins(n)'
  <2>1. ASSUME NEW i \in DOMAIN queue', NewestAt(i, n)'
        PROVE  Wants(queue'[i]) = Last(asked'[n])
    BY <1>2, <1>3, <2>1 DEF Ranked, NewestWins
  <2>2. ASSUME ~QueueTouches(n)', NEW i \in DOMAIN processing', Touches(processing'[i], n)
        PROVE  Wants(processing'[i]) = Last(asked'[n])
    BY <1>3, <2>2 DEF Ranked, NewestWins
  <2> QED
    BY <2>1, <2>2 DEF NewestWins
<1>5. TasksWereAsked(n)'
  <2>1. asked'[n] = <<>> => ~QueueTouches(n)'
           /\ \A i \in DOMAIN processing' : ~Touches(processing'[i], n)
    BY <1>3 DEF Ranked, TasksWereAsked
  <2>2. ASSUME Len(asked'[n]) <= 1
        PROVE  /\ \A i, j \in DOMAIN queue' :
                     Touches(queue'[i], n) /\ Touches(queue'[j], n) => i = j
               /\ QueueTouches(n)' => \A i \in DOMAIN processing' : ~Touches(processing'[i], n)
    <3>1. CASE Touches(t, n)
      <4>1. ~QueueTouches(n) /\ \A i \in DOMAIN processing : ~Touches(processing[i], n)
        BY <2>2, <3>1 DEF Ranked, TasksWereAsked
      <4>2. ASSUME NEW i \in DOMAIN queue', Touches(queue'[i], n) PROVE i = 1
        <5>1. i # 1 => i \in 2 .. Len(queue) + 1
          BY <1>2
        <5> QED
          BY <1>2, <4>1, <4>2, <5>1 DEF QueueTouches
      <4> QED
        BY <4>1, <4>2
    <3>2. CASE ~Touches(t, n)
      <4>1. Len(asked[n]) <= 1
        BY <2>2, <3>2
      <4>2. /\ \A i, j \in DOMAIN queue : Touches(queue[i], n) /\ Touches(queue[j], n) => i = j
            /\ QueueTouches(n) => \A i \in DOMAIN processing : ~Touches(processing[i], n)
        BY <4>1 DEF Ranked, TasksWereAsked
      <4>3. ASSUME NEW i \in DOMAIN queue', NEW j \in DOMAIN queue',
                   Touches(queue'[i], n), Touches(queue'[j], n)
            PROVE  i = j
        <5>1. i \in 2 .. Len(queue) + 1 /\ j \in 2 .. Len(queue) + 1
          BY <1>2, <3>2, <4>3
        <5>2. i - 1 = j - 1
          BY <1>2, <4>2, <4>3, <5>1
        <5> QED
          BY <5>1, <5>2
      <4> QED
        BY <1>3, <3>2, <4>2, <4>3
    <3> QED
      BY <3>1, <3>2
  <2> QED
    BY <2>1, <2>2 DEF TasksWereAsked
<1>6. UpsertsApart(n)'
  <2>1. /\ \A i, j \in DOMAIN queue : UpsertOf(queue[i], n) /\ queue[i] = queue[j] => i = j
        /\ \A i \in DOMAIN queue, j \in DOMAIN processing :
              UpsertOf(queue[i], n) => queue[i] # processing[j]
    BY DEF Ranked, UpsertsApart
  <2>2. ASSUME NEW i \in DOMAIN queue', NEW j \in DOMAIN queue',
               UpsertOf(queue'[i], n), queue'[i] = queue'[j]
        PROVE  i = j
    <3>1. CASE i = 1 \/ j = 1
      <4>1. UpsertOf(t, n)
        BY <1>2, <2>2, <3>1
      <4>2. i = 1 \/ i \in 2 .. Len(queue) + 1
        BY <1>2
      <4>3. j = 1 \/ j \in 2 .. Len(queue) + 1
        BY <1>2
      <4> QED
        BY <1>2, <2>2, <3>1, <4>1, <4>2, <4>3
    <3>2. CASE i # 1 /\ j # 1
      <4>1. i \in 2 .. Len(queue) + 1 /\ j \in 2 .. Len(queue) + 1
        BY <1>2, <3>2
      <4>2. i - 1 = j - 1
        BY <1>2, <2>1, <2>2, <4>1
      <4> QED
        BY <4>1, <4>2
    <3> QED
      BY <3>1, <3>2
  <2>3. ASSUME NEW i \in DOMAIN queue', NEW j \in DOMAIN processing', UpsertOf(queue'[i], n)
        PROVE  queue'[i] # processing'[j]
    <3>1. i = 1 \/ i \in 2 .. Len(queue) + 1
      BY <1>2
    <3> QED
      BY <1>2, <2>1, <2>3, <3>1
  <2> QED
    BY <2>2, <2>3 DEF UpsertsApart
<1> QED
  BY <1>4, <1>5, <1>6 DEF Ranked

\* A recovered task goes behind later ones; where only one was asked for, there are none.
LEMMA RecoverRanks ==
    ASSUME UploadsTyped, WorkerTyped, NEW n \in Names, Ranked(n), Len(asked[n]) <= 1,
           NEW t \in Task, processing = <<t>>,
           queue' = <<t>> \o queue, processing' = <<>>, UNCHANGED asked
    PROVE  Ranked(n)'
<1>1. queue \in Seq(Task)
  BY DEF UploadsTyped
<1>2. /\ Len(queue) \in Nat /\ DOMAIN queue = 1 .. Len(queue) /\ DOMAIN queue' = 1 .. Len(queue) + 1
      /\ queue'[1] = t
      /\ \A i \in 2 .. Len(queue) + 1 : i - 1 \in DOMAIN queue /\ queue'[i] = queue[i - 1]
  BY <1>1, PrependProperties
<1>3. /\ QueueTouches(n)' <=> Touches(t, n) \/ QueueTouches(n)
      /\ \A i \in DOMAIN queue' :
            NewestAt(i, n)' =>
               IF Touches(t, n) THEN i = 1
               ELSE i - 1 \in DOMAIN queue /\ queue'[i] = queue[i - 1] /\ NewestAt(i - 1, n)
  BY <1>1, PrependRanks
<1>4. 1 \in DOMAIN processing /\ processing[1] = t /\ DOMAIN processing' = {}
  OBVIOUS
<1>5. /\ Touches(t, n) => ~QueueTouches(n) /\ Wants(t) = Last(asked[n]) /\ asked[n] # <<>>
      /\ UpsertOf(t, n) => \A i \in DOMAIN queue : queue[i] # t
  <2>1. Touches(t, n) => ~QueueTouches(n) /\ asked[n] # <<>>
    BY <1>4 DEF Ranked, TasksWereAsked
  <2>2. Touches(t, n) => Wants(t) = Last(asked[n])
    BY <1>4, <2>1 DEF Ranked, NewestWins
  <2>3. UpsertOf(t, n) => \A i \in DOMAIN queue : queue[i] # t
    BY <1>4 DEF Ranked, UpsertsApart
  <2> QED
    BY <2>1, <2>2, <2>3
<1>6. NewestWins(n)'
  <2>1. ASSUME NEW i \in DOMAIN queue', NewestAt(i, n)'
        PROVE  Wants(queue'[i]) = Last(asked'[n])
    BY <1>2, <1>3, <1>5, <2>1 DEF Ranked, NewestWins
  <2> QED
    BY <1>4, <2>1 DEF NewestWins
<1>7. TasksWereAsked(n)'
  <2>1. asked'[n] = <<>> => ~QueueTouches(n)'
    BY <1>3, <1>5 DEF Ranked, TasksWereAsked
  <2>2. ASSUME NEW i \in DOMAIN queue', NEW j \in DOMAIN queue',
               Touches(queue'[i], n), Touches(queue'[j], n)
        PROVE  i = j
    <3>1. i = 1 \/ i \in 2 .. Len(queue) + 1
      BY <1>2
    <3>2. j = 1 \/ j \in 2 .. Len(queue) + 1
      BY <1>2
    <3>3. CASE Touches(t, n)
      BY <1>2, <1>5, <2>2, <3>1, <3>2, <3>3 DEF QueueTouches
    <3>4. CASE ~Touches(t, n)
      <4>1. i \in 2 .. Len(queue) + 1 /\ j \in 2 .. Len(queue) + 1
        BY <1>2, <2>2, <3>1, <3>2, <3>4
      <4>2. i - 1 = j - 1
        BY <1>2, <2>2, <4>1 DEF Ranked, TasksWereAsked
      <4> QED
        BY <4>1, <4>2
    <3> QED
      BY <3>3, <3>4
  <2> QED
    BY <1>4, <2>1, <2>2 DEF TasksWereAsked
<1>8. UpsertsApart(n)'
  <2>1. ASSUME NEW i \in DOMAIN queue', NEW j \in DOMAIN queue',
               UpsertOf(queue'[i], n), queue'[i] = queue'[j]
        PROVE  i = j
    <3>1. i = 1 \/ i \in 2 .. Len(queue) + 1
      BY <1>2
    <3>2. j = 1 \/ j \in 2 .. Len(queue) + 1
      BY <1>2
    <3>3. CASE i = 1 \/ j = 1
      BY <1>2, <1>5, <2>1, <3>1, <3>2, <3>3
    <3>4. CASE i # 1 /\ j # 1
      <4>1. i - 1 = j - 1
        BY <1>2, <2>1, <3>1, <3>2, <3>4 DEF Ranked, UpsertsApart
      <4> QED
        BY <1>2, <3>1, <3>2, <3>4, <4>1
    <3> QED
      BY <3>3, <3>4
  <2> QED
    BY <1>4, <2>1 DEF UpsertsApart
<1> QED
  BY <1>6, <1>7, <1>8 DEF Ranked

\* The oldest task leaves the queue.
LEMMA FetchRanks ==
    ASSUME UploadsTyped, WorkerTyped, NEW n \in Names, Ranked(n),
           queue # <<>>, processing = <<>>, NEW t, t = Last(queue),
           queue' = Front(queue), processing' = <<t>>, UNCHANGED asked
    PROVE  /\ Ranked(n)'
           /\ QueueTouches(n) <=> QueueTouches(n)' \/ Touches(t, n)
<1>1. /\ Len(queue) \in Nat \ {0} /\ DOMAIN queue = 1 .. Len(queue)
      /\ DOMAIN queue' = 1 .. Len(queue) - 1 /\ t = queue[Len(queue)]
      /\ \A i \in 1 .. Len(queue) - 1 : queue'[i] = queue[i]
  BY FrontKeeps DEF UploadsTyped
<1>2. DOMAIN processing' = {1} /\ processing'[1] = t
  OBVIOUS
<1>3. \A i \in DOMAIN queue' : i \in DOMAIN queue /\ queue'[i] = queue[i] /\ i # Len(queue)
  BY <1>1
<1>4. Len(queue) \in DOMAIN queue
  BY <1>1
<1>5. QueueTouches(n) <=> QueueTouches(n)' \/ Touches(t, n)
  <2>1. ASSUME NEW i \in DOMAIN queue, Touches(queue[i], n)
        PROVE  QueueTouches(n)' \/ Touches(t, n)
    <3>1. i = Len(queue) \/ i \in DOMAIN queue'
      BY <1>1
    <3> QED
      BY <1>1, <1>3, <2>1, <3>1 DEF QueueTouches
  <2> QED
    BY <1>1, <1>3, <1>4, <2>1 DEF QueueTouches
<1>6. \A i \in DOMAIN queue' : NewestAt(i, n)' => NewestAt(i, n)
  <2>1. ASSUME NEW i \in DOMAIN queue', NewestAt(i, n)' PROVE NewestAt(i, n)
    <3>1. Touches(queue'[i], n) /\ \A j \in 1 .. i - 1 : ~Touches(queue'[j], n)
      BY <2>1 DEF NewestAt
    <3>2. \A j \in 1 .. i - 1 : j \in DOMAIN queue'
      BY <1>1
    <3> QED
      BY <1>3, <3>1, <3>2 DEF NewestAt
  <2> QED
    BY <2>1
<1>7. ASSUME ~QueueTouches(n)', Touches(t, n)
      PROVE  NewestAt(Len(queue), n)
  <2>1. \A j \in 1 .. Len(queue) - 1 : ~Touches(queue[j], n)
    BY <1>1, <1>7 DEF QueueTouches
  <2> QED
    BY <1>1, <1>7, <2>1 DEF NewestAt
<1>8. NewestWins(n)'
  <2>1. \A i \in DOMAIN queue' : NewestAt(i, n)' => Wants(queue'[i]) = Last(asked'[n])
    BY <1>3, <1>6 DEF Ranked, NewestWins
  <2>2. ~QueueTouches(n)' /\ Touches(t, n) => Wants(t) = Last(asked'[n])
    BY <1>1, <1>4, <1>7 DEF Ranked, NewestWins
  <2> QED
    BY <1>2, <2>1, <2>2 DEF NewestWins
<1>9. TasksWereAsked(n)'
  <2>1. asked'[n] = <<>> => ~QueueTouches(n)' /\ ~Touches(t, n)
    BY <1>5 DEF Ranked, TasksWereAsked
  <2>2. ASSUME Len(asked'[n]) <= 1
        PROVE  /\ \A i, j \in DOMAIN queue' :
                     Touches(queue'[i], n) /\ Touches(queue'[j], n) => i = j
               /\ QueueTouches(n)' => ~Touches(t, n)
    <3>1. \A i, j \in DOMAIN queue : Touches(queue[i], n) /\ Touches(queue[j], n) => i = j
      BY <2>2 DEF Ranked, TasksWereAsked
    <3> QED
      BY <1>1, <1>3, <1>4, <3>1 DEF QueueTouches
  <2> QED
    BY <1>2, <2>1, <2>2 DEF TasksWereAsked
<1>10. UpsertsApart(n)'
  <2>1. \A i, j \in DOMAIN queue : UpsertOf(queue[i], n) /\ queue[i] = queue[j] => i = j
    BY DEF Ranked, UpsertsApart
  <2> QED
    BY <1>1, <1>2, <1>3, <1>4, <2>1 DEF UpsertsApart
<1> QED
  BY <1>5, <1>8, <1>9, <1>10 DEF Ranked

\* The only task leaves the processing list.
LEMMA AckRanks ==
    ASSUME NEW n \in Names, Ranked(n), processing' = <<>>, UNCHANGED <<queue, asked>>
    PROVE  Ranked(n)' /\ (QueueTouches(n)' <=> QueueTouches(n))
<1>1. DOMAIN processing' = {}
  OBVIOUS
<1>2. \A i : NewestAt(i, n)' <=> NewestAt(i, n)
  BY DEF NewestAt
<1>3. QueueTouches(n)' <=> QueueTouches(n)
  BY DEF QueueTouches
<1>4. NewestWins(n)' /\ TasksWereAsked(n)' /\ UpsertsApart(n)'
  BY <1>1, <1>2, <1>3 DEF Ranked, NewestWins, TasksWereAsked, UpsertsApart
<1> QED
  BY <1>3, <1>4 DEF Ranked

LEMMA SameRanks ==
    ASSUME NEW n \in Names, Ranked(n), UNCHANGED <<queue, processing, asked>>
    PROVE  Ranked(n)' /\ (QueueTouches(n)' <=> QueueTouches(n))
<1>1. \A i : NewestAt(i, n)' <=> NewestAt(i, n)
  BY DEF NewestAt
<1>2. QueueTouches(n)' <=> QueueTouches(n)
  BY DEF QueueTouches
<1>3. NewestWins(n)' /\ TasksWereAsked(n)' /\ UpsertsApart(n)'
  BY <1>1, <1>2 DEF Ranked, NewestWins, TasksWereAsked, UpsertsApart
<1> QED
  BY <1>2, <1>3 DEF Ranked

-----------------------------------------------------------------------------
(* The worker and its task. *)

LEMMA TaskKinds ==
    ASSUME NEW t \in Task
    PROVE  /\ t.action = "upsert" <=> t \in UpsertTask
           /\ t.action = "upsert" => t.file \in Files /\ Name[t.file] \in Names
           /\ t.action = "delete" <=> t \in DeleteTask
           /\ t.action = "upsert" \/ t.action = "delete"
           /\ ~(t.action = "upsert" /\ t.action = "delete")
           /\ t.action = "delete" => t.names \in SUBSET Names
  BY UploadsAssumption DEF Task, UpsertTask, DeleteTask

\* What a task of either kind is about.
LEMMA TaskAbout ==
    ASSUME NEW t \in Task, NEW n
    PROVE  /\ UpsertOf(t, n) => Touches(t, n) /\ Wants(t) = t.file /\ t.file \in Files
                                /\ t \in UpsertTask /\ Name[t.file] = n
           /\ t.action = "upsert" /\ Touches(t, n) => UpsertOf(t, n)
           /\ t.action = "delete" => /\ Touches(t, n) <=> n \in t.names
                                     /\ Wants(t) = NoFile /\ ~UpsertOf(t, n)
  BY TaskKinds DEF UpsertOf, Touches, Wants

LEMMA NextKeepsNames ==
    ASSUME UploadsTyped, WorkerTyped, DropsItsNames, [Next]_vars
    PROVE  DropsItsNames'
<1> SUFFICES ASSUME at' = "drop" PROVE left' \subseteq task'.names
  BY DEF DropsItsNames
<1>1. CASE FetchTask
  <2>1. Last(queue) \in Task
    BY <1>1, FetchTakes
  <2>2. /\ task' = Last(queue)
        /\ left' = IF Last(queue).action = "delete" THEN Last(queue).names ELSE {}
        /\ at' = IF Last(queue).action = "upsert" THEN "download" ELSE "drop"
    BY <1>1 DEF FetchTask
  <2> QED
    BY <2>1, <2>2, TaskKinds
<1>2. CASE UNCHANGED <<at, task>> /\ left' \subseteq left
  BY <1>2 DEF DropsItsNames
<1>3. CASE DropName \/ DropNameFails
  <2>1. UNCHANGED <<at, task>> /\ left' \subseteq left
    BY <1>3 DEF DropName, DropNameFails
  <2> QED
    BY <1>2, <2>1
<1>4. CASE UNCHANGED workerVars \/ RecoverTask
  <2>1. UNCHANGED <<at, task>> /\ left' \subseteq left
    BY <1>4 DEF workerVars, RecoverTask, Progress
  <2> QED
    BY <1>2, <2>1
<1>5. CASE \/ StopRecovering \/ Acknowledge \/ Download \/ DownloadFails \/ ClearOldVectors
           \/ ClearFails \/ AddBatch \/ BatchFails \/ RecordStatus \/ RecordStatusFails
           \/ RemoveObject \/ DropDone \/ Crash
  <2>1. at' # "drop"
    BY <1>5 DEF StopRecovering, Acknowledge, Rest, Download, DownloadFails, ClearOldVectors,
       ClearFails, AddBatch, BatchFails, RecordStatus, RecordStatusFails, RemoveObject, DropDone,
       Crash, To, Settle, AfterStatus, Idle
  <2> QED
    BY <2>1
<1> QED
  BY <1>1, <1>3, <1>4, <1>5 DEF Next, Work, AllEnded, vars

\* The steps between the fetch of a task and its end.
Inside ==
    \/ Download \/ DownloadFails \/ ClearOldVectors \/ ClearFails \/ AddBatch \/ BatchFails
    \/ RecordStatus \/ RecordStatusFails \/ RemoveObject \/ DropName \/ DropNameFails \/ DropDone

LEMMA InsideKeeps ==
    ASSUME WorkerTyped, Inside
    PROVE  /\ UNCHANGED <<queue, processing, asked, task, crashes>>
           /\ at \in UpsertSteps \union {"drop"} /\ at' \in UpsertSteps \union {"drop", "ack"}
           /\ task \in Task
<1>1. UNCHANGED <<queue, processing, asked, task, crashes>>
  BY DEF Inside, Download, DownloadFails, ClearOldVectors, ClearFails, AddBatch, BatchFails,
     RecordStatus, RecordStatusFails, RemoveObject, DropName, DropNameFails, DropDone, To, Settle,
     Services, uploadsOnly
<1>2. at \in UpsertSteps \union {"drop"}
  BY DEF Inside, Download, DownloadFails, ClearOldVectors, ClearFails, AddBatch, BatchFails,
     RecordStatus, RecordStatusFails, RemoveObject, DropName, DropNameFails, DropDone, UpsertSteps
<1>3. at' \in UpsertSteps \union {"drop", "ack"}
  BY DEF Inside, Download, DownloadFails, ClearOldVectors, ClearFails, AddBatch, BatchFails,
     RecordStatus, RecordStatusFails, RemoveObject, DropName, DropNameFails, DropDone, To, Settle,
     AfterStatus, UpsertSteps
<1> QED
  BY <1>1, <1>2, <1>3 DEF WorkerTyped, UpsertSteps, Task

LEMMA HoldsCases ==
    ASSUME WorkerTyped, HoldsItsTask, hit = {}
    PROVE  /\ at = Idle => processing = <<>>
           /\ at = "recover" => processing = <<>> \/ (Len(processing) = 1 /\ crashes > 0)
           /\ at \notin {Idle, "recover"} => processing = <<task>>
  BY DEF HoldsItsTask, Idle

LEMMA HoldsAt ==
    ASSUME /\ at' = Idle => processing' = <<>>
           /\ at' = "recover" => processing' = <<>> \/ (Len(processing') = 1 /\ crashes' > 0)
           /\ at' \notin {Idle, "recover"} => processing' = <<task'>>
    PROVE  HoldsItsTask'
  BY DEF HoldsItsTask, Idle

LEMMA RecoverOne ==
    ASSUME UploadsTyped, WorkerTyped, HoldsItsTask, hit = {}, RecoverTask
    PROVE  /\ crashes > 0 /\ at = "recover" /\ at' = "recover"
           /\ \E t \in Task : /\ processing = <<t>> /\ processing' = <<>>
                              /\ queue' = <<t>> \o queue
<1>1. at = "recover" /\ at' = "recover" /\ processing # <<>> /\ processing' = Front(processing)
      /\ queue' = <<Last(processing)>> \o queue
  BY DEF RecoverTask
<1>2. crashes > 0 /\ Len(processing) = 1
  BY <1>1, HoldsCases
<1>3. processing \in Seq(Task)
  BY DEF WorkerTyped
<1>4. Front(processing) \in Seq(Task) /\ Len(Front(processing)) = 0
      /\ Last(processing) = processing[1] /\ Last(processing) \in Task
  <2>1. processing # <<>> /\ Len(processing) - 1 = 0
    BY <1>1, <1>2
  <2> QED
    BY ONLY <1>2, <1>3, <2>1, FrontKeeps
<1>5. processing' = <<>>
  BY <1>1, <1>4, EmptySeq
<1>6. processing = <<processing[1]>>
  BY <1>2, <1>3
<1> QED
  BY <1>1, <1>2, <1>4, <1>5, <1>6

LEMMA FetchOne ==
    ASSUME UploadsTyped, WorkerTyped, HoldsItsTask, hit = {}, FetchTask
    PROVE  /\ processing = <<>> /\ queue # <<>> /\ task' = Last(queue) /\ task' \in Task
           /\ processing' = <<task'>> /\ queue' = Front(queue)
           /\ at' = IF task'.action = "upsert" THEN "download" ELSE "drop"
           /\ left' = IF task'.action = "delete" THEN task'.names ELSE {}
           /\ UNCHANGED <<objects, index, asked, crashes>>
<1>1. at = Idle /\ queue # <<>>
  BY DEF FetchTask
<1>2. processing = <<>>
  BY <1>1, HoldsCases
<1>3. task' = Last(queue) /\ Last(queue) \in Task /\ queue' = Front(queue)
      /\ processing' = <<task'>> \o processing
  BY FetchTakes
<1>4. processing' = <<task'>>
  BY <1>2, <1>3
<1>5. /\ at' = IF task'.action = "upsert" THEN "download" ELSE "drop"
      /\ left' = IF task'.action = "delete" THEN task'.names ELSE {}
      /\ UNCHANGED <<objects, index, asked, crashes>>
  BY <1>3 DEF FetchTask, uploadsOnly
<1> QED
  BY <1>1, <1>2, <1>3, <1>4, <1>5

LEMMA AckOne ==
    ASSUME UploadsTyped, WorkerTyped, HoldsItsTask, hit = {}, hit' = {}, Acknowledge
    PROVE  /\ at = "ack" /\ at' = Idle /\ processing = <<task>> /\ processing' = <<>> /\ task \in Task
           /\ UNCHANGED <<queue, asked, objects, index, crashes>>
<1>1. at = "ack" /\ at' = Idle /\ UNCHANGED <<queue, asked, objects, index, crashes>>
  BY DEF Acknowledge, Rest, uploadsOnly
<1>2. processing = <<task>> /\ task \in Task
  BY <1>1, HoldsCases DEF WorkerTyped, Idle
<1>3. processing' = RemoveFirst(processing, task)
  BY DEF Acknowledge, Hit
<1> QED
  BY <1>1, <1>2, <1>3, RemoveOnly

LEMMA NextKeepsHolds ==
    ASSUME UploadsTyped, WorkerTyped, HoldsItsTask, [Next]_vars
    PROVE  HoldsItsTask'
<1> SUFFICES ASSUME hit' = {} PROVE HoldsItsTask'
  BY DEF HoldsItsTask
<1>1. hit = {}
  BY HitGrows
<1>2. CASE UNCHANGED workerVars
  BY <1>1, <1>2, HoldsCases, HoldsAt DEF workerVars
<1>3. CASE RecoverTask
  BY <1>1, <1>3, RecoverOne, HoldsAt DEF Idle
<1>4. CASE StopRecovering
  <2>1. at' = Idle /\ processing = <<>> /\ processing' = processing
    BY <1>4 DEF StopRecovering, Hit, Services
  <2> QED
    BY <2>1, HoldsAt DEF Idle
<1>5. CASE FetchTask
  <2>1. processing' = <<task'>> /\ at' \in {"download", "drop"}
    BY <1>1, <1>5, FetchOne
  <2> QED
    BY <2>1, HoldsAt DEF Idle
<1>6. CASE Acknowledge
  BY <1>1, <1>6, AckOne, HoldsAt DEF Idle
<1>7. CASE Inside
  <2>1. UNCHANGED <<processing, task>> /\ at \notin {Idle, "recover"} /\ at' \notin {Idle, "recover"}
    BY <1>7, InsideKeeps DEF Idle, UpsertSteps
  <2> QED
    BY <1>1, <2>1, HoldsCases, HoldsAt
<1>8. CASE Crash
  <2>1. at' = "recover" /\ processing' = processing /\ crashes' = crashes + 1 /\ crashes \in Nat
    BY <1>8 DEF Crash, Services, WorkerTyped
  <2>2. processing = <<>> \/ Len(processing) = 1
    BY <1>1, HoldsCases
  <2> QED
    BY <2>1, <2>2, HoldsAt DEF Idle
<1> QED
  BY <1>2, <1>3, <1>4, <1>5, <1>6, <1>7, <1>8 DEF Next, Work, Inside, AllEnded, vars

-----------------------------------------------------------------------------
(* The order of the tasks, step by step. *)

LEMMA CalmBefore ==
    ASSUME UploadsTyped, WorkerTyped, [Next]_vars, NEW n \in Names, Calm(n)'
    PROVE  Calm(n) /\ hit = {} /\ hit' = {} /\ (crashes' = 0 \/ Len(asked'[n]) <= 1)
<1>1. hit' = {} /\ (crashes' = 0 \/ Len(asked'[n]) <= 1) /\ UploadedOnce(n)'
  BY DEF Calm
<1>2. hit = {}
  BY <1>1, HitGrows
<1>3. crashes' = 0 => crashes = 0
  <2>1. crashes' = crashes \/ crashes' = crashes + 1
    <3>1. CASE NextUploads /\ UNCHANGED workerVars
      BY <3>1 DEF workerVars
    <3>2. CASE Work
      BY <3>2 DEF Work, RecoverTask, StopRecovering, FetchTask, Acknowledge, Download, DownloadFails,
         ClearOldVectors, ClearFails, AddBatch, BatchFails, RecordStatus, RecordStatusFails,
         RemoveObject, DropName, DropNameFails, DropDone, To, Settle
    <3>3. CASE Crash
      BY <3>3 DEF Crash
    <3>4. CASE UNCHANGED vars
      BY <3>4 DEF vars, workerVars
    <3> QED
      BY <3>1, <3>2, <3>3, <3>4 DEF Next, AllEnded
  <2> QED
    BY <2>1 DEF WorkerTyped
<1>4. Len(asked'[n]) <= 1 => Len(asked[n]) <= 1
  <2>1. asked[n] \in Seq(Content) /\ Len(asked[n]) \in Nat
    BY LenProperties DEF UploadsTyped
  <2>2. CASE NextUploads
    <3>1. CASE asked' = asked
      BY <3>1
    <3>2. CASE \E u \in Uploads : PushUpsert(u) \/ PushDelete(u)
      <4>1. PICK u \in Uploads : PushUpsert(u) \/ PushDelete(u)
        BY <3>2
      <4>2. file[u] \in Content /\ NoFile \in Content
        BY <4>1 DEF UploadsTyped, Content
      <4>3. asked'[n] = asked[n] \/ Len(asked'[n]) = Len(asked[n]) + 1
        <5>1. CASE PushUpsert(u)
          <6>1. Ask({Name[file[u]]}, file[u])
            BY <5>1 DEF PushUpsert
          <6> QED
            BY <4>2, <6>1, AskKeepsTypes
        <5>2. CASE PushDelete(u)
          <6>1. Ask(Repeals[file[u]], NoFile)
            BY <5>2 DEF PushDelete
          <6> QED
            BY <4>2, <6>1, AskKeepsTypes
        <5> QED
          BY <4>1, <5>1, <5>2
      <4> QED
        BY <2>1, <4>3
    <3> QED
      BY <2>2, <3>1, <3>2, QueueGrows
  <2>3. CASE Work \/ Crash
    BY <2>3, WorkOutside
  <2>4. CASE UNCHANGED vars
    BY <2>4 DEF vars, uploadVars
  <2> QED
    BY <2>2, <2>3, <2>4 DEF Next, AllEnded
<1>5. UploadedOnce(n)
  <2>1. \A v \in Uploads : file[v] # NoFile => file'[v] = file[v]
    <3>1. CASE NextUploads
      BY <3>1, FilesStay
    <3>2. CASE Work \/ Crash
      BY <3>2, WorkOutside
    <3>3. CASE UNCHANGED vars
      BY <3>3 DEF vars, uploadVars
    <3> QED
      BY <3>1, <3>2, <3>3 DEF Next, AllEnded
  <2> QED
    BY <1>1, <2>1 DEF UploadedOnce
<1> QED
  BY <1>1, <1>2, <1>3, <1>4, <1>5 DEF Calm

\* Where the lists stay, what is said of text and index depends on little.
LEMMA SameCurrent ==
    ASSUME NEW n \in Names, Ranked(n), Current(n),
           UNCHANGED <<queue, processing, asked, at, task, left, crashes>>,
           index'[n] = index[n], objects \subseteq objects'
    PROVE  Current(n)'
<1>1. QueueTouches(n)' <=> QueueTouches(n)
  BY SameRanks
<1>2. TaskHasText(n)'
  BY DEF Current, TaskHasText
<1>3. WorkerOn(n)'
  BY DEF Current, WorkerOn
<1>4. IndexIsCurrent(n)'
  BY <1>1 DEF Current, IndexIsCurrent
<1> QED
  BY <1>2, <1>3, <1>4 DEF Current

LEMMA AskedNothing ==
    ASSUME UploadsTyped, NEW n \in Names,
           Len(asked'[n]) = Len(asked[n]) + 1, Len(asked'[n]) <= 1
    PROVE  asked[n] = <<>>
<1>1. asked[n] \in Seq(Content) /\ Len(asked[n]) \in Nat
  BY LenProperties DEF UploadsTyped
<1>2. Len(asked[n]) = 0
  BY <1>1
<1> QED
  BY <1>1, <1>2, EmptySeq

\* The task of a submission is new, and its text is stored.
LEMMA PushedIsNew ==
    ASSUME UploadsTyped, TasksArePushed, TextsKept, NEW u \in Uploads, PushUpsert(u),
           NEW n, n = Name[file[u]], UploadedOnce(n), hit = {},
           NEW t, t = [action |-> "upsert", file |-> file[u]]
    PROVE  /\ \A i \in DOMAIN queue : queue[i] # t
           /\ \A i \in DOMAIN processing : processing[i] # t
           /\ file[u] \in objects
<1>1. pc[u] = "push" /\ file[u] \in Files
  BY DEF PushUpsert, UploadsTyped, Content
<1>2. \A v \in Uploads \ {u} : file[v] # file[u]
  BY <1>1 DEF UploadedOnce, UploadsTyped
<1>3. file[u] \in objects
  BY <1>1, <1>2 DEF TextsKept, Alone
<1>4. t \in UpsertTask /\ t.file = file[u]
  BY <1>1 DEF UpsertTask
<1>5. t \notin ToSet(queue) \union ToSet(processing)
  <2>1. SUFFICES ASSUME t \in ToSet(queue) \union ToSet(processing) PROVE FALSE
    OBVIOUS
  <2>2. PICK v \in Uploads : file[v] = t.file /\ Pushed(v)
    BY <1>4, <2>1 DEF TasksArePushed
  <2>3. v = u
    BY <1>2, <1>4, <2>2
  <2> QED
    BY <1>1, <2>2, <2>3 DEF Pushed
<1> QED
  BY <1>3, <1>5 DEF ToSet

LEMMA PushKeepsOrder ==
    ASSUME UploadsTyped, WorkerTyped, UNCHANGED workerVars, objects \subseteq objects',
           NEW n \in Names, Ranked(n), Current(n),
           NEW t \in Task, queue' = <<t>> \o queue,
           Touches(t, n) => /\ asked'[n] # <<>> /\ Last(asked'[n]) = Wants(t)
                            /\ Len(asked'[n]) <= 1 => asked[n] = <<>>,
           ~Touches(t, n) => asked'[n] = asked[n],
           UpsertOf(t, n) => /\ \A i \in DOMAIN queue : queue[i] # t
                             /\ \A i \in DOMAIN processing : processing[i] # t
                             /\ t.file \in objects
    PROVE  Ranked(n)' /\ Current(n)'
<1>1. UNCHANGED <<processing, index, at, task, left, crashes>>
  BY DEF workerVars
<1>2. Ranked(n)'
  BY <1>1, PushRanks
<1>3. /\ Len(queue) \in Nat /\ DOMAIN queue = 1 .. Len(queue) /\ DOMAIN queue' = 1 .. Len(queue) + 1
      /\ queue'[1] = t
      /\ \A i \in 2 .. Len(queue) + 1 : i - 1 \in DOMAIN queue /\ queue'[i] = queue[i - 1]
  BY PrependProperties DEF UploadsTyped
<1>4. TaskHasText(n)'
  <2>1. ASSUME NEW i \in DOMAIN queue', UpsertOf(queue'[i], n)
        PROVE  \/ queue'[i].file \in objects'
               \/ crashes' > 0 /\ index'[n] = Whole(queue'[i].file)
    <3>1. CASE i = 1
      BY <1>3, <2>1, <3>1
    <3>2. CASE i # 1
      <4>1. i \in 2 .. Len(queue) + 1
        BY <1>3, <3>2
      <4>2. i - 1 \in DOMAIN queue /\ queue'[i] = queue[i - 1]
        BY <1>3, <4>1
      <4> QED
        BY <1>1, <2>1, <4>2 DEF Current, TaskHasText
    <3> QED
      BY <3>1, <3>2
  <2>2. ASSUME NEW i \in DOMAIN processing', UpsertOf(processing'[i], n)
        PROVE  \/ processing'[i].file \in objects'
               \/ index'[n] = Whole(processing'[i].file) /\ (at' = "ack" \/ crashes' > 0)
    BY <1>1, <2>2 DEF Current, TaskHasText
  <2> QED
    BY <2>1, <2>2 DEF TaskHasText, Whole
<1>5. WorkerOn(n)'
  BY <1>1 DEF Current, WorkerOn, Whole, Empty
<1>6. IndexIsCurrent(n)'
  <2>1. QueueTouches(n)' <=> Touches(t, n) \/ QueueTouches(n)
    BY PrependRanks DEF UploadsTyped
  <2> QED
    BY <1>1, <2>1 DEF Current, IndexIsCurrent, Whole
<1> QED
  BY <1>2, <1>4, <1>5, <1>6 DEF Current

LEMMA UploadsKeepOrder ==
    ASSUME UploadsTyped, WorkerTyped, TasksArePushed, TextsKept, NextUploads, UNCHANGED workerVars,
           NEW n \in Names, Calm(n), Ranked(n), Current(n)
    PROVE  Ranked(n)' /\ Current(n)'
<1>1. objects \subseteq objects'
  BY PushedAfterPut
<1>2. CASE queue' = queue /\ asked' = asked
  <2>1. UNCHANGED <<queue, processing, asked, at, task, left, crashes, index>>
    BY <1>2 DEF workerVars
  <2>2. Ranked(n)'
    BY <2>1, SameRanks
  <2> QED
    BY <1>1, <2>1, <2>2, SameCurrent
<1>3. ASSUME NEW u \in Uploads, NEW t \in Task, queue' = <<t>> \o queue,
             PushUpsert(u), t = [action |-> "upsert", file |-> file[u]]
      PROVE  Ranked(n)' /\ Current(n)'
  <2>1. file[u] \in Files /\ t.action = "upsert" /\ t.file = file[u]
    BY <1>3 DEF PushUpsert, UploadsTyped, Content
  <2>2. Ask({Name[file[u]]}, file[u])
    BY <1>3 DEF PushUpsert
  <2>3. Touches(t, n) <=> n = Name[file[u]]
    BY <2>1 DEF Touches
  <2>4. Wants(t) = file[u]
    BY <2>1 DEF Wants
  <2>5. IF n = Name[file[u]]
           THEN /\ Len(asked'[n]) = Len(asked[n]) + 1 /\ asked'[n] # <<>>
                /\ Last(asked'[n]) = file[u]
           ELSE asked'[n] = asked[n]
    BY <2>1, <2>2, AskKeepsTypes DEF Content
  <2>6. Len(asked'[n]) = Len(asked[n]) + 1 /\ Len(asked'[n]) <= 1 => asked[n] = <<>>
    BY AskedNothing
  <2>7. UpsertOf(t, n) => /\ \A i \in DOMAIN queue : queue[i] # t
                          /\ \A i \in DOMAIN processing : processing[i] # t
                          /\ t.file \in objects
    <3>1. UpsertOf(t, n) => n = Name[file[u]]
      BY <2>1 DEF UpsertOf
    <3>2. UploadedOnce(n) /\ hit = {}
      BY DEF Calm
    <3> QED
      BY <1>3, <2>1, <3>1, <3>2, PushedIsNew
  <2> QED
    BY <1>1, <1>3, <2>3, <2>4, <2>5, <2>6, <2>7, PushKeepsOrder
<1>4. ASSUME NEW u \in Uploads, NEW t \in Task, queue' = <<t>> \o queue,
             PushDelete(u), t = [action |-> "delete", names |-> Repeals[file[u]]]
      PROVE  Ranked(n)' /\ Current(n)'
  <2>1. t.action = "delete" /\ t.names = Repeals[file[u]]
    BY <1>4
  <2>2. Ask(Repeals[file[u]], NoFile)
    BY <1>4 DEF PushDelete
  <2>3. (Touches(t, n) <=> n \in Repeals[file[u]]) /\ Wants(t) = NoFile /\ ~UpsertOf(t, n)
    BY <2>1, TaskAbout
  <2>4. IF n \in Repeals[file[u]]
           THEN /\ Len(asked'[n]) = Len(asked[n]) + 1 /\ asked'[n] # <<>>
                /\ Last(asked'[n]) = NoFile
           ELSE asked'[n] = asked[n]
    BY <2>2, AskKeepsTypes DEF Content
  <2>5. Len(asked'[n]) = Len(asked[n]) + 1 /\ Len(asked'[n]) <= 1 => asked[n] = <<>>
    BY AskedNothing
  <2> QED
    BY <1>1, <1>4, <2>3, <2>4, <2>5, PushKeepsOrder
<1> QED
  BY <1>2, <1>3, <1>4, QueueGrows

LEMMA SingleList ==
    ASSUME NEW t, processing = <<t>>
    PROVE  DOMAIN processing = {1} /\ processing[1] = t
  OBVIOUS

\* While the worker has a task about n and the name is in order, the texts of the queued
\* documents of that name are stored, and none of them is the task itself.
LEMMA QueueHasText ==
    ASSUME UploadsTyped, WorkerTyped, NEW n \in Names, Calm(n), Ranked(n), Current(n),
           processing = <<task>>, task \in Task, Touches(task, n)
    PROVE  \A i \in DOMAIN queue :
              UpsertOf(queue[i], n) => /\ queue[i].file \in objects
                                       /\ task.action = "upsert" => queue[i].file # task.file
<1> SUFFICES ASSUME NEW i \in DOMAIN queue, UpsertOf(queue[i], n)
             PROVE  /\ queue[i].file \in objects
                    /\ task.action = "upsert" => queue[i].file # task.file
  OBVIOUS
<1>1. DOMAIN processing = {1} /\ processing[1] = task
  BY SingleList
<1>2. queue[i] \in Task
  BY DEF UploadsTyped
<1>3. Touches(queue[i], n) /\ queue[i] \in UpsertTask
  BY <1>2, TaskAbout
<1>4. QueueTouches(n)
  BY <1>3 DEF QueueTouches
<1>5. ~(Len(asked[n]) <= 1)
  BY <1>1, <1>4 DEF Ranked, TasksWereAsked
<1>6. crashes = 0
  BY <1>5 DEF Calm
<1>7. queue[i].file \in objects
  BY <1>6 DEF Current, TaskHasText
<1>8. ASSUME task.action = "upsert" PROVE queue[i].file # task.file
  <2>1. queue[i] # task
    BY <1>1 DEF Ranked, UpsertsApart
  <2>2. task \in UpsertTask
    BY <1>8, TaskKinds
  <2> QED
    BY <1>3, <2>1, <2>2 DEF UpsertTask
<1> QED
  BY <1>7, <1>8

LEMMA WorkIndexes ==
    ASSUME UploadsTyped, WorkerTyped, DropsItsNames, Inside, hit' = {}
    PROVE  \A n \in Names : ~Touches(task, n) => index'[n] = index[n]
<1> SUFFICES ASSUME NEW n \in Names, ~Touches(task, n) PROVE index'[n] = index[n]
  OBVIOUS
<1>1. task \in Task
  BY InsideKeeps
<1>2. CASE ClearOldVectors \/ AddBatch \/ BatchFails
  <2>1. task \in UpsertTask
    BY <1>2 DEF ClearOldVectors, AddBatch, BatchFails, WorkerTyped, UpsertSteps
  <2>2. task.action = "upsert" /\ Name[task.file] \in Names
    BY <1>1, <2>1, TaskKinds
  <2>3. Name[task.file] # n
    BY <2>2 DEF Touches
  <2>4. index' = index \/ (\E x : index' = [index EXCEPT ![Name[task.file]] = x])
    BY <1>2 DEF ClearOldVectors, AddBatch, BatchFails
  <2> QED
    BY <2>2, <2>3, <2>4 DEF WorkerTyped
<1>3. CASE DropName \/ DropNameFails
  <2>1. at = "drop" /\ (index' = index \/ \E m \in left : index' = [index EXCEPT ![m] = Empty])
    BY <1>3 DEF DropName, DropNameFails
  <2>2. left \subseteq task.names /\ task \in DeleteTask
    BY <2>1 DEF DropsItsNames, WorkerTyped
  <2>3. task.action = "delete" /\ (Touches(task, n) <=> n \in task.names)
    BY <1>1, <2>2, TaskKinds, TaskAbout
  <2> QED
    BY <2>1, <2>2, <2>3 DEF WorkerTyped
<1>4. CASE \/ Download \/ DownloadFails \/ ClearFails
           \/ RecordStatus \/ RecordStatusFails \/ RemoveObject \/ DropDone
  BY <1>4, PlainKeeps DEF Plain
<1> QED
  BY <1>2, <1>3, <1>4 DEF Inside

LEMMA WorkElsewhere ==
    ASSUME UploadsTyped, WorkerTyped, DropsItsNames, Inside, hit' = {}, processing = <<task>>,
           NEW n \in Names, Ranked(n), Current(n), ~Touches(task, n)
    PROVE  Ranked(n)' /\ Current(n)'
<1>1. /\ UNCHANGED <<queue, processing, asked, task, crashes>> /\ task \in Task
      /\ index'[n] = index[n]
  BY InsideKeeps, WorkIndexes
<1>2. Ranked(n)' /\ (QueueTouches(n)' <=> QueueTouches(n))
  BY <1>1, SameRanks
<1>3. DOMAIN processing = {1} /\ processing[1] = task /\ ~UpsertOf(task, n)
  BY <1>1, SingleList, TaskAbout
<1>4. ASSUME NEW i \in DOMAIN queue, UpsertOf(queue[i], n), queue[i].file \in objects
      PROVE  queue[i].file \in objects'
  <2>1. CASE RemoveObject
    <3>1. at = "remove" /\ objects \ {task.file} \subseteq objects'
      BY <2>1 DEF RemoveObject
    <3>2. task.action = "upsert"
      BY <1>1, <3>1, TaskKinds DEF WorkerTyped, UpsertSteps
    <3>3. queue[i].file # task.file
      BY <1>3, <1>4, <3>2 DEF UpsertOf
    <3> QED
      BY <1>4, <3>1, <3>3
  <2>2. CASE ~RemoveObject
    <3>1. objects' = objects
      BY <2>2 DEF Inside, Download, DownloadFails, ClearOldVectors, ClearFails, AddBatch, BatchFails,
         RecordStatus, RecordStatusFails, DropName, DropNameFails, DropDone, Services
    <3> QED
      BY <1>4, <3>1
  <2> QED
    BY <2>1, <2>2
<1>5. TaskHasText(n)'
  <2>1. ASSUME NEW i \in DOMAIN queue', UpsertOf(queue'[i], n)
        PROVE  \/ queue'[i].file \in objects'
               \/ crashes' > 0 /\ index'[n] = Whole(queue'[i].file)
    BY <1>1, <1>4, <2>1 DEF Current, TaskHasText
  <2>2. ASSUME NEW i \in DOMAIN processing', UpsertOf(processing'[i], n)
        PROVE  FALSE
    BY <1>1, <1>3, <2>2
  <2> QED
    BY <2>1, <2>2 DEF TaskHasText, Whole
<1>6. WorkerOn(n)'
  <2>1. ~(task.action = "delete" /\ n \in task.names)
    BY <1>1, TaskAbout
  <2> QED
    BY <1>1, <1>3, <2>1 DEF WorkerOn
<1>7. IndexIsCurrent(n)'
  BY <1>1, <1>2 DEF Current, IndexIsCurrent, Whole
<1> QED
  BY <1>2, <1>5, <1>6, <1>7 DEF Current

\* Where the task in hand is about n, only its text and its progress matter.
LEMMA WorkHere ==
    ASSUME UploadsTyped, WorkerTyped, Inside, processing = <<task>>,
           NEW n \in Names, Calm(n), Ranked(n), Current(n), Touches(task, n),
           objects \ {task.file} \subseteq objects', task.action = "delete" => objects' = objects,
           UpsertOf(task, n) => \/ task.file \in objects'
                                \/ index'[n] = Whole(task.file) /\ (at' = "ack" \/ crashes > 0),
           WorkerOn(n)'
    PROVE  Ranked(n)' /\ Current(n)'
<1>1. UNCHANGED <<queue, processing, asked, task, crashes>> /\ task \in Task
  BY InsideKeeps
<1>2. Ranked(n)'
  BY <1>1, SameRanks
<1>3. DOMAIN processing = {1} /\ processing[1] = task
  BY SingleList
<1>4. TaskHasText(n)'
  <2>1. ASSUME NEW i \in DOMAIN queue', UpsertOf(queue'[i], n)
        PROVE  queue'[i].file \in objects'
    <3>1. queue[i].file \in objects /\ (task.action = "upsert" => queue[i].file # task.file)
      BY <1>1, <2>1, QueueHasText
    <3> QED
      BY <1>1, <3>1, TaskKinds
  <2>2. ASSUME NEW i \in DOMAIN processing', UpsertOf(processing'[i], n)
        PROVE  \/ processing'[i].file \in objects'
               \/ index'[n] = Whole(processing'[i].file) /\ (at' = "ack" \/ crashes' > 0)
    BY <1>1, <1>3, <2>2
  <2> QED
    BY <2>1, <2>2 DEF TaskHasText, Whole
<1>5. IndexIsCurrent(n)'
  BY <1>1, <1>3 DEF IndexIsCurrent
<1> QED
  BY <1>2, <1>4, <1>5 DEF Current

LEMMA WorkerOnUpsert ==
    ASSUME NEW n \in Names, NEW t, task' = t, t.action = "upsert", UpsertOf(t, n),
           at' \in {"clear", "embed"} => t.file \in objects',
           at' \in {"status", "remove", "ack"} => index'[n] = Whole(t.file)
    PROVE  WorkerOn(n)'
  BY DEF WorkerOn, Whole

LEMMA UpsertKeepsOrder ==
    ASSUME UploadsTyped, WorkerTyped, ChunksInIndex, Inside, processing = <<task>>, hit = {}, hit' = {},
           NEW n \in Names, Calm(n), Ranked(n), Current(n), UpsertOf(task, n)
    PROVE  Ranked(n)' /\ Current(n)'
<1>1. UNCHANGED <<queue, processing, asked, task, crashes>> /\ task \in Task
      /\ at \in UpsertSteps \union {"drop"}
  BY InsideKeeps
<1>2. /\ task.action = "upsert" /\ n = Name[task.file] /\ Touches(task, n) /\ task \in UpsertTask
      /\ task.action # "delete"
  BY <1>1, TaskAbout, TaskKinds DEF UpsertOf
<1>3. DOMAIN processing = {1} /\ processing[1] = task
  BY SingleList
<1>4. /\ at \in {"clear", "embed"} => task.file \in objects
      /\ at \in {"status", "remove", "ack"} => index[n] = Whole(task.file)
  BY <1>1 DEF Current, WorkerOn, UpsertSteps
<1>5. task.file \in objects \/ (index[n] = Whole(task.file) /\ (at = "ack" \/ crashes > 0))
  BY <1>3 DEF Current, TaskHasText
<1>6. at # "drop"
  BY <1>1, <1>2, TaskKinds DEF WorkerTyped
<1>7. CASE Download
  <2>1. at' = "clear" /\ task.file \in objects /\ objects' = objects
    BY <1>7 DEF Download, To, Services
  <2>2. WorkerOn(n)'
    BY <1>1, <1>2, <2>1, WorkerOnUpsert
  <2> QED
    BY <1>2, <2>1, <2>2, WorkHere
<1>8. CASE DownloadFails
  <2>1. at = "download" /\ at' = "status" /\ task.file \notin objects
        /\ objects' = objects /\ index' = index
    BY <1>8 DEF DownloadFails, Settle, To, Services, Hit
  <2>2. index[n] = Whole(task.file) /\ crashes > 0
    BY <1>5, <2>1
  <2>3. WorkerOn(n)'
    BY <1>1, <1>2, <2>1, <2>2, WorkerOnUpsert
  <2> QED
    BY <1>2, <2>1, <2>2, <2>3, WorkHere
<1>9. CASE ClearOldVectors
  <2>1. at = "clear" /\ at' = "embed" /\ objects' = objects
    BY <1>9 DEF ClearOldVectors, To
  <2>2. WorkerOn(n)'
    BY <1>1, <1>2, <1>4, <2>1, WorkerOnUpsert
  <2> QED
    BY <1>2, <1>4, <2>1, <2>2, WorkHere
<1>10. CASE AddBatch
  <2>1. at = "embed" /\ objects' = objects /\ task.file \in objects
    BY <1>4, <1>10 DEF AddBatch
  <2>2. Filled(task.file, batch)
    BY <2>1 DEF ChunksInIndex
  <2>3. \/ at' = "status" /\ index'[n] = Whole(task.file)
        \/ at' = "embed"
    BY <1>2, <1>10, <2>2, BatchAdded
  <2>4. WorkerOn(n)'
    BY <1>1, <1>2, <2>1, <2>3, WorkerOnUpsert
  <2> QED
    BY <1>2, <2>1, <2>4, WorkHere
<1>11. CASE RecordStatus
  <2>1. at = "status" /\ at' \in {"remove", "ack"} /\ objects' = objects /\ index' = index
    BY <1>11 DEF RecordStatus, To, AfterStatus
  <2>2. WorkerOn(n)'
    BY <1>1, <1>2, <1>4, <2>1, WorkerOnUpsert
  <2> QED
    BY <1>2, <1>5, <2>1, <2>2, WorkHere
<1>12. CASE RemoveObject
  <2>1. at = "remove" /\ at' = "ack" /\ index' = index /\ objects \ {task.file} \subseteq objects'
    BY <1>12 DEF RemoveObject, To
  <2>2. WorkerOn(n)'
    BY <1>1, <1>2, <1>4, <2>1, WorkerOnUpsert
  <2> QED
    BY <1>2, <1>4, <2>1, <2>2, WorkHere
<1>13. CASE DropName \/ DropNameFails \/ DropDone
  BY <1>6, <1>13 DEF DropName, DropNameFails, DropDone
<1>14. CASE ClearFails \/ BatchFails \/ RecordStatusFails
  BY <1>14 DEF ClearFails, BatchFails, RecordStatusFails, Hit
<1> QED
  BY <1>7, <1>8, <1>9, <1>10, <1>11, <1>12, <1>13, <1>14 DEF Inside

LEMMA DeleteKeepsOrder ==
    ASSUME UploadsTyped, WorkerTyped, DropsItsNames, Inside, processing = <<task>>,
           hit = {}, hit' = {}, task.action = "delete",
           NEW n \in Names, Calm(n), Ranked(n), Current(n), Touches(task, n)
    PROVE  Ranked(n)' /\ Current(n)'
<1>1. UNCHANGED <<queue, processing, asked, task, crashes>> /\ task \in Task
      /\ at \in UpsertSteps \union {"drop"}
  BY InsideKeeps
<1>2. task \in DeleteTask /\ n \in task.names /\ ~UpsertOf(task, n) /\ task \notin UpsertTask
  BY <1>1, TaskAbout, TaskKinds
<1>3. at = "drop"
  BY <1>1, <1>2 DEF WorkerTyped
<1>4. index[n] = Empty \/ n \in left
  BY <1>2, <1>3 DEF Current, WorkerOn
<1>5. DropName \/ DropDone
  BY <1>3 DEF Inside, Download, DownloadFails, ClearOldVectors, ClearFails, AddBatch, BatchFails,
     RecordStatus, RecordStatusFails, RemoveObject, DropNameFails, Hit
<1>6. objects' = objects
  BY <1>5 DEF DropName, DropDone, Services
<1>7. WorkerOn(n)'
  <2>1. index'[n] = Empty \/ (at' = "drop" /\ n \in left')
    <3>1. CASE DropDone
      BY <1>4, <3>1 DEF DropDone, Services
    <3>2. CASE DropName
      <4>1. PICK m \in left : index' = [index EXCEPT ![m] = Empty] /\ left' = left \ {m}
        BY <3>2 DEF DropName
      <4>2. at' = "drop"
        BY <3>2 DEF DropName
      <4>3. CASE n = m
        BY <4>1, <4>3 DEF WorkerTyped
      <4>4. CASE n # m
        BY <1>4, <4>1, <4>2, <4>4 DEF WorkerTyped
      <4> QED
        BY <4>3, <4>4
    <3> QED
      BY <1>5, <3>1, <3>2
  <2> QED
    BY <1>1, <1>2, <2>1 DEF WorkerOn, Empty
<1> QED
  BY <1>2, <1>6, <1>7, WorkHere

LEMMA InsideKeepsOrder ==
    ASSUME UploadsTyped, WorkerTyped, ChunksInIndex, DropsItsNames, HoldsItsTask, Inside,
           hit = {}, hit' = {}, NEW n \in Names, Calm(n), Ranked(n), Current(n)
    PROVE  Ranked(n)' /\ Current(n)'
<1>1. processing = <<task>> /\ task \in Task
  BY InsideKeeps, HoldsCases DEF UpsertSteps, Idle
<1>2. CASE ~Touches(task, n)
  BY <1>1, <1>2, WorkElsewhere
<1>3. CASE Touches(task, n) /\ task.action = "upsert"
  <2>1. UpsertOf(task, n)
    BY <1>1, <1>3, TaskAbout
  <2> QED
    BY <1>1, <2>1, UpsertKeepsOrder
<1>4. CASE Touches(task, n) /\ task.action = "delete"
  BY <1>1, <1>4, DeleteKeepsOrder
<1> QED
  BY <1>1, <1>2, <1>3, <1>4, TaskKinds

LEMMA RecoverKeepsOrder ==
    ASSUME UploadsTyped, WorkerTyped, HoldsItsTask, hit = {}, RecoverTask,
           NEW n \in Names, Len(asked[n]) <= 1, Ranked(n), Current(n)
    PROVE  Ranked(n)' /\ Current(n)'
<1>1. PICK t \in Task : processing = <<t>> /\ processing' = <<>> /\ queue' = <<t>> \o queue
  BY RecoverOne
<1>2. crashes > 0 /\ at' = "recover" /\ UNCHANGED <<asked, objects, index, crashes>>
  BY RecoverOne DEF RecoverTask, uploadsOnly
<1>3. Ranked(n)'
  BY <1>1, <1>2, RecoverRanks
<1>4. DOMAIN processing = {1} /\ processing[1] = t /\ DOMAIN processing' = {}
  BY <1>1
<1>5. /\ Len(queue) \in Nat /\ DOMAIN queue' = 1 .. Len(queue) + 1 /\ queue'[1] = t
      /\ \A i \in 2 .. Len(queue) + 1 : i - 1 \in DOMAIN queue /\ queue'[i] = queue[i - 1]
  BY <1>1, PrependProperties DEF UploadsTyped
<1>6. TaskHasText(n)'
  <2>1. ASSUME NEW i \in DOMAIN queue', UpsertOf(queue'[i], n)
        PROVE  \/ queue'[i].file \in objects'
               \/ crashes' > 0 /\ index'[n] = Whole(queue'[i].file)
    <3>1. CASE i = 1
      BY <1>2, <1>4, <1>5, <2>1, <3>1 DEF Current, TaskHasText
    <3>2. CASE i # 1
      <4>1. i \in 2 .. Len(queue) + 1
        BY <1>5, <3>2
      <4>2. i - 1 \in DOMAIN queue /\ queue'[i] = queue[i - 1]
        BY <1>5, <4>1
      <4> QED
        BY <1>2, <2>1, <4>2 DEF Current, TaskHasText
    <3> QED
      BY <3>1, <3>2
  <2> QED
    BY <1>4, <2>1 DEF TaskHasText, Whole
<1>7. WorkerOn(n)'
  BY <1>2 DEF WorkerOn, UpsertSteps
<1>8. IndexIsCurrent(n)'
  <2>1. QueueTouches(n)' <=> Touches(t, n) \/ QueueTouches(n)
    BY <1>1, PrependRanks DEF UploadsTyped
  <2> QED
    BY <1>2, <1>4, <2>1 DEF Current, IndexIsCurrent, Whole
<1> QED
  BY <1>3, <1>6, <1>7, <1>8 DEF Current

LEMMA FetchKeepsOrder ==
    ASSUME UploadsTyped, WorkerTyped, HoldsItsTask, hit = {}, FetchTask,
           NEW n \in Names, Ranked(n), Current(n)
    PROVE  Ranked(n)' /\ Current(n)'
<1>1. /\ processing = <<>> /\ queue # <<>> /\ task' = Last(queue) /\ task' \in Task
      /\ processing' = <<task'>> /\ queue' = Front(queue)
      /\ at' = IF task'.action = "upsert" THEN "download" ELSE "drop"
      /\ left' = IF task'.action = "delete" THEN task'.names ELSE {}
      /\ UNCHANGED <<objects, index, asked, crashes>>
  BY FetchOne
<1>2. PICK t : t = task'
  OBVIOUS
<1>3. Ranked(n)' /\ (QueueTouches(n) <=> QueueTouches(n)' \/ Touches(t, n))
  BY <1>1, <1>2, FetchRanks
<1>4. DOMAIN processing = {} /\ DOMAIN processing' = {1} /\ processing'[1] = t
  BY <1>1, <1>2
<1>5. /\ Len(queue) \in DOMAIN queue /\ t = queue[Len(queue)]
      /\ \A i \in DOMAIN queue' : i \in DOMAIN queue /\ queue'[i] = queue[i]
  <2>1. /\ Len(queue) \in Nat \ {0} /\ DOMAIN queue = 1 .. Len(queue)
        /\ DOMAIN Front(queue) = 1 .. Len(queue) - 1 /\ Last(queue) = queue[Len(queue)]
        /\ \A i \in 1 .. Len(queue) - 1 : Front(queue)[i] = queue[i]
    BY <1>1, FrontKeeps DEF UploadsTyped
  <2> QED
    BY <1>1, <1>2, <2>1
<1>6. TaskHasText(n)'
  <2>1. \A i \in DOMAIN queue : UpsertOf(queue[i], n) =>
            queue[i].file \in objects \/ (crashes > 0 /\ index[n] = Whole(queue[i].file))
    BY DEF Current, TaskHasText
  <2>2. ASSUME NEW i \in DOMAIN processing', UpsertOf(processing'[i], n)
        PROVE  \/ processing'[i].file \in objects'
               \/ index'[n] = Whole(processing'[i].file) /\ (at' = "ack" \/ crashes' > 0)
    BY <1>1, <1>4, <1>5, <2>1, <2>2
  <2>3. ASSUME NEW i \in DOMAIN queue', UpsertOf(queue'[i], n)
        PROVE  \/ queue'[i].file \in objects'
               \/ crashes' > 0 /\ index'[n] = Whole(queue'[i].file)
    BY <1>1, <1>5, <2>1, <2>3
  <2> QED
    BY <2>2, <2>3 DEF TaskHasText, Whole
<1>7. WorkerOn(n)'
  <2>1. at' \in {"download", "drop"} /\ (at' = "drop" => task'.action = "delete")
        /\ (task'.action = "delete" => at' = "drop" /\ left' = task'.names)
    BY <1>1, TaskKinds
  <2>2. ~(at' \in {"clear", "embed"}) /\ ~(at' \in {"status", "remove", "ack"})
    BY <2>1
  <2> QED
    BY <2>1, <2>2 DEF WorkerOn
<1>8. IndexIsCurrent(n)'
  BY <1>1, <1>3, <1>4 DEF Current, IndexIsCurrent, Whole
<1> QED
  BY <1>3, <1>6, <1>7, <1>8 DEF Current

LEMMA AcknowledgeKeepsOrder ==
    ASSUME UploadsTyped, WorkerTyped, HoldsItsTask, hit = {}, hit' = {}, Acknowledge,
           NEW n \in Names, Ranked(n), Current(n)
    PROVE  Ranked(n)' /\ Current(n)'
<1>1. /\ at = "ack" /\ at' = Idle /\ processing = <<task>> /\ processing' = <<>> /\ task \in Task
      /\ UNCHANGED <<queue, asked, objects, index, crashes>>
  BY AckOne
<1>2. Ranked(n)' /\ (QueueTouches(n)' <=> QueueTouches(n))
  BY <1>1, AckRanks
<1>3. DOMAIN processing = {1} /\ processing[1] = task /\ DOMAIN processing' = {}
  BY <1>1
<1>4. TaskHasText(n)'
  BY <1>1, <1>3 DEF Current, TaskHasText, Whole
<1>5. WorkerOn(n)'
  BY <1>1 DEF WorkerOn, UpsertSteps, Idle
<1>6. IndexIsCurrent(n)'
  <2>1. SUFFICES ASSUME asked[n] # <<>>, ~QueueTouches(n) PROVE index[n] = Whole(Last(asked[n]))
    BY <1>1, <1>2 DEF IndexIsCurrent, Whole
  <2>2. CASE ~Touches(task, n)
    BY <1>3, <2>1, <2>2 DEF Current, IndexIsCurrent
  <2>3. CASE Touches(task, n)
    <3>1. Wants(task) = Last(asked[n])
      BY <1>3, <2>1, <2>3 DEF Ranked, NewestWins
    <3>2. CASE task.action = "upsert"
      <4>1. UpsertOf(task, n) /\ Wants(task) = task.file
        BY <1>1, <2>3, <3>2, TaskAbout
      <4> QED
        BY <1>1, <3>1, <4>1 DEF Current, WorkerOn, UpsertSteps
    <3>3. CASE task.action = "delete"
      <4>1. n \in task.names /\ Wants(task) = NoFile
        BY <1>1, <2>3, <3>3, TaskAbout
      <4>2. index[n] = Empty
        BY <1>1, <3>3, <4>1 DEF Current, WorkerOn
      <4> QED
        BY <3>1, <4>1, <4>2 DEF Empty, Whole
    <3> QED
      BY <1>1, <3>2, <3>3, TaskKinds
  <2> QED
    BY <2>2, <2>3
<1> QED
  BY <1>2, <1>4, <1>5, <1>6 DEF Current

\* A worker that starts or dies leaves lists, texts and index as they are.
LEMMA RestartKeepsOrder ==
    ASSUME WorkerTyped, NEW n \in Names, Ranked(n), Current(n),
           UNCHANGED <<queue, processing, asked, objects, index>>,
           at' \in {Idle, "recover"},
           crashes' > 0 \/ (processing = <<>> /\ crashes' = crashes)
    PROVE  Ranked(n)' /\ Current(n)'
<1>1. Ranked(n)' /\ (QueueTouches(n)' <=> QueueTouches(n))
  BY SameRanks
<1>2. TaskHasText(n)'
  <2>1. ASSUME NEW i \in DOMAIN queue', UpsertOf(queue'[i], n)
        PROVE  \/ queue'[i].file \in objects'
               \/ crashes' > 0 /\ index'[n] = Whole(queue'[i].file)
    BY <2>1 DEF Current, TaskHasText
  <2>2. ASSUME NEW i \in DOMAIN processing', UpsertOf(processing'[i], n)
        PROVE  \/ processing'[i].file \in objects'
               \/ index'[n] = Whole(processing'[i].file) /\ (at' = "ack" \/ crashes' > 0)
    <3>1. processing # <<>>
      BY <2>2
    <3> QED
      BY <2>2, <3>1 DEF Current, TaskHasText
  <2> QED
    BY <2>1, <2>2 DEF TaskHasText, Whole
<1>3. WorkerOn(n)'
  BY DEF WorkerOn, UpsertSteps, Idle
<1>4. IndexIsCurrent(n)'
  BY <1>1 DEF Current, IndexIsCurrent, Whole
<1> QED
  BY <1>1, <1>2, <1>3, <1>4 DEF Current

LEMMA NextKeepsOrder ==
    ASSUME UploadsTyped, WorkerTyped, TasksArePushed, TextsKept, ChunksInIndex, DropsItsNames,
           HoldsItsTask, OrderKept, [Next]_vars
    PROVE  OrderKept'
<1> SUFFICES ASSUME NEW n \in Names, Calm(n)' PROVE Ranked(n)' /\ Current(n)'
  BY DEF OrderKept
<1>1. Calm(n) /\ hit = {} /\ hit' = {} /\ (crashes' = 0 \/ Len(asked'[n]) <= 1)
  BY CalmBefore
<1>2. Ranked(n) /\ Current(n)
  BY <1>1 DEF OrderKept
<1>3. CASE NextUploads /\ UNCHANGED workerVars
  BY <1>1, <1>2, <1>3, UploadsKeepOrder
<1>4. CASE RecoverTask
  <2>1. crashes > 0 /\ UNCHANGED <<asked, crashes>>
    BY <1>1, <1>4, RecoverOne DEF RecoverTask, uploadsOnly
  <2>2. Len(asked[n]) <= 1
    BY <1>1, <2>1
  <2> QED
    BY <1>1, <1>2, <1>4, <2>2, RecoverKeepsOrder
<1>5. CASE StopRecovering
  <2>1. at' = Idle /\ processing = <<>> /\ crashes' = crashes
        /\ UNCHANGED <<queue, processing, asked, objects, index>>
    BY <1>1, <1>5 DEF StopRecovering, Hit, Services, uploadsOnly
  <2> QED
    BY <1>2, <2>1, RestartKeepsOrder
<1>6. CASE FetchTask
  BY <1>1, <1>2, <1>6, FetchKeepsOrder
<1>7. CASE Acknowledge
  BY <1>1, <1>2, <1>7, AcknowledgeKeepsOrder
<1>8. CASE Inside
  BY <1>1, <1>2, <1>8, InsideKeepsOrder
<1>9. CASE Crash
  <2>1. at' = "recover" /\ crashes' > 0 /\ UNCHANGED <<queue, processing, asked, objects, index>>
    BY <1>9 DEF Crash, Services, uploadsOnly, WorkerTyped
  <2> QED
    BY <1>2, <2>1, RestartKeepsOrder
<1>10. CASE UNCHANGED vars
  <2>1. UNCHANGED <<queue, processing, asked, objects, index, at, task, left, crashes>>
    BY <1>10 DEF vars, uploadVars, workerVars
  <2> QED
    BY <1>2, <2>1, SameRanks, SameCurrent
<1> QED
  BY <1>3, <1>4, <1>5, <1>6, <1>7, <1>8, <1>9, <1>10 DEF Next, Work, Inside, AllEnded

-----------------------------------------------------------------------------
(* The invariant and what follows from it. *)

RagInv ==
    /\ UploadsTyped /\ WorkerTyped /\ RowsFound /\ ChecksApart /\ TasksArePushed /\ TextsKept
    /\ ChunksInIndex /\ DropsItsNames /\ HoldsItsTask /\ OrderKept

LEMMA InitEstablishes ==
    ASSUME Init
    PROVE  RagInv
<1>1. /\ documents = <<>> /\ objects = {} /\ queue = <<>> /\ processing = <<>>
      /\ pc = [u \in Uploads |-> "idle"] /\ file = [u \in Uploads |-> NoFile]
      /\ row = [u \in Uploads |-> 0] /\ todo = [u \in Uploads |-> {}]
      /\ asked = [n \in Names |-> <<>>] /\ hit = {}
      /\ index = [n \in Names |-> Empty] /\ at = "recover" /\ task = NoTask
      /\ left = {} /\ crashes = 0
  BY DEF Init, InitUploads
<1>2. documents \in Seq(Document \union {NoRow}) /\ queue \in Seq(Task) /\ processing \in Seq(Task)
      /\ Len(documents) = 0 /\ DOMAIN documents = {} /\ DOMAIN queue = {} /\ DOMAIN processing = {}
      /\ \A n \in Names : asked[n] = <<>> /\ asked[n] \in Seq(Content) /\ Len(asked[n]) = 0
  BY <1>1
<1>3. UploadsTyped
  <2>1. asked \in [Names -> Seq(Content)]
    BY <1>1, <1>2
  <2>2. row \in [Uploads -> Nat] /\ \A u \in Uploads : row[u] <= Len(documents)
    BY <1>1, <1>2
  <2> QED
    BY <1>1, <1>2, <2>1, <2>2 DEF UploadsTyped, RowsTyped, UploadSteps, Content
<1>4. WorkerTyped
  BY <1>1, <1>2 DEF WorkerTyped, UpsertSteps, Empty, Content, Idle
<1>5. ChecksApart
  BY <1>1, <1>2 DEF ChecksApart, InCheck, Announced, Rows
<1>6. TasksArePushed
  <2>1. ToSet(queue) = {} /\ ToSet(processing) = {}
    BY <1>2 DEF ToSet
  <2> QED
    BY <1>1, <2>1, WorkerAssumption DEF TasksArePushed
<1>7. TextsKept /\ RowsFound
  BY <1>1 DEF TextsKept, Accepted, RowsFound
<1>8. ChunksInIndex /\ DropsItsNames
  BY <1>1 DEF ChunksInIndex, DropsItsNames
<1>9. HoldsItsTask
  BY <1>1 DEF HoldsItsTask, Idle
<1>10. OrderKept
  <2>1. ASSUME NEW n \in Names PROVE Ranked(n) /\ Current(n)
    <3>1. ~QueueTouches(n)
      BY <1>2 DEF QueueTouches
    <3>2. Ranked(n)
      BY <1>2, <3>1 DEF Ranked, NewestWins, TasksWereAsked, UpsertsApart
    <3>3. TaskHasText(n) /\ IndexIsCurrent(n)
      BY <1>2 DEF TaskHasText, IndexIsCurrent
    <3>4. WorkerOn(n)
      BY <1>1 DEF WorkerOn, UpsertSteps
    <3> QED
      BY <3>2, <3>3, <3>4 DEF Current
  <2> QED
    BY <2>1 DEF OrderKept
<1> QED
  BY <1>3, <1>4, <1>5, <1>6, <1>7, <1>8, <1>9, <1>10 DEF RagInv

\* Whatever steps uploads and worker take, in any order and with any failures and deaths:
\* checks of one file stay apart, queued tasks come from submissions, the index holds the
\* chunks the worker counts, and the tasks of a name that nothing has disturbed are done in
\* the order in which they were asked for.
THEOREM RagInvariant == Spec => []RagInv
<1>1. Init => RagInv
  BY InitEstablishes
<1>2. RagInv /\ [Next]_vars => RagInv'
  BY NextKeepsTypes, NextKeepsRows, NextKeepsChecks, NextKeepsTasks, NextKeepsTexts,
     NextKeepsChunks, NextKeepsNames, NextKeepsHolds, NextKeepsOrder DEF RagInv
<1> QED
  BY <1>1, <1>2, PTL DEF Spec

\* check_md5: however checks and submissions of a file interleave, its table never holds two
\* rows under check for it; the advisory lock covers the search and the insert.
THEOREM ChecksStaySingle == Spec => []OneCheckPerFile
<1>1. RagInv => OneCheckPerFile
  <2>1. ASSUME RagInv, NEW f \in Files PROVE Cardinality(Announced(f)) <= 1
    <3>1. \A i, j \in Announced(f) : i = j
      BY <2>1 DEF RagInv, ChecksApart
    <3>2. CASE Announced(f) = {}
      BY <3>2, FS_EmptySet
    <3>3. CASE Announced(f) # {}
      <4>1. PICK i \in Announced(f) : TRUE
        BY <3>3
      <4>2. Announced(f) = {i}
        BY <3>1, <4>1
      <4> QED
        BY <4>2, FS_Singleton
    <3> QED
      BY <3>2, <3>3
  <2> QED
    BY <2>1 DEF OneCheckPerFile
<1> QED
  BY <1>1, RagInvariant, PTL

\* The worker removes the text of a document only after it has recorded a verdict, so an
\* accepted document without one can be indexed again after a death.
THEOREM TextOutlivesDoubt == Spec => []UndecidedKeepsText
<1>1. RagInv => UndecidedKeepsText
  <2>1. SUFFICES ASSUME RagInv, NEW u \in Uploads, Undecided(u), "postgres" \notin hit,
                        \A v \in Uploads \ {u} : file[v] # file[u]
                 PROVE  file[u] \in objects
    BY DEF UndecidedKeepsText
  <2>2. Accepted(u) /\ documents[row[u]] # NoRow /\ documents[row[u]].hash = Sha256(file[u])
        /\ documents[row[u]].status = "processing"
    BY <2>1 DEF Undecided
  <2>3. pc[u] \notin {"idle"} /\ file[u] \in Files
    BY <2>1, <2>2 DEF RagInv, UploadsTyped, Accepted, Content
  <2>4. file[u] \in objects \/ Waiting(file[u]) = {}
    BY <2>1, <2>2, <2>3 DEF RagInv, TextsKept, Alone
  <2>5. row[u] \in DOMAIN documents
    BY <2>1, <2>2, LenProperties DEF RagInv, UploadsTyped, RowsTyped, RowsFound, Accepted
  <2>6. row[u] \in Waiting(file[u])
    BY <2>2, <2>5, CheckRow
  <2> QED
    BY <2>4, <2>6
<1> QED
  BY <1>1, RagInvariant, PTL

\* update_document_status("completed"): a document becomes complete only after every batch of
\* it, and nothing of another edition, is in the index of its name.
THEOREM CompleteMeansIndexed == Spec => CompletedIsIndexed
<1>1. RagInv /\ [Next]_vars =>
          [\A i \in DOMAIN documents : \A f \in Files :
              Completes(i, f) => index[Name[f]] = Whole(f) \/ "chroma" \in hit]_vars
  BY NextCompletesIndexed DEF RagInv
<1> QED
  BY <1>1, RagInvariant, PTL DEF Spec, CompletedIsIndexed

\* LPUSH and RPOPLPUSH: once every task is done and nothing has failed, the index holds for
\* each name what was queued last for it, be it an edition or a deletion.
THEOREM LastRequestWins == Spec => []IndexFollowsRequests
<1>1. RagInv => IndexFollowsRequests
  <2>1. SUFFICES ASSUME RagInv, AllDone, hit = {}, NEW n \in Names,
                        asked[n] # <<>>, InOrder(n), UploadedOnce(n)
                 PROVE  index[n] = Whole(Last(asked[n]))
    BY DEF IndexFollowsRequests
  <2>2. Calm(n)
    <3>1. crashes = 0 \/ Len(asked[n]) = 1
      BY <2>1 DEF InOrder
    <3>2. Len(asked[n]) = 1 => Len(asked[n]) <= 1
      OBVIOUS
    <3> QED
      BY <2>1, <3>1, <3>2 DEF Calm
  <2>3. DOMAIN queue = {} /\ DOMAIN processing = {}
    BY <2>1 DEF AllDone, Quiet
  <2>4. IndexIsCurrent(n)
    BY <2>1, <2>2 DEF RagInv, OrderKept, Current
  <2> QED
    BY <2>1, <2>3, <2>4 DEF IndexIsCurrent, QueueTouches
<1> QED
  BY <1>1, RagInvariant, PTL
=============================================================================
