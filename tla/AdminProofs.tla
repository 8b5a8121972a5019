----------------------------- MODULE AdminProofs -----------------------------
(***************************************************************************)
(* Proofs about the admin server.  AuditChain, for any number of calls:    *)
(* the lock makes the hash chain whole, what is tampered with later is     *)
(* found, and the chain implements the log of AuditLog.  AdminLogin, for   *)
(* any number of users, calls, secrets, failures and restarts: a refresh   *)
(* token is exchanged once, a logout is final, a one-time code opens one   *)
(* session, and nobody loses the second factor of admin, each up to the    *)
(* exceptions its property names.                                          *)
(***************************************************************************)
EXTENDS AuditChain, AdminLogin, OrderAndSums, SequenceTheorems, TLAPS

\* The table is a sequence of some records.
RowsAreSequence == \E S : rows \in Seq(S)

\* Each of them has the fields and the hash of a record.
RowsAreRecords ==
    \A i \in DOMAIN rows : rows[i] = Record(rows[i].event, rows[i].prev_hash)

\* Who reads or inserts holds the lock.
LockIsHeld == \A c \in Callers : stage[c] \in {"read", "insert"} => holder = c

\* The hash read under the lock is still that of the last record.
HashIsCurrent == \A c \in Callers : stage[c] = "insert" => prev[c] = LastHash

ChainInv ==
    /\ TypeOK
    /\ RowsAreSequence
    /\ RowsAreRecords
    /\ prev \in [Callers -> {prev[c] : c \in Callers}]
    /\ LockIsHeld
    /\ HashIsCurrent
    /\ ChainVerifies

-----------------------------------------------------------------------------
(* What appending does to the table. *)

\* Appending keeps the records that were there and adds one.
LEMMA AppendToRows ==
    ASSUME RowsAreSequence, NEW r
    PROVE  /\ \E S : Append(rows, r) \in Seq(S)
           /\ Len(rows) \in Nat
           /\ DOMAIN rows = 1 .. Len(rows)
           /\ Len(Append(rows, r)) = Len(rows) + 1
           /\ DOMAIN Append(rows, r) = 1 .. Len(rows) + 1
           /\ \A i \in 1 .. Len(rows) : Append(rows, r)[i] = rows[i]
           /\ Append(rows, r)[Len(rows) + 1] = r
<1>1. PICK S : rows \in Seq(S)
  BY DEF RowsAreSequence
<1> DEFINE T == S \union {r}
<1>2. rows \in Seq(T)
  BY <1>1
<1>3. Append(rows, r) \in Seq(T) /\ Len(Append(rows, r)) = Len(rows) + 1
  BY <1>2, AppendProperties
<1>4. \A i \in 1 .. Len(rows) : Append(rows, r)[i] = rows[i]
  BY <1>2, AppendProperties
<1>5. Append(rows, r)[Len(rows) + 1] = r
  BY <1>2, AppendProperties
<1>6. QED
  BY <1>2, <1>3, <1>4, <1>5, LenProperties

\* A record that carries the hash of the last one keeps the chain whole.
LEMMA ChainGrows ==
    ASSUME RowsAreSequence, Verify(rows), NEW e, NEW r, r = Record(e, LastHash)
    PROVE  Verify(Append(rows, r))
<1> DEFINE grown == Append(rows, r)
<1>1. /\ Len(rows) \in Nat /\ DOMAIN rows = 1 .. Len(rows)
      /\ DOMAIN grown = 1 .. Len(rows) + 1
      /\ \A i \in 1 .. Len(rows) : grown[i] = rows[i]
      /\ grown[Len(rows) + 1] = r
  BY AppendToRows
<1> HIDE DEF grown
<1>2. \A n \in 0 .. Len(rows) : HashOf(grown, n) = HashOf(rows, n)
  BY <1>1 DEF HashOf
<1>3. ASSUME NEW i \in 1 .. Len(rows)
      PROVE  Linked(grown, i) /\ Intact(grown, i)
  <2>1. Linked(rows, i) /\ Intact(rows, i)
    BY <1>1 DEF Verify
  <2>2. i - 1 \in 0 .. Len(rows) /\ grown[i] = rows[i]
    BY <1>1
  <2>3. HashOf(grown, i - 1) = HashOf(rows, i - 1)
    BY <1>2, <2>2
  <2>4. QED
    BY <2>1, <2>2, <2>3 DEF Linked, Intact
<1>4. Linked(grown, Len(rows) + 1) /\ Intact(grown, Len(rows) + 1)
  <2>1. r.prev_hash = LastHash /\ r.event = e /\ r.record_hash = Hash(e, LastHash)
    BY DEF Record
  <2>2. Len(rows) + 1 - 1 = Len(rows) /\ Len(rows) \in 0 .. Len(rows)
    BY <1>1
  <2>3. HashOf(grown, Len(rows)) = LastHash
    BY <1>2, <2>2 DEF LastHash
  <2>4. QED
    BY <1>1, <2>1, <2>2, <2>3 DEF Linked, Intact
<1>5. Verify(grown)
  BY <1>1, <1>3, <1>4 DEF Verify
<1>6. QED
  BY <1>5 DEF grown

-----------------------------------------------------------------------------
(* The inductive invariant. *)

LEMMA InitChainInv == ChainAssumption /\ InitChain => ChainInv
<1> SUFFICES ASSUME ChainAssumption, InitChain PROVE ChainInv
  OBVIOUS
<1>1. rows = << >> /\ rows \in Seq({}) /\ DOMAIN rows = {}
  BY DEF InitChain
<1>2. QED
  BY <1>1 DEF InitChain, ChainInv, TypeOK, RowsAreSequence, RowsAreRecords, LockIsHeld,
              HashIsCurrent, ChainVerifies, Verify

\* Every step but Insert leaves the table alone.
LEMMA OtherStepsKeepInv ==
    ASSUME ChainAssumption, ChainInv, NEW c \in Callers,
           Begin(c) \/ Lock(c) \/ ReadLast(c) \/ ReadBack(c) \/ Fail(c)
    PROVE  ChainInv'
<1>1. rows' = rows
  BY DEF Begin, Lock, ReadLast, ReadBack, Fail
<1>2. LastHash' = LastHash /\ ChainVerifies' /\ RowsAreSequence' /\ RowsAreRecords'
  BY <1>1 DEF ChainInv, LastHash, HashOf, ChainVerifies, RowsAreSequence, RowsAreRecords
<1>3. TypeOK'
  BY <1>1 DEF ChainInv, TypeOK, Begin, Lock, ReadLast, ReadBack, Fail
<1>4. prev' \in [Callers -> {prev'[d] : d \in Callers}]
  BY DEF ChainInv, Begin, Lock, ReadLast, ReadBack, Fail
<1>5. LockIsHeld'
  <2>1. CASE Lock(c)
    BY <2>1 DEF ChainInv, TypeOK, LockIsHeld, Lock, Free, ChainAssumption
  <2>2. CASE Begin(c) \/ ReadLast(c) \/ ReadBack(c)
    BY <2>2 DEF ChainInv, TypeOK, LockIsHeld, Begin, ReadLast, ReadBack
  <2>3. CASE Fail(c)
    BY <2>3 DEF ChainInv, TypeOK, LockIsHeld, Fail
  <2>4. QED
    BY <2>1, <2>2, <2>3
<1>6. HashIsCurrent'
  <2>1. CASE ReadLast(c)
    BY <1>2, <2>1 DEF ChainInv, TypeOK, HashIsCurrent, ReadLast
  <2>2. CASE Begin(c) \/ Lock(c) \/ ReadBack(c) \/ Fail(c)
    BY <1>2, <2>2 DEF ChainInv, TypeOK, HashIsCurrent, Begin, Lock, ReadBack, Fail
  <2>3. QED
    BY <2>1, <2>2
<1>7. QED
  BY <1>2, <1>3, <1>4, <1>5, <1>6 DEF ChainInv

LEMMA InsertKeepsInv ==
    ASSUME ChainAssumption, ChainInv, NEW c \in Callers, Insert(c)
    PROVE  ChainInv'
<1> DEFINE r == Record(EventOf[c], LastHash)
<1>1. holder = c /\ prev[c] = LastHash
  BY DEF ChainInv, Insert, LockIsHeld, HashIsCurrent
<1>2. rows' = Append(rows, r) /\ r.event = EventOf[c] /\ EventOf[c] \in Events
  BY <1>1 DEF Insert, Record, ChainAssumption
<1> HIDE DEF r
<1>3. RowsAreSequence'
  BY <1>2, AppendToRows DEF ChainInv, RowsAreSequence
<1>4. ChainVerifies'
  <2>1. Verify(Append(rows, r))
    BY ChainGrows DEF ChainInv, ChainVerifies, r
  <2>2. QED
    BY <1>2, <2>1 DEF ChainVerifies, Verify, Linked, Intact, HashOf
<1>5. \A i \in DOMAIN rows' : rows'[i].event \in Events
  BY <1>2, AppendToRows DEF ChainInv, TypeOK
<1>6. TypeOK'
  BY <1>5 DEF ChainInv, TypeOK, Insert
<1>7. LockIsHeld' /\ HashIsCurrent'
  \* Nobody else reads or inserts: c held the lock.
  <2>1. \A d \in Callers : stage'[d] \notin {"read", "insert"}
    BY <1>1 DEF ChainInv, TypeOK, LockIsHeld, Insert
  <2>2. QED
    BY <2>1 DEF LockIsHeld, HashIsCurrent
<1>8. prev' \in [Callers -> {prev'[d] : d \in Callers}]
  BY DEF ChainInv, Insert
<1>9. RowsAreRecords'
  <2>1. r = Record(r.event, r.prev_hash)
    BY DEF r, Record
  <2> QED
    BY <1>2, <2>1, AppendToRows DEF ChainInv, RowsAreRecords
<1>10. QED
  BY <1>3, <1>4, <1>6, <1>7, <1>8, <1>9 DEF ChainInv

LEMMA NextKeepsChainInv == ChainAssumption /\ ChainInv /\ [NextChain]_chainVars => ChainInv'
<1> SUFFICES ASSUME ChainAssumption, ChainInv, [NextChain]_chainVars PROVE ChainInv'
  OBVIOUS
<1>1. CASE UNCHANGED chainVars
  BY <1>1 DEF chainVars, ChainInv, TypeOK, RowsAreSequence, RowsAreRecords, LockIsHeld,
              HashIsCurrent, LastHash,
              ChainVerifies, Verify, Linked, Intact, HashOf
<1>2. ASSUME NEW c \in Callers, Begin(c) \/ Step(c) \/ Fail(c)
      PROVE  ChainInv'
  BY <1>2, OtherStepsKeepInv, InsertKeepsInv DEF Step
<1>3. QED
  BY <1>1, <1>2 DEF NextChain

\* The lock belongs to whoever reads or inserts, and what was read under it is current.
THEOREM ChainInvariant == ChainSpec => []ChainInv
  BY ChainAssumption, InitChainInv, NextKeepsChainInv, PTL DEF ChainSpec

\* However many calls of log_audit_event interleave and fail, verify_audit_chain finds the chain
\* whole.
THEOREM ChainAlwaysVerifies == ChainSpec => []ChainVerifies
<1>1. ChainInv => ChainVerifies
  BY DEF ChainInv
<1>2. QED
  BY <1>1, ChainInvariant, PTL

-----------------------------------------------------------------------------
(* What verify_audit_chain finds. *)

\* A pair is not the hash of no record.
LEMMA PairIsNoGenesis ==
    ASSUME NEW a, NEW b
    PROVE  <<a, b>> # Genesis
<1>1. DOMAIN <<a, b>> = 1 .. 2 /\ DOMAIN << >> = 1 .. 0
  OBVIOUS
<1>2. 1 \in 1 .. 2 /\ 1 \notin 1 .. 0
  OBVIOUS
<1> QED
  BY <1>1, <1>2 DEF Genesis

\* Records in a chain that verifies, and the hash of none of them is the hash of no record.
LEMMA HashIsPair ==
    ASSUME ChainInv, NEW n \in 1 .. Len(rows)
    PROVE  HashOf(rows, n) = <<Payload[rows[n].event], HashOf(rows, n - 1)>>
<1>1. n \in DOMAIN rows /\ n # 0
  BY LenProperties DEF ChainInv, RowsAreSequence
<1>2. Linked(rows, n) /\ Intact(rows, n)
  BY <1>1 DEF ChainInv, ChainVerifies, Verify
<1> QED
  BY <1>1, <1>2 DEF Linked, Intact, Hash, HashOf

\* No record has the hash of the one before it: hashes that contain each other lead down to
\* the hash of no record, which contains nothing.
LEMMA NoHashTwice ==
    ASSUME ChainInv, NEW n \in Nat, n < Len(rows)
    PROVE  HashOf(rows, n + 1) # HashOf(rows, n)
<1>1. Len(rows) \in Nat
  BY LenProperties DEF ChainInv, RowsAreSequence
<1> DEFINE Twice == {k \in Nat : k < Len(rows) /\ HashOf(rows, k + 1) = HashOf(rows, k)}
<1> SUFFICES ASSUME Twice # {} PROVE FALSE
  OBVIOUS
<1>2. PICK k \in Twice : \A j \in Twice : k <= j
  BY LeastNatural
<1>3. k \in Nat /\ k < Len(rows) /\ HashOf(rows, k + 1) = HashOf(rows, k)
  OBVIOUS
<1> HIDE DEF Twice
<1>4. HashOf(rows, k + 1) = <<Payload[rows[k + 1].event], HashOf(rows, k)>>
  <2>1. k + 1 \in 1 .. Len(rows) /\ (k + 1) - 1 = k
    BY <1>1, <1>3
  <2> QED
    BY <2>1, HashIsPair
<1>5. CASE k = 0
  <2>1. HashOf(rows, k) = Genesis
    BY <1>5 DEF HashOf
  <2> QED
    BY <1>3, <1>4, <2>1, PairIsNoGenesis
<1>6. CASE k # 0
  <2>1. k \in 1 .. Len(rows) /\ k - 1 \in Nat /\ k - 1 < Len(rows) /\ (k - 1) + 1 = k
    BY <1>1, <1>3, <1>6
  <2>2. HashOf(rows, k) = <<Payload[rows[k].event], HashOf(rows, k - 1)>>
    BY <2>1, HashIsPair
  <2>3. HashOf(rows, k) = HashOf(rows, k - 1)
    BY <1>3, <1>4, <2>2
  <2>4. k - 1 \in Twice
    BY <2>1, <2>3 DEF Twice
  <2> QED
    BY <1>2, <1>3, <2>1, <2>4
<1> QED
  BY <1>5, <1>6

\* A record whose payload was changed no longer has the hash of its payload.
LEMMA ChangeIsFound ==
    ASSUME ChainInv, NEW i \in DOMAIN rows, NEW e, Payload[e] # Payload[rows[i].event]
    PROVE  ~Verify([rows EXCEPT ![i].event = e])
<1> DEFINE changed == [rows EXCEPT ![i].event = e]
<1>1. rows[i] = [event |-> rows[i].event, prev_hash |-> rows[i].prev_hash,
                 record_hash |-> <<Payload[rows[i].event], rows[i].prev_hash>>]
  BY DEF ChainInv, RowsAreRecords, Record, Hash
<1>2. i \in DOMAIN changed /\ changed[i] = [rows[i] EXCEPT !.event = e]
  <2>1. PICK S : rows \in Seq(S)
    BY DEF ChainInv, RowsAreSequence
  <2>2. rows = [k \in DOMAIN rows |-> rows[k]]
    BY <2>1, LenProperties
  <2> QED
    BY <2>2
<1> HIDE DEF changed
<1>3. changed[i] = [event |-> e, prev_hash |-> rows[i].prev_hash,
                    record_hash |-> <<Payload[rows[i].event], rows[i].prev_hash>>]
  BY <1>1, <1>2
<1>4. ~Intact(changed, i)
  BY <1>3 DEF Intact, Hash
<1> QED
  BY <1>2, <1>4 DEF Verify, changed

\* The record after a missing one follows a record that is no longer there.
LEMMA GapIsFound ==
    ASSUME ChainInv, NEW i \in DOMAIN rows, i < Len(rows)
    PROVE  ~Verify(Without(rows, i))
<1> DEFINE cut == Without(rows, i)
<1>1. Len(rows) \in Nat /\ DOMAIN rows = 1 .. Len(rows)
  BY LenProperties DEF ChainInv, RowsAreSequence
<1>2. i \in 1 .. Len(rows) - 1 /\ i - 1 \in Nat /\ i - 1 < Len(rows) /\ (i - 1) + 1 = i
      /\ i + 1 \in 1 .. Len(rows) /\ (i + 1) - 1 = i
  BY <1>1
<1>3. i \in DOMAIN cut /\ cut[i] = rows[i + 1]
  BY <1>2 DEF Without
<1>4. HashOf(cut, i - 1) = HashOf(rows, i - 1)
  <2>1. CASE i = 1
    BY <2>1 DEF HashOf
  <2>2. CASE i # 1
    <3>1. i - 1 \in 1 .. Len(rows) - 1 /\ i - 1 < i /\ i - 1 # 0
      BY <1>2, <2>2
    <3>2. cut[i - 1] = rows[i - 1]
      BY <3>1 DEF Without
    <3> HIDE DEF cut
    <3> QED
      BY <3>1, <3>2 DEF HashOf
  <2> QED
    BY <2>1, <2>2
<1> HIDE DEF cut
<1>5. rows[i + 1].prev_hash = HashOf(rows, i)
  BY <1>1, <1>2 DEF ChainInv, ChainVerifies, Verify, Linked
<1>6. HashOf(rows, i) # HashOf(rows, i - 1)
  BY <1>2, NoHashTwice
<1>7. ~Linked(cut, i)
  BY <1>3, <1>4, <1>5, <1>6 DEF Linked
<1> QED
  BY <1>3, <1>7 DEF Verify, cut

\* A record before another one takes its place after the record they both follow.
LEMMA InsertionIsFound ==
    ASSUME ChainInv, NEW i \in DOMAIN rows, NEW e
    PROVE  ~Verify(SubSeq(rows, 1, i - 1) \o <<Record(e, HashOf(rows, i - 1))>>
                     \o SubSeq(rows, i, Len(rows)))
<1> DEFINE r == Record(e, HashOf(rows, i - 1))
           before == SubSeq(rows, 1, i - 1)
           after == SubSeq(rows, i, Len(rows))
           longer == before \o <<r>> \o after
<1>1. PICK S : rows \in Seq(S)
  BY DEF ChainInv, RowsAreSequence
<1>2. Len(rows) \in Nat /\ DOMAIN rows = 1 .. Len(rows) /\ i \in 1 .. Len(rows)
  BY <1>1, LenProperties
<1>3. before \in Seq(S) /\ Len(before) = i - 1 /\ (\A k \in 1 .. i - 1 : before[k] = rows[k])
  BY <1>1, <1>2, SubSeqProperties
<1>4. after \in Seq(S) /\ Len(after) = Len(rows) - i + 1 /\ after[1] = rows[i]
  BY <1>1, <1>2, SubSeqProperties
<1>5. i \in Nat /\ Len(longer) = Len(rows) + 1 /\ DOMAIN longer = 1 .. Len(rows) + 1
      /\ longer[i] = r /\ longer[i + 1] = rows[i]
  <2> DEFINE T == S \union {r}
  <2>1. before \in Seq(T) /\ <<r>> \in Seq(T) /\ after \in Seq(T)
        /\ Len(<<r>>) = 1 /\ <<r>>[1] = r
    BY <1>3, <1>4
  <2> HIDE DEF before, after, r, T
  <2>2. PICK first : first = before \o <<r>>
    OBVIOUS
  <2>3. first \in Seq(T) /\ Len(first) = i /\ first[i] = r
    <3>1. first \in Seq(T) /\ Len(first) = Len(before) + 1
          /\ first[Len(before) + 1] = <<r>>[1]
      BY <2>1, <2>2, ConcatProperties
    <3> QED
      BY <1>2, <1>3, <2>1, <3>1
  <2>4. longer \in Seq(T) /\ Len(longer) = Len(rows) + 1
        /\ longer[i] = first[i] /\ longer[i + 1] = after[1]
    <3>1. longer = first \o after
      BY <2>2
    <3> HIDE DEF longer
    <3>2. /\ longer \in Seq(T) /\ Len(longer) = Len(first) + Len(after)
          /\ \A k \in 1 .. Len(first) + Len(after) :
                longer[k] = IF k <= Len(first) THEN first[k] ELSE after[k - Len(first)]
      BY <2>1, <2>3, <3>1, ConcatProperties
    <3>3. /\ i \in 1 .. Len(first) + Len(after) /\ i <= Len(first)
          /\ i + 1 \in 1 .. Len(first) + Len(after) /\ ~(i + 1 <= Len(first))
          /\ (i + 1) - Len(first) = 1
      BY <1>2, <1>4, <2>3
    <3>4. Len(first) + Len(after) = Len(rows) + 1
      BY <1>2, <1>4, <2>3
    <3>5. longer[i] = first[i] /\ longer[i + 1] = after[1]
      BY <3>2, <3>3
    <3> QED
      BY <3>2, <3>4, <3>5
  <2> QED
    BY <1>2, <1>4, <2>3, <2>4, LenProperties
<1> HIDE DEF longer
<1>6. r.record_hash = <<Payload[e], HashOf(rows, i - 1)>>
  BY DEF Record, Hash
<1>7. rows[i].prev_hash = HashOf(rows, i - 1)
  BY <1>2 DEF ChainInv, ChainVerifies, Verify, Linked
<1> HIDE DEF r
<1>8. <<Payload[e], HashOf(rows, i - 1)>> # HashOf(rows, i - 1)
  <2>1. CASE i = 1
    BY <2>1, PairIsNoGenesis DEF HashOf
  <2>2. CASE i # 1
    <3>1. i - 1 \in 1 .. Len(rows) /\ (i - 1) - 1 \in Nat /\ (i - 1) - 1 < Len(rows)
          /\ ((i - 1) - 1) + 1 = i - 1
      BY <1>2, <2>2
    <3>2. HashOf(rows, i - 1) = <<Payload[rows[i - 1].event], HashOf(rows, (i - 1) - 1)>>
      BY <3>1, HashIsPair
    <3>3. HashOf(rows, i - 1) # HashOf(rows, (i - 1) - 1)
      BY <3>1, NoHashTwice
    <3> QED
      BY <3>2, <3>3
  <2> QED
    BY <2>1, <2>2
<1>9. ~Linked(longer, i + 1)
  <2>1. HashOf(longer, i) = r.record_hash /\ (i + 1) - 1 = i
    BY <1>2, <1>5 DEF HashOf
  <2> QED
    BY <1>5, <1>6, <1>7, <1>8, <2>1 DEF Linked
<1>10. i + 1 \in DOMAIN longer
  BY <1>2, <1>5
<1> QED
  BY <1>9, <1>10 DEF Verify, longer, before, after, r

\* verify_audit_chain finds every change of a payload, every record missing before the last
\* and every record put before another one, however long the log has become.
THEOREM TamperingIsDetected == ChainSpec => []TamperingDetected
<1>1. ChainInv => TamperingDetected
  BY ChangeIsFound, GapIsFound, InsertionIsFound DEF TamperingDetected
<1>2. QED
  BY <1>1, ChainInvariant, PTL

-----------------------------------------------------------------------------
(* The refinement of AuditLog. *)

\* The events of the records, as AuditLog sees them.
events == [i \in DOMAIN rows |-> rows[i].event]
progress ==
    [c \in Callers |->
       CASE stage[c] \in {"lock", "read", "insert"} -> "called"
         [] stage[c] = "refresh" -> "stored"
         [] OTHER -> stage[c]]

LEMMA InitRefines == InitChain => Log!Init
<1> SUFFICES ASSUME InitChain PROVE events = << >> /\ progress = [c \in Callers |-> "idle"]
  BY DEF Log!Init, events, progress
<1>1. rows = << >> /\ DOMAIN rows = {}
  BY DEF InitChain
<1>2. events = << >>
  BY <1>1 DEF events
<1>3. QED
  BY <1>2 DEF InitChain, progress

\* Insert appends the event of the call to the events.
LEMMA InsertAppends ==
    ASSUME ChainAssumption, ChainInv, NEW c \in Callers, Insert(c)
    PROVE  events' = Append(events, EventOf[c])
<1> DEFINE r == Record(EventOf[c], prev[c])
<1>1. rows' = Append(rows, r) /\ r.event = EventOf[c]
  BY DEF Insert, Record
<1> HIDE DEF r
<1>2. /\ Len(rows) \in Nat /\ DOMAIN rows = 1 .. Len(rows)
      /\ DOMAIN rows' = 1 .. Len(rows) + 1
      /\ \A i \in 1 .. Len(rows) : rows'[i] = rows[i]
      /\ rows'[Len(rows) + 1] = r
  BY <1>1, AppendToRows DEF ChainInv
<1> DEFINE S == {rows[i].event : i \in DOMAIN rows} \union {EventOf[c]}
<1>3. events \in Seq(S) /\ Len(events) = Len(rows)
  BY <1>2 DEF events
<1>4. events' = [i \in 1 .. Len(rows) + 1 |-> rows'[i].event]
  BY <1>2 DEF events
<1>5. Append(events, EventOf[c]) \in Seq(S)
      /\ Len(Append(events, EventOf[c])) = Len(rows) + 1
      /\ \A i \in 1 .. Len(rows) : Append(events, EventOf[c])[i] = events[i]
      /\ Append(events, EventOf[c])[Len(rows) + 1] = EventOf[c]
  <2> HIDE DEF S
  <2>1. EventOf[c] \in S
    BY DEF S
  <2>2. QED
    BY <1>3, <2>1, AppendProperties
<1>6. Append(events, EventOf[c])
        = [i \in 1 .. Len(rows) + 1 |-> Append(events, EventOf[c])[i]]
  BY <1>5
<1>7. \A i \in 1 .. Len(rows) + 1 : rows'[i].event = Append(events, EventOf[c])[i]
  BY <1>1, <1>2, <1>5 DEF events
<1>8. QED
  BY <1>4, <1>6, <1>7

LEMMA StepRefines ==
    ChainAssumption /\ ChainInv /\ [NextChain]_chainVars => [Log!Next]_(Log!logVars)
<1> SUFFICES ASSUME ChainAssumption, ChainInv, [NextChain]_chainVars
             PROVE  \/ events' = events /\ progress' = progress
                    \/ Log!Next
  BY DEF Log!logVars, events, progress
<1>1. CASE UNCHANGED chainVars
  BY <1>1 DEF chainVars, events, progress
<1>2. ASSUME NEW c \in Callers, Begin(c)
      PROVE  Log!Next
  <2>1. events' = events /\ progress[c] = "idle" /\ progress' = [progress EXCEPT ![c] = "called"]
    BY <1>2 DEF ChainInv, TypeOK, Begin, events, progress
  <2>2. Log!Call(c)
    BY <2>1 DEF Log!Call, events, progress
  <2>3. QED
    BY <2>2 DEF Log!Next
<1>3. ASSUME NEW c \in Callers, Lock(c) \/ ReadLast(c)
      PROVE  events' = events /\ progress' = progress
  BY <1>3 DEF ChainInv, TypeOK, Lock, ReadLast, events, progress
<1>4. ASSUME NEW c \in Callers, Insert(c)
      PROVE  Log!Next
  <2>1. progress[c] = "called" /\ progress' = [progress EXCEPT ![c] = "stored"]
    BY <1>4 DEF ChainInv, TypeOK, Insert, progress
  <2>2. events' = Append(events, EventOf[c])
    BY <1>4, InsertAppends
  <2>3. Log!Store(c)
    BY <2>1, <2>2 DEF Log!Store, events, progress
  <2>4. QED
    BY <2>3 DEF Log!Next
<1>5. ASSUME NEW c \in Callers, ReadBack(c)
      PROVE  Log!Next
  <2>1. events' = events /\ progress[c] = "stored"
        /\ progress' = [progress EXCEPT ![c] = "returned"]
    BY <1>5 DEF ChainInv, TypeOK, ReadBack, events, progress
  <2>2. Log!Return(c)
    BY <2>1 DEF Log!Return, events, progress
  <2>3. QED
    BY <2>2 DEF Log!Next
<1>6. ASSUME NEW c \in Callers, Fail(c)
      PROVE  Log!Next
  <2>1. events' = events /\ progress[c] \in {"called", "stored"}
        /\ progress' = [progress EXCEPT ![c] = "raised"]
    BY <1>6 DEF ChainInv, TypeOK, Fail, events, progress
  <2>2. Log!Raise(c)
    BY <2>1 DEF Log!Raise, events, progress
  <2>3. QED
    BY <2>2 DEF Log!Next
<1>7. QED
  BY <1>1, <1>2, <1>3, <1>4, <1>5, <1>6 DEF NextChain, Step

\* The chain of records implements the append-only log of AuditLog.
THEOREM ChainImplementsLog == ChainSpec => ImplementsLog
<1>1. ChainSpec => Log!Init /\ [][Log!Next]_(Log!logVars)
  BY ChainAssumption, InitRefines, StepRefines, ChainInvariant, PTL DEF ChainSpec
<1>2. QED
  BY <1>1 DEF ImplementsLog, Log!Spec

-----------------------------------------------------------------------------
(* Sign-in.  What the calls of handlers, Redis and the database do to tokens. *)

\* Without a fault of Redis it answers, a refresh token that was exchanged is listed and was
\* exchanged once, and both tokens of a pair that was logged out are listed.
TokensFit ==
    /\ redis \in BOOLEAN /\ faults \in Nat
    /\ rotated \in [1 .. MaxPairs -> Nat]
    /\ faults = 0 =>
          /\ redis
          /\ \A k \in 1 .. MaxPairs : rotated[k] > 0 => rotated[k] = 1 /\ Listed("refresh", k)
          /\ \A k \in loggedOut : Listed("access", k) /\ Listed("refresh", k)

\* A step that leaves the tokens alone, though Redis may fail in it.
TokensAlone ==
    /\ UNCHANGED <<blacklist, rotated, loggedOut>>
    /\ redis' \in BOOLEAN
    /\ \/ faults' = faults /\ (redis => redis')
       \/ faults' = faults + 1

LEMMA OtherStepsLeaveTokens ==
    ASSUME TokensFit, Next,
           ~\E k \in 1 .. MaxPairs : Refresh(k) \/ Logout(k)
    PROVE  TokensAlone
<1>1. ASSUME NEW h \in Handlers, Login(h) PROVE TokensAlone
  <2> USE DEF TokensFit, TokensAlone, tokens, bounds, history
  <2>1. CASE LoginLimited(h)
    BY <2>1 DEF LoginLimited, Arrives
  <2>2. CASE LoginDenied(h)
    BY <2>2 DEF LoginDenied, Arrives
  <2>3. CASE CodeMissing(h)
    BY <2>3 DEF CodeMissing, PasswordRight, Arrives
  <2>4. ASSUME NEW u \in Users, PasswordOnly(h, u) PROVE TokensAlone
    BY <2>4 DEF PasswordOnly, PasswordRight, Arrives
  <2>5. ASSUME NEW u \in Users, NEW code \in Known, CodeWrong(h, u, code) PROVE TokensAlone
    BY <2>5 DEF CodeWrong, Arrives
  <2>6. ASSUME NEW u \in Users, NEW code \in Known, CodeReplayed(h, u, code) PROVE TokensAlone
    BY <2>6 DEF CodeReplayed, PasswordRight, Arrives
  <2>7. ASSUME NEW u \in Users, NEW code \in Known, CodeRight(h, u, code) PROVE TokensAlone
    BY <2>7 DEF CodeRight, PasswordRight, Arrives
  <2> QED
    BY ONLY <1>1, <2>1, <2>2, <2>3, <2>4, <2>5, <2>6, <2>7 DEF Login
<1>2. ASSUME NEW h \in Handlers, Pair(h) PROVE TokensAlone
  <2> USE DEF TokensFit, TokensAlone, tokens, bounds, history
  <2>1. CASE PairLimited(h)
    BY <2>1 DEF PairLimited, Arrives
  <2>2. CASE PairDenied(h)
    BY <2>2 DEF PairDenied, Arrives
  <2>3. ASSUME NEW u \in Users, NEW token \in BOOLEAN, PairStart(h, u, token) PROVE TokensAlone
    BY <2>3 DEF PairStart
  <2> QED
    BY ONLY <1>2, <2>1, <2>2, <2>3 DEF Pair
<1>3. ASSUME NEW h \in Handlers, Resume(h) PROVE TokensAlone
  BY <1>3 DEF TokensFit, TokensAlone, tokens, bounds, history, Resume, SaveSecret, Onboard,
              AuditOnboarding, Grant, AuditFails, PairLookup, PairProvision
<1>4. CASE Tick \/ RedisFails \/ RedisReturns \/ Restart
  BY <1>4 DEF TokensFit, TokensAlone, tokens, bounds, history, Tick, RedisFails, RedisReturns,
              Restart
<1> QED
  BY <1>1, <1>2, <1>3, <1>4 DEF Next

LEMMA NextKeepsTokens == TokensFit /\ [Next]_vars => TokensFit'
<1> SUFFICES ASSUME TokensFit, [Next]_vars PROVE TokensFit'
  OBVIOUS
<1>1. CASE UNCHANGED vars
  BY <1>1 DEF TokensFit, Listed, vars, tokens, bounds, history
<1>2. ASSUME NEW k \in 1 .. MaxPairs, Refresh(k) PROVE TokensFit'
  <2>1. UNCHANGED <<redis, faults, loggedOut>> /\ rotated' = [rotated EXCEPT ![k] = @ + 1]
    BY <1>2 DEF Refresh
  <2>2. CASE faults = 0
    <3>1. ~Listed("refresh", k) /\ blacklist' = blacklist \union {<<"refresh", k>>}
      BY <1>2, <2>2 DEF Refresh, TokensFit, Blacklisted
    <3> QED
      BY <2>1, <2>2, <3>1 DEF TokensFit, Listed
  <2> QED
    BY <2>1, <2>2 DEF TokensFit
<1>3. ASSUME NEW k \in 1 .. MaxPairs, Logout(k) PROVE TokensFit'
  <2>1. UNCHANGED <<redis, faults, rotated>> /\ loggedOut' = loggedOut \union {k}
    BY <1>3 DEF Logout
  <2>2. CASE faults = 0
    <3>1. blacklist' = blacklist \union {<<"access", k>>, <<"refresh", k>>}
      BY <1>3, <2>2 DEF Logout, TokensFit, Blacklisted
    <3> QED
      BY <2>1, <2>2, <3>1 DEF TokensFit, Listed
  <2> QED
    BY <2>1, <2>2 DEF TokensFit
<1>4. CASE TokensAlone
  BY <1>4 DEF TokensFit, TokensAlone, Listed
<1> QED
  BY <1>1, <1>2, <1>3, <1>4, OtherStepsLeaveTokens

LEMMA TokensAlwaysFit == Spec => []TokensFit
<1>1. Init => TokensFit
  BY DEF Init, TokensFit
<1> QED
  BY <1>1, NextKeepsTokens, PTL DEF Spec

\* A refresh token is exchanged once, however many calls come with it, as long as Redis answers.
THEOREM RefreshRotates == Spec => []RefreshedOnce
<1>1. TokensFit => RefreshedOnce
  BY DEF TokensFit, RefreshedOnce
<1> QED
  BY <1>1, TokensAlwaysFit, PTL

\* A logout that was answered holds for both tokens, as long as Redis answers.
THEOREM LogoutIsFinal == Spec => []LogoutHolds
<1>1. TokensFit => LogoutHolds
  BY DEF TokensFit, LogoutHolds, Accepts
<1> QED
  BY <1>1, TokensAlwaysFit, PTL

-----------------------------------------------------------------------------
(* One-time codes. *)

Uses == [user : Users, secret : Nat, step : Int, life : Int]

\* The record of its use outlives a code: one that may still be sent is found.
CodesFit ==
    /\ redis \in BOOLEAN /\ faults \in Nat /\ issued \in Nat
    /\ used \subseteq Uses
    /\ accepted \subseteq [user : Users, secret : Nat, step : Steps]
    /\ faults = 0 =>
          /\ redis /\ replayed = FALSE
          /\ \A a \in accepted : \E r \in used :
                /\ r.user = a.user /\ r.secret = a.secret /\ r.step = a.step
                /\ r.life > a.step + 1

\* A step that leaves the codes alone, though Redis may fail in it.
CodesAlone ==
    /\ UNCHANGED <<accepted, replayed, used>>
    /\ redis' \in BOOLEAN /\ issued' \in Nat
    /\ \/ faults' = faults /\ (redis => redis')
       \/ faults' = faults + 1

LEMMA OtherStepsLeaveCodes ==
    ASSUME CodesFit, Next, ~Tick,
           ~\E h \in Handlers : \E u \in Users : \E code \in Known : CodeRight(h, u, code)
    PROVE  CodesAlone
<1> USE DEF CodesFit, CodesAlone, server, tokens, bounds, history
<1>1. ASSUME NEW h \in Handlers, Login(h) PROVE CodesAlone
  <2>1. CASE LoginLimited(h)
    BY <2>1 DEF LoginLimited, Arrives
  <2>2. CASE LoginDenied(h)
    BY <2>2 DEF LoginDenied, Arrives
  <2>3. CASE CodeMissing(h)
    BY <2>3 DEF CodeMissing, PasswordRight, Arrives
  <2>4. ASSUME NEW u \in Users, PasswordOnly(h, u) PROVE CodesAlone
    BY <2>4 DEF PasswordOnly, PasswordRight, Arrives
  <2>5. ASSUME NEW u \in Users, NEW code \in Known, CodeWrong(h, u, code) PROVE CodesAlone
    BY <2>5 DEF CodeWrong, Arrives
  <2>6. ASSUME NEW u \in Users, NEW code \in Known, CodeReplayed(h, u, code) PROVE CodesAlone
    BY <2>6 DEF CodeReplayed, PasswordRight, Arrives
  <2> QED
    BY <1>1, <2>1, <2>2, <2>3, <2>4, <2>5, <2>6 DEF Login
<1>2. ASSUME NEW h \in Handlers, Pair(h) PROVE CodesAlone
  <2>1. CASE PairLimited(h)
    BY <2>1 DEF PairLimited, Arrives
  <2>2. CASE PairDenied(h)
    BY <2>2 DEF PairDenied, Arrives
  <2>3. ASSUME NEW u \in Users, NEW token \in BOOLEAN, PairStart(h, u, token) PROVE CodesAlone
    BY <2>3 DEF PairStart, Provision
  <2> QED
    BY ONLY <1>2, <2>1, <2>2, <2>3 DEF Pair
<1>3. ASSUME NEW h \in Handlers, Resume(h) PROVE CodesAlone
  BY <1>3 DEF Resume, SaveSecret, Onboard, AuditOnboarding, Grant, AuditFails, PairLookup,
              PairProvision, Provision
<1>4. CASE RedisFails \/ RedisReturns \/ Restart
  BY <1>4 DEF RedisFails, RedisReturns, Restart
<1>5. ASSUME NEW k \in 1 .. MaxPairs, Refresh(k) \/ Logout(k) PROVE CodesAlone
  BY <1>5 DEF Refresh, Logout
<1> QED
  BY <1>1, <1>2, <1>3, <1>4, <1>5 DEF Next

LEMMA AcceptKeepsCodes ==
    ASSUME LoginAssumption, CodesFit, NEW h \in Handlers, NEW u \in Users, NEW code \in Known,
           CodeRight(h, u, code)
    PROVE  CodesFit'
<1> DEFINE known == [user |-> u, secret |-> code.secret, step |-> code.step]
           use == [user |-> u, secret |-> code.secret, step |-> code.step, life |-> ReplayTtl]
<1>1. /\ redis' = redis /\ faults' = faults /\ issued' = issued
      /\ accepted' = accepted \union {known}
      /\ replayed' = (replayed \/ known \in accepted)
      /\ used' = IF redis THEN used \union {use} ELSE used
  BY DEF CodeRight, PasswordRight, Arrives, RecordUse
<1>2. /\ code.secret \in Nat /\ code.step \in Steps /\ code.step \in Int /\ code.step <= 1
      /\ ReplayTtl \in Nat /\ ReplayTtl > 2
  BY DEF Known, CodesFit, Steps, LoginAssumption
<1>3. /\ known \in [user : Users, secret : Nat, step : Steps] /\ use \in Uses
      /\ known.user = u /\ known.secret = code.secret /\ known.step = code.step
      /\ use.user = u /\ use.secret = code.secret /\ use.step = code.step
      /\ use.life = ReplayTtl
  BY <1>2 DEF Uses
<1> HIDE DEF known, use
<1>4. CASE faults = 0
  <2>1. Unused(u, code) /\ redis
    BY <1>4 DEF CodeRight, CodesFit
  <2>2. known \notin accepted
    BY <1>3, <1>4, <2>1 DEF CodesFit, Unused
  <2>3. \A a \in accepted' : \E r \in used' :
           /\ r.user = a.user /\ r.secret = a.secret /\ r.step = a.step
           /\ r.life > a.step + 1
    <3>1. use \in used' /\ use.life > known.step + 1
      BY <1>1, <1>2, <1>3, <2>1
    <3>2. used \subseteq used'
      BY <1>1
    <3> QED
      BY <1>1, <1>3, <1>4, <3>1, <3>2 DEF CodesFit
  <2> QED
    BY <1>1, <1>3, <1>4, <2>1, <2>2, <2>3 DEF CodesFit
<1> QED
  BY <1>1, <1>3, <1>4 DEF CodesFit

LEMMA TimeKeepsCodes ==
    ASSUME CodesFit, Tick
    PROVE  CodesFit'
<1> DEFINE olderUse(r) == [r EXCEPT !.step = @ - 1, !.life = @ - 1]
           olderCode(a) == [a EXCEPT !.step = @ - 1]
<1>1. /\ redis' = redis /\ faults' = faults /\ issued' = issued /\ replayed' = replayed
      /\ used' = {olderUse(r) : r \in {r \in used : r.life > 1}}
      /\ accepted' = {olderCode(a) : a \in {a \in accepted : a.step > -1}}
  BY DEF Tick, OlderUses, bounds
<1>2. ASSUME NEW r \in Uses
      PROVE  /\ olderUse(r) \in Uses
             /\ olderUse(r).user = r.user /\ olderUse(r).secret = r.secret
             /\ olderUse(r).step = r.step - 1 /\ olderUse(r).life = r.life - 1
  <2>1. /\ olderUse(r).user = r.user /\ olderUse(r).secret = r.secret
        /\ olderUse(r).step = r.step - 1 /\ olderUse(r).life = r.life - 1
    BY DEF Uses
  <2>2. r.step - 1 \in Int /\ r.life - 1 \in Int
    BY DEF Uses
  <2>3. olderUse(r) \in Uses
    BY <2>2 DEF Uses
  <2> QED
    BY <2>1, <2>3
<1>3. ASSUME NEW a \in [user : Users, secret : Nat, step : Steps], a.step > -1
      PROVE  /\ olderCode(a) \in [user : Users, secret : Nat, step : Steps]
             /\ olderCode(a).user = a.user /\ olderCode(a).secret = a.secret
             /\ olderCode(a).step = a.step - 1
  BY <1>3 DEF Steps
<1> HIDE DEF olderUse, olderCode
<1>4. used' \subseteq Uses /\ accepted' \subseteq [user : Users, secret : Nat, step : Steps]
  BY <1>1, <1>2, <1>3 DEF CodesFit
<1>5. ASSUME faults = 0, NEW b \in accepted'
      PROVE  \E r \in used' : /\ r.user = b.user /\ r.secret = b.secret /\ r.step = b.step
                              /\ r.life > b.step + 1
  <2>1. PICK a \in accepted : a.step > -1 /\ b = olderCode(a)
    BY <1>1
  <2>2. PICK r \in used : /\ r.user = a.user /\ r.secret = a.secret /\ r.step = a.step
                          /\ r.life > a.step + 1
    BY <1>5 DEF CodesFit
  <2>3. r \in Uses /\ a \in [user : Users, secret : Nat, step : Steps]
    BY DEF CodesFit
  <2>4. a.step \in Int /\ r.life \in Int /\ r.step \in Int
    BY <2>3 DEF Uses, Steps
  <2>5. olderUse(r) \in used'
    BY <1>1, <2>1, <2>2, <2>4
  <2>6. /\ olderUse(r).user = b.user /\ olderUse(r).secret = b.secret
        /\ olderUse(r).step = b.step /\ olderUse(r).life > b.step + 1
    BY <1>2, <1>3, <2>1, <2>2, <2>3, <2>4
  <2> QED
    BY <2>5, <2>6
<1> QED
  BY <1>1, <1>4, <1>5 DEF CodesFit

LEMMA NextKeepsCodes == LoginAssumption /\ CodesFit /\ [Next]_vars => CodesFit'
<1> SUFFICES ASSUME LoginAssumption, CodesFit, [Next]_vars PROVE CodesFit'
  OBVIOUS
<1>1. CASE UNCHANGED vars
  BY <1>1 DEF CodesFit, Uses, vars, bounds, history
<1>2. CASE CodesAlone
  BY <1>2 DEF CodesFit, CodesAlone
<1> QED
  BY <1>1, <1>2, OtherStepsLeaveCodes, AcceptKeepsCodes, TimeKeepsCodes

\* A code opens one session of its user, however logins interleave, as long as Redis answers.
THEOREM CodesAreSpent == Spec => []CodeOpensOneSession
<1>1. Init => CodesFit
  BY DEF Init, CodesFit
<1>2. CodesFit => CodeOpensOneSession
  BY DEF CodesFit, CodeOpensOneSession
<1> QED
  BY <1>1, <1>2, LoginAssumption, NextKeepsCodes, PTL DEF Spec

-----------------------------------------------------------------------------
(* The second factor of admin. *)

MaybeSecret == Secrets \union {None}
PendingSecret == [secret : MaybeSecret, life : Int]
LoginSteps == {"idle", "save", "onboard", "onboarded", "granted", "lookup", "provision"}

FactorTyped ==
    /\ dbFaults \in Nat /\ issued \in Nat /\ \A s \in 1 .. issued : s \in Secrets
    /\ pc \in [Handlers -> LoginSteps] /\ req = [h \in Handlers |-> req[h]]
    /\ pending \in [Users -> PendingSecret] /\ pendingMem \in [Users -> PendingSecret]
    /\ \A h \in Handlers : pc[h] # "idle" => req[h].user \in Users
    /\ setting \in MaybeSecret
    /\ stored \in [Users -> MaybeSecret] /\ confirmed \in [Users -> MaybeSecret]

Confirms(h) == pc[h] \in {"save", "onboard"}

ConfirmsSecret == \A h \in Handlers : Confirms(h) => req[h].secret \in Secrets

\* All handlers that confirm a secret of admin have the same one, which the process and, after
\* it was saved, the database have if they have any; what the process has, the database has, and
\* it is what admin confirmed last.
SecretsAgree ==
    /\ \A h \in Handlers : Confirms(h) /\ req[h].user = Admin =>
          /\ pc[h] = "onboard" => stored[Admin] = req[h].secret
          /\ setting # None => setting = req[h].secret
          /\ \A g \in Handlers : Confirms(g) /\ req[g].user = Admin => req[g].secret = req[h].secret
    /\ setting # None => setting = stored[Admin]
    /\ confirmed[Admin] # None => setting = confirmed[Admin]

FactorFits ==
    /\ FactorTyped /\ ConfirmsSecret
    /\ dbFaults = 0 /\ ~crossed => SecretsAgree /\ ~lax /\ Admin \notin wronged

\* A step after which nobody confirms a secret who did not before.
NobodyStarts ==
    \A h \in Handlers : Confirms(h)' => /\ pc'[h] = pc[h] /\ req'[h].user = req[h].user
                                        /\ req'[h].secret = req[h].secret

\* A step that leaves the second factor alone.
FactorAlone ==
    /\ UNCHANGED <<setting, stored, confirmed, lax, wronged, crossed>>
    /\ dbFaults' \in {dbFaults, dbFaults + 1}
    /\ NobodyStarts

LEMMA AloneKeepsFactor ==
    ASSUME FactorFits, FactorTyped', FactorAlone
    PROVE  FactorFits'
<1>1. ConfirmsSecret'
  BY DEF FactorFits, FactorAlone, NobodyStarts, ConfirmsSecret, Confirms
<1>2. CASE dbFaults' = 0 /\ ~crossed'
  <2>1. dbFaults = 0 /\ ~crossed
    BY <1>2 DEF FactorFits, FactorTyped, FactorAlone
  <2>2. SecretsAgree /\ ~lax /\ Admin \notin wronged
    BY <2>1 DEF FactorFits
  <2>3. SecretsAgree'
    BY <2>2 DEF FactorAlone, NobodyStarts, SecretsAgree, Confirms
  <2> QED
    BY <1>1, <2>2, <2>3 DEF FactorFits, FactorAlone
<1> QED
  BY <1>1, <1>2 DEF FactorFits

\* Admin is a user, and None is no secret.
LEMMA AdminIsUser == LoginAssumption => Admin \in Users /\ None \notin Secrets
  BY DEF LoginAssumption, Users

LEMMA LoginKeepsTypes ==
    ASSUME LoginAssumption, FactorTyped, NEW h \in Handlers, Login(h)
    PROVE  FactorTyped'
<1> USE DEF FactorTyped, LoginSteps, server, tokens, bounds, history
<1>1. CASE LoginLimited(h)
  BY <1>1 DEF LoginLimited, Arrives
<1>2. CASE LoginDenied(h)
  BY <1>2 DEF LoginDenied, Arrives
<1>3. CASE CodeMissing(h)
  BY <1>3 DEF CodeMissing, PasswordRight, Arrives
<1>4. ASSUME NEW u \in Users, PasswordOnly(h, u) PROVE FactorTyped'
  BY <1>4 DEF PasswordOnly, PasswordRight, Arrives, NoReq
<1>5. ASSUME NEW u \in Users, NEW code \in Known, CodeWrong(h, u, code) PROVE FactorTyped'
  BY <1>5 DEF CodeWrong, Arrives
<1>6. ASSUME NEW u \in Users, NEW code \in Known, CodeReplayed(h, u, code) PROVE FactorTyped'
  BY <1>6 DEF CodeReplayed, PasswordRight, Arrives
<1>7. ASSUME NEW u \in Users, NEW code \in Known, CodeRight(h, u, code) PROVE FactorTyped'
  BY <1>7 DEF CodeRight, PasswordRight, Arrives, NoReq
<1> QED
  BY <1>1, <1>2, <1>3, <1>4, <1>5, <1>6, <1>7 DEF Login

LEMMA ProvisionKeepsTypes ==
    ASSUME LoginAssumption, FactorTyped, NEW u \in Users, Provision(u)
    PROVE  /\ issued' \in Nat /\ \A s \in 1 .. issued' : s \in Secrets
           /\ pending' \in [Users -> PendingSecret] /\ pendingMem' \in [Users -> PendingSecret]
<1>1. CASE UNCHANGED <<pending, pendingMem, issued>>
  BY <1>1 DEF FactorTyped
<1>2. CASE issued < MaxSecrets /\ issued' = issued + 1
  <2> DEFINE p == [secret |-> issued + 1, life |-> PendingTtl]
  <2>1. issued + 1 \in Secrets /\ PendingTtl \in Int /\ issued' \in Nat
    BY <1>2 DEF FactorTyped, LoginAssumption, Secrets
  <2>2. p \in PendingSecret
    BY <2>1 DEF PendingSecret, MaybeSecret
  <2>3. \A s \in 1 .. issued' : s \in Secrets
    BY <1>2, <2>1 DEF FactorTyped
  <2>4. CASE setting # None /\ u = Admin
    BY <1>2, <2>4 DEF Provision, FactorTyped
  <2>5. CASE ~(setting # None /\ u = Admin)
    <3>1. /\ pending' = IF redis THEN [pending EXCEPT ![u] = p] ELSE pending
          /\ pendingMem' = [pendingMem EXCEPT ![u] = p]
      BY <2>5 DEF Provision
    <3> HIDE DEF p
    <3> QED
      BY <2>1, <2>2, <2>3, <3>1 DEF FactorTyped
  <2> QED
    BY <2>4, <2>5
<1> QED
  BY <1>1, <1>2 DEF Provision

LEMMA PairKeepsTypes ==
    ASSUME LoginAssumption, FactorTyped, NEW h \in Handlers, Pair(h)
    PROVE  FactorTyped'
<1> USE DEF LoginSteps, server, tables, tokens, bounds, history
<1>1. CASE PairLimited(h)
  BY <1>1 DEF FactorTyped, PairLimited, Arrives
<1>2. CASE PairDenied(h)
  BY <1>2 DEF FactorTyped, PairDenied, Arrives
<1>3. ASSUME NEW u \in Users, NEW token \in BOOLEAN, PairStart(h, u, token) PROVE FactorTyped'
  <2>1. /\ issued' \in Nat /\ \A s \in 1 .. issued' : s \in Secrets
        /\ pending' \in [Users -> PendingSecret] /\ pendingMem' \in [Users -> PendingSecret]
    <3>1. CASE Provision(u)
      BY <3>1, ProvisionKeepsTypes
    <3>2. CASE UNCHANGED <<failed, pending, pendingMem, issued>>
      BY <3>2 DEF FactorTyped
    <3> QED
      BY <1>3, <3>1, <3>2 DEF PairStart
  <2>2. UNCHANGED <<dbFaults, setting, stored, confirmed>>
    BY <1>3 DEF PairStart
  <2>3. /\ pc' \in [Handlers -> LoginSteps] /\ req' = [g \in Handlers |-> req'[g]]
        /\ \A g \in Handlers : pc'[g] # "idle" => req'[g].user \in Users
    <3>1. CASE UNCHANGED <<pc, req>>
      BY <3>1 DEF FactorTyped
    <3>2. CASE pc' = [pc EXCEPT ![h] = "lookup"]
      <4>1. PICK r : r = [NoReq EXCEPT !.user = u, !.token = token]
        OBVIOUS
      <4>2. r.user = u
        BY <4>1 DEF NoReq
      <4>3. req' = [req EXCEPT ![h] = r] \/ UNCHANGED <<pc, req>>
        BY <1>3, <4>1 DEF PairStart
      <4> QED
        BY <3>1, <3>2, <4>2, <4>3 DEF FactorTyped
    <3> QED
      BY <1>3, <3>1, <3>2 DEF PairStart
  <2> QED
    BY <2>1, <2>2, <2>3 DEF FactorTyped
<1> QED
  BY <1>1, <1>2, <1>3 DEF Pair

LEMMA ResumeKeepsTypes ==
    ASSUME LoginAssumption, FactorTyped, ConfirmsSecret, NEW h \in Handlers, Resume(h)
    PROVE  FactorTyped'
<1> USE DEF LoginSteps, server, tables, tokens, bounds, history
<1>1. CASE SaveSecret(h)
  <2>1. req[h].user \in Users /\ req[h].secret \in MaybeSecret
    BY <1>1 DEF SaveSecret, FactorTyped, ConfirmsSecret, Confirms, MaybeSecret
  <2> QED
    BY <1>1, <2>1 DEF SaveSecret, Saved, FactorTyped
<1>2. CASE Onboard(h)
  <2>1. req[h].user \in Users /\ req[h].secret \in MaybeSecret
    BY <1>2 DEF Onboard, FactorTyped, ConfirmsSecret, Confirms, MaybeSecret
  <2>2. NoPending \in PendingSecret
    BY DEF NoPending, PendingSecret, MaybeSecret
  <2> QED
    BY <1>2, <2>1, <2>2 DEF Onboard, FactorTyped
<1>3. CASE AuditOnboarding(h) \/ Grant(h) \/ AuditFails(h)
  BY <1>3 DEF AuditOnboarding, Grant, AuditFails, NoReq, FactorTyped
<1>4. CASE PairLookup(h)
  BY <1>4 DEF PairLookup, FactorTyped
<1>5. CASE PairProvision(h)
  <2>1. req[h].user \in Users
    BY <1>5 DEF PairProvision, FactorTyped
  <2>2. /\ issued' \in Nat /\ \A s \in 1 .. issued' : s \in Secrets
        /\ pending' \in [Users -> PendingSecret] /\ pendingMem' \in [Users -> PendingSecret]
    <3>1. CASE Provision(req[h].user)
      BY <2>1, <3>1, ProvisionKeepsTypes
    <3>2. CASE UNCHANGED <<failed, pending, pendingMem, issued>>
      BY <3>2 DEF FactorTyped
    <3> QED
      BY <1>5, <3>1, <3>2 DEF PairProvision
  <2>3. /\ UNCHANGED <<dbFaults, setting, stored, confirmed>>
        /\ pc' \in [Handlers -> LoginSteps] /\ req' = [g \in Handlers |-> req'[g]]
        /\ \A g \in Handlers : pc'[g] # "idle" => req'[g].user \in Users
    BY <1>5 DEF PairProvision, FactorTyped, NoReq
  <2> QED
    BY <2>2, <2>3 DEF FactorTyped
<1> QED
  BY <1>1, <1>2, <1>3, <1>4, <1>5 DEF Resume

LEMMA OtherStepsKeepTypes ==
    ASSUME LoginAssumption, FactorTyped,
           \/ Tick \/ RedisFails \/ RedisReturns \/ Restart
           \/ \E k \in 1 .. MaxPairs : Refresh(k) \/ Logout(k)
    PROVE  FactorTyped'
<1> USE DEF server, tables, tokens, bounds, history
<1>1. NoPending \in PendingSecret
  BY DEF NoPending, PendingSecret, MaybeSecret
<1>2. CASE Tick
  <2>1. \A p \in PendingSecret : OlderSecret(p) \in PendingSecret
    BY <1>1 DEF OlderSecret, PendingSecret
  <2>2. /\ pending' \in [Users -> PendingSecret] /\ pendingMem' \in [Users -> PendingSecret]
    BY <1>2, <2>1 DEF Tick, FactorTyped
  <2> QED
    BY <1>2, <2>2 DEF Tick, FactorTyped
<1>3. CASE RedisFails \/ RedisReturns
  BY <1>3 DEF RedisFails, RedisReturns, FactorTyped
<1>4. CASE Restart
  <2>1. Loaded \in MaybeSecret /\ None \in MaybeSecret
    BY AdminIsUser DEF Loaded, FactorTyped, MaybeSecret
  <2> QED
    BY <1>1, <1>4, <2>1 DEF Restart, FactorTyped, LoginSteps
<1>5. ASSUME NEW k \in 1 .. MaxPairs, Refresh(k) \/ Logout(k) PROVE FactorTyped'
  BY <1>5 DEF Refresh, Logout, FactorTyped
<1> QED
  BY <1>2, <1>3, <1>4, <1>5

LEMMA NextKeepsTypes ==
    ASSUME LoginAssumption, FactorTyped, ConfirmsSecret, Next
    PROVE  FactorTyped'
  BY LoginKeepsTypes, PairKeepsTypes, ResumeKeepsTypes, OtherStepsKeepTypes DEF Next

\* Password alone opens a session only as long as the process has no secret.
LEMMA PasswordOnlyKeepsFactor ==
    ASSUME LoginAssumption, FactorFits, FactorTyped',
           NEW h \in Handlers, NEW u \in Users, PasswordOnly(h, u)
    PROVE  FactorFits'
<1>1. /\ UNCHANGED <<setting, stored, confirmed, wronged, crossed, dbFaults>>
      /\ setting = None
      /\ lax' = (lax \/ confirmed[Admin] # None)
      /\ pc' = [pc EXCEPT ![h] = "granted"] /\ \A g \in Handlers : g # h => req'[g] = req[g]
  BY DEF PasswordOnly, PasswordRight, Arrives, Required, FactorFits, FactorTyped
<1>2. NobodyStarts
  BY <1>1 DEF NobodyStarts, Confirms, FactorFits, FactorTyped
<1>3. ConfirmsSecret'
  BY <1>2 DEF NobodyStarts, FactorFits, ConfirmsSecret, Confirms
<1>4. CASE dbFaults = 0 /\ ~crossed
  <2>1. SecretsAgree /\ ~lax /\ Admin \notin wronged
    BY <1>4 DEF FactorFits
  <2>2. confirmed[Admin] = None
    BY <1>1, <2>1 DEF SecretsAgree
  <2>3. SecretsAgree'
    BY <1>1, <1>2, <2>1 DEF NobodyStarts, SecretsAgree, Confirms
  <2> QED
    BY <1>1, <1>3, <2>1, <2>2, <2>3 DEF FactorFits
<1> QED
  BY <1>1, <1>3, <1>4 DEF FactorFits

\* A fresh code of the secret admin confirmed is never wrong.
LEMMA CodeWrongKeepsFactor ==
    ASSUME LoginAssumption, FactorFits, FactorTyped',
           NEW h \in Handlers, NEW u \in Users, NEW code \in Known, CodeWrong(h, u, code)
    PROVE  FactorFits'
<1>1. /\ UNCHANGED <<setting, stored, confirmed, lax, crossed, dbFaults, pc, req>>
      /\ code.secret # Target(u)
      /\ wronged' = IF code.secret = confirmed[u] THEN wronged \union {u} ELSE wronged
  BY DEF CodeWrong, Arrives
<1>2. NobodyStarts
  BY <1>1 DEF NobodyStarts, Confirms
<1>3. ConfirmsSecret'
  BY <1>2 DEF NobodyStarts, FactorFits, ConfirmsSecret, Confirms
<1>4. code.secret # None
  BY AdminIsUser DEF Known, FactorFits, FactorTyped
<1>5. CASE dbFaults = 0 /\ ~crossed
  <2>1. SecretsAgree /\ ~lax /\ Admin \notin wronged
    BY <1>5 DEF FactorFits
  <2>2. Admin \notin wronged'
    BY <1>1, <1>4, <2>1 DEF SecretsAgree, Target
  <2>3. SecretsAgree'
    BY <1>1, <1>2, <2>1 DEF NobodyStarts, SecretsAgree, Confirms
  <2> QED
    BY <1>1, <1>3, <2>1, <2>2, <2>3 DEF FactorFits
<1> QED
  BY <1>1, <1>3, <1>5 DEF FactorFits

\* Unless secrets cross, a secret of admin that is being confirmed is the one the others have.
LEMMA CodeRightKeepsFactor ==
    ASSUME LoginAssumption, FactorFits, FactorTyped',
           NEW h \in Handlers, NEW u \in Users, NEW code \in Known, CodeRight(h, u, code)
    PROVE  FactorFits'
<1>1. PICK r : r = [NoReq EXCEPT !.user = u, !.secret = Pending(u)]
  OBVIOUS
<1>2. r.user = u /\ r.secret = Pending(u)
  BY <1>1 DEF NoReq
<1>3. /\ UNCHANGED <<setting, stored, confirmed, lax, wronged, dbFaults>>
      /\ pc[h] = "idle" /\ code.secret = Target(u)
      /\ req' = [req EXCEPT ![h] = r]
      /\ IF Onboards(u) THEN pc' = [pc EXCEPT ![h] = "save"]
                        ELSE pc' = [pc EXCEPT ![h] = "granted"]
      /\ crossed' = (crossed \/ (u = Admin /\ Onboards(u)
                                 /\ \E g \in Confirming(u) : req[g].secret # Pending(u)))
  BY <1>1 DEF CodeRight, PasswordRight, Arrives
<1>4. /\ req'[h] = r /\ ~Confirms(h) /\ (Confirms(h)' => Onboards(u) /\ pc'[h] = "save")
      /\ \A g \in Handlers : g # h => req'[g] = req[g] /\ pc'[g] = pc[g]
  BY <1>3 DEF FactorFits, FactorTyped, Confirms
<1>5. Onboards(u) => Pending(u) \in Secrets
  BY DEF Onboards, Pending, FactorFits, FactorTyped, PendingSecret, MaybeSecret
<1>6. ConfirmsSecret'
  BY <1>2, <1>4, <1>5 DEF ConfirmsSecret, Confirms, FactorFits
<1>7. ASSUME dbFaults' = 0, ~crossed'
      PROVE  SecretsAgree' /\ ~lax' /\ Admin \notin wronged'
  <2>1. SecretsAgree /\ ~lax /\ Admin \notin wronged
    BY <1>3, <1>7 DEF FactorFits
  <2>2. u = Admin /\ Onboards(u) =>
           \A g \in Handlers : Confirms(g) /\ req[g].user = Admin => req[g].secret = Pending(u)
    BY <1>3, <1>7 DEF Confirming, Confirms
  <2>3. Onboards(u) /\ setting # None => setting = Pending(u)
    BY DEF Onboards, Target
  <2>4. SecretsAgree'
    <3>1. ASSUME NEW g \in Handlers, Confirms(g)', req'[g].user = Admin
          PROVE  /\ pc'[g] = "onboard" => stored'[Admin] = req'[g].secret
                 /\ setting' # None => setting' = req'[g].secret
                 /\ \A f \in Handlers : Confirms(f)' /\ req'[f].user = Admin =>
                        req'[f].secret = req'[g].secret
      <4>1. CASE g = h
        BY <1>2, <1>3, <1>4, <2>2, <2>3, <3>1, <4>1 DEF Confirms
      <4>2. CASE g # h
        BY <1>2, <1>3, <1>4, <2>1, <2>2, <3>1, <4>2 DEF Confirms, SecretsAgree
      <4> QED
        BY <4>1, <4>2
    <3> QED
      BY <1>3, <2>1, <3>1 DEF SecretsAgree
  <2> QED
    BY <1>3, <2>1, <2>4
<1> QED
  BY <1>6, <1>7 DEF FactorFits

LEMMA SaveKeepsFactor ==
    ASSUME LoginAssumption, FactorFits, FactorTyped', NEW h \in Handlers, SaveSecret(h)
    PROVE  FactorFits'
<1>1. /\ UNCHANGED <<setting, confirmed, lax, wronged, crossed, req>> /\ pc[h] = "save"
      /\ \/ stored' = [stored EXCEPT ![req[h].user] = req[h].secret] /\ dbFaults' = dbFaults
         \/ dbFaults' = dbFaults + 1
      /\ pc' = [pc EXCEPT ![h] = "onboard"]
  BY DEF SaveSecret, Saved, server, history
<1>2. /\ Confirms(h) /\ pc'[h] = "onboard" /\ req[h].user \in Users
      /\ \A g \in Handlers : (Confirms(g)' <=> Confirms(g)) /\ (g # h => pc'[g] = pc[g])
  BY <1>1 DEF FactorFits, FactorTyped, Confirms
<1>3. ConfirmsSecret'
  BY <1>1, <1>2 DEF FactorFits, ConfirmsSecret
<1>4. ASSUME dbFaults' = 0, ~crossed'
      PROVE  SecretsAgree' /\ ~lax' /\ Admin \notin wronged'
  <2>1. /\ stored' = [stored EXCEPT ![req[h].user] = req[h].secret] /\ dbFaults = 0
    BY <1>1, <1>4 DEF FactorFits, FactorTyped
  <2>2. SecretsAgree /\ ~lax /\ Admin \notin wronged
    BY <1>1, <1>4, <2>1 DEF FactorFits
  <2>3. CASE req[h].user = Admin
    <3>1. stored'[Admin] = req[h].secret
      BY <1>2, <2>1, <2>3 DEF FactorFits, FactorTyped
    <3> QED
      BY <1>1, <1>2, <2>2, <2>3, <3>1 DEF SecretsAgree
  <2>4. CASE req[h].user # Admin
    <3>1. stored'[Admin] = stored[Admin]
      BY AdminIsUser, <1>2, <2>1, <2>4 DEF FactorFits, FactorTyped
    <3> QED
      BY <1>1, <1>2, <2>2, <2>4, <3>1 DEF SecretsAgree
  <2> QED
    BY <2>3, <2>4
<1> QED
  BY <1>3, <1>4 DEF FactorFits

LEMMA OnboardKeepsFactor ==
    ASSUME LoginAssumption, FactorFits, FactorTyped', NEW h \in Handlers, Onboard(h)
    PROVE  FactorFits'
<1> DEFINE u == req[h].user
<1>1. /\ UNCHANGED <<stored, lax, wronged, crossed, dbFaults, req>> /\ pc[h] = "onboard"
      /\ setting' = IF u = Admin THEN req[h].secret ELSE setting
      /\ confirmed' = [confirmed EXCEPT ![u] = req[h].secret]
      /\ pc' = [pc EXCEPT ![h] = "onboarded"]
  BY DEF Onboard, tables, bounds
<1>2. /\ Confirms(h) /\ u \in Users
      /\ \A g \in Handlers : Confirms(g)' => Confirms(g) /\ pc'[g] = pc[g]
  BY <1>1 DEF FactorFits, FactorTyped, Confirms
<1>3. ConfirmsSecret'
  BY <1>1, <1>2 DEF FactorFits, ConfirmsSecret
<1>4. ASSUME dbFaults' = 0, ~crossed'
      PROVE  SecretsAgree' /\ ~lax' /\ Admin \notin wronged'
  <2>1. SecretsAgree /\ ~lax /\ Admin \notin wronged
    BY <1>1, <1>4 DEF FactorFits
  <2>2. CASE u = Admin
    <3>1. setting' = req[h].secret /\ confirmed'[Admin] = req[h].secret
      BY <1>1, <1>2, <2>2 DEF FactorFits, FactorTyped
    <3> QED
      BY <1>1, <1>2, <2>1, <2>2, <3>1 DEF SecretsAgree
  <2>3. CASE u # Admin
    <3>1. setting' = setting /\ confirmed'[Admin] = confirmed[Admin]
      BY AdminIsUser, <1>1, <1>2, <2>3 DEF FactorFits, FactorTyped
    <3> QED
      BY <1>1, <1>2, <2>1, <2>3, <3>1 DEF SecretsAgree
  <2> QED
    BY <2>2, <2>3
<1> QED
  BY <1>3, <1>4 DEF FactorFits

\* After a restart the process has the secret the database has.
LEMMA RestartKeepsFactor ==
    ASSUME LoginAssumption, FactorFits, FactorTyped', Restart
    PROVE  FactorFits'
<1>1. /\ UNCHANGED <<stored, confirmed, lax, wronged, crossed>>
      /\ \/ setting' = stored[Admin] /\ dbFaults' = dbFaults
         \/ dbFaults' = dbFaults + 1
      /\ \A g \in Handlers : ~Confirms(g)'
  BY DEF Restart, Loaded, tables, history, Confirms
<1>2. ConfirmsSecret'
  BY <1>1 DEF ConfirmsSecret
<1>3. ASSUME dbFaults' = 0, ~crossed'
      PROVE  SecretsAgree' /\ ~lax' /\ Admin \notin wronged'
  <2>1. setting' = stored[Admin] /\ dbFaults = 0
    BY <1>1, <1>3 DEF FactorFits, FactorTyped
  <2>2. SecretsAgree /\ ~lax /\ Admin \notin wronged
    BY <1>1, <1>3, <2>1 DEF FactorFits
  <2> QED
    BY <1>1, <2>1, <2>2 DEF SecretsAgree
<1> QED
  BY <1>2, <1>3 DEF FactorFits

LEMMA OtherStepsLeaveFactor ==
    ASSUME LoginAssumption, FactorTyped, Next, ~Restart,
           ~\E h \in Handlers : SaveSecret(h) \/ Onboard(h),
           ~\E h \in Handlers : \E u \in Users :
                \/ PasswordOnly(h, u)
                \/ \E code \in Known : CodeWrong(h, u, code) \/ CodeRight(h, u, code)
    PROVE  FactorAlone
<1> USE DEF FactorAlone, NobodyStarts, Confirms, server, tables, tokens, bounds, history
<1>1. ASSUME NEW h \in Handlers, Login(h) PROVE FactorAlone
  <2>1. CASE LoginLimited(h)
    BY <2>1 DEF LoginLimited, Arrives
  <2>2. CASE LoginDenied(h)
    BY <2>2 DEF LoginDenied, Arrives
  <2>3. CASE CodeMissing(h)
    BY <2>3 DEF CodeMissing, PasswordRight, Arrives
  <2>4. ASSUME NEW u \in Users, NEW code \in Known, CodeReplayed(h, u, code) PROVE FactorAlone
    BY <2>4 DEF CodeReplayed, PasswordRight, Arrives
  <2> QED
    BY <1>1, <2>1, <2>2, <2>3, <2>4 DEF Login
<1>2. ASSUME NEW h \in Handlers, Pair(h) PROVE FactorAlone
  <2>1. CASE PairLimited(h)
    BY <2>1 DEF PairLimited, Arrives
  <2>2. CASE PairDenied(h)
    BY <2>2 DEF PairDenied, Arrives
  <2>3. ASSUME NEW u \in Users, NEW token \in BOOLEAN, PairStart(h, u, token) PROVE FactorAlone
    <3>1. UNCHANGED <<setting, stored, confirmed, lax, wronged, crossed, dbFaults>>
      BY <2>3 DEF PairStart
    <3>2. \/ UNCHANGED <<pc, req>>
          \/ \E r : pc' = [pc EXCEPT ![h] = "lookup"] /\ req' = [req EXCEPT ![h] = r]
      BY <2>3 DEF PairStart
    <3> QED
      BY <3>1, <3>2 DEF FactorTyped
  <2> QED
    BY ONLY <1>2, <2>1, <2>2, <2>3 DEF Pair
<1>3. ASSUME NEW h \in Handlers, Resume(h) PROVE FactorAlone
  <2>1. CASE AuditOnboarding(h) \/ Grant(h) \/ AuditFails(h)
    BY <2>1 DEF AuditOnboarding, Grant, AuditFails, FactorTyped
  <2>2. CASE PairLookup(h)
    BY <2>2 DEF PairLookup, FactorTyped
  <2>3. CASE PairProvision(h)
    BY <2>3 DEF PairProvision, FactorTyped
  <2> QED
    BY <1>3, <2>1, <2>2, <2>3 DEF Resume
<1>4. CASE Tick \/ RedisFails \/ RedisReturns
  BY <1>4 DEF Tick, RedisFails, RedisReturns
<1>5. ASSUME NEW k \in 1 .. MaxPairs, Refresh(k) \/ Logout(k) PROVE FactorAlone
  BY <1>5 DEF Refresh, Logout
<1> QED
  BY <1>1, <1>2, <1>3, <1>4, <1>5 DEF Next

LEMMA NextKeepsFactor == LoginAssumption /\ FactorFits /\ [Next]_vars => FactorFits'
<1> SUFFICES ASSUME LoginAssumption, FactorFits, [Next]_vars PROVE FactorFits'
  OBVIOUS
<1>1. CASE UNCHANGED vars
  BY <1>1 DEF FactorFits, FactorTyped, ConfirmsSecret, Confirms, SecretsAgree, vars, bounds, history
<1>2. CASE Next
  <2>1. FactorTyped'
    BY <1>2, NextKeepsTypes DEF FactorFits
  <2>2. CASE FactorAlone
    BY <2>1, <2>2, AloneKeepsFactor
  <2>3. FactorTyped
    BY DEF FactorFits
  <2> QED
    BY <1>2, <2>1, <2>2, <2>3, OtherStepsLeaveFactor, PasswordOnlyKeepsFactor,
       CodeWrongKeepsFactor, CodeRightKeepsFactor, SaveKeepsFactor, OnboardKeepsFactor,
       RestartKeepsFactor
<1> QED
  BY <1>1, <1>2

LEMMA InitFactorFits == LoginAssumption /\ Init => FactorFits
<1> SUFFICES ASSUME LoginAssumption, Init PROVE FactorFits
  OBVIOUS
<1>1. None \in MaybeSecret /\ NoPending \in PendingSecret
  BY DEF MaybeSecret, NoPending, PendingSecret
<1>2. FactorTyped
  BY <1>1 DEF Init, FactorTyped, LoginSteps
<1>3. ConfirmsSecret /\ SecretsAgree
  BY AdminIsUser DEF Init, ConfirmsSecret, Confirms, SecretsAgree
<1> QED
  BY <1>2, <1>3 DEF Init, FactorFits

\* What admin confirmed stays the second factor, unless the database fails or two secrets of
\* admin are being confirmed at once.
THEOREM AdminKeepsSecondFactor == Spec => []SecondFactorStays
<1>1. FactorFits => SecondFactorStays
  <2> SUFFICES ASSUME FactorFits, dbFaults = 0, ~crossed
               PROVE  ~lax /\ Admin \notin wronged
    BY DEF FactorFits, FactorTyped, SecondFactorStays
  <2> QED
    BY DEF FactorFits
<1> QED
  BY <1>1, InitFactorFits, LoginAssumption, NextKeepsFactor, PTL DEF Spec

=============================================================================
