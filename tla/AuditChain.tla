------------------------------ MODULE AuditChain ------------------------------
(***************************************************************************)
(* The hash chain of the audit log (src/admin_server/fastapi/db/audit.py). *)
(* log_audit_event takes an advisory lock of its transaction, reads the    *)
(* last record, and commits a record that carries the hash of that one.    *)
(* verify_audit_chain recomputes the chain.  SHA-256 is taken to be        *)
(* injective, so a hash is the pair it is computed from, and GENESIS_HASH, *)
(* which no record has, is no pair.                                        *)
(***************************************************************************)
EXTENDS Sequences, Naturals

CONSTANTS
    Callers,     \* calls of log_audit_event, each in a session of its own
    Events,
    EventOf,     \* EventOf[c]: the event of call c
    Payload,     \* Payload[e]: its fields, stripped and joined with |
    Nobody

ASSUME ChainAssumption ==
    /\ EventOf \in [Callers -> Events]
    /\ Nobody \notin Callers

VARIABLES
    rows,        \* table audit_logs in the order of its ids
    holder,      \* who holds the advisory lock
    stage,       \* stage[c]: the step of call c
    prev         \* prev[c]: prev_hash, as call c read it

chainVars == <<rows, holder, stage, prev>>

\* GENESIS_HASH
Genesis == << >>

\* compute_audit_hash
Hash(e, p) == <<Payload[e], p>>

Record(e, p) == [event |-> e, prev_hash |-> p, record_hash |-> Hash(e, p)]

\* The hash of the last of n records.
HashOf(r, n) == IF n = 0 THEN Genesis ELSE r[n].record_hash
LastHash == HashOf(rows, Len(rows))

InitChain ==
    /\ rows = << >>
    /\ holder = Nobody
    /\ stage = [c \in Callers |-> "idle"]
    /\ prev = [c \in Callers |-> Genesis]

Begin(c) ==
    /\ stage[c] = "idle"
    /\ stage' = [stage EXCEPT ![c] = "lock"]
    /\ UNCHANGED <<rows, holder, prev>>

\* Mutant: the advisory lock is not taken.
FreeAlways == TRUE
Free == holder = Nobody

\* pg_advisory_xact_lock: held until the transaction ends.
Lock(c) ==
    /\ stage[c] = "lock" /\ Free
    /\ holder' = c
    /\ stage' = [stage EXCEPT ![c] = "read"]
    /\ UNCHANGED <<rows, prev>>

ReadLast(c) ==
    /\ stage[c] = "read"
    /\ prev' = [prev EXCEPT ![c] = LastHash]
    /\ stage' = [stage EXCEPT ![c] = "insert"]
    /\ UNCHANGED <<rows, holder>>

\* Mutant: a failed commit is tried again without a look whether it was stored.
InsertAgain(c) ==
    /\ stage[c] = "insert"
    /\ rows' = Append(rows, Record(EventOf[c], prev[c]))
    /\ holder' = Nobody
    /\ stage' \in {stage, [stage EXCEPT ![c] = "refresh"]}
    /\ UNCHANGED prev

\* INSERT and COMMIT, which drops the lock.
Insert(c) ==
    /\ stage[c] = "insert"
    /\ rows' = Append(rows, Record(EventOf[c], prev[c]))
    /\ holder' = Nobody
    /\ stage' = [stage EXCEPT ![c] = "refresh"]
    /\ UNCHANGED prev

\* The record is read back, and the call returns.
ReadBack(c) ==
    /\ stage[c] = "refresh"
    /\ stage' = [stage EXCEPT ![c] = "returned"]
    /\ UNCHANGED <<rows, holder, prev>>

\* A statement fails or the connection is lost, at any step.  A failed lock is only logged, but
\* it aborts the transaction, so the read that follows raises.  The rollback drops the lock.
Fail(c) ==
    /\ stage[c] \in {"lock", "read", "insert", "refresh"}
    /\ holder' = IF holder = c THEN Nobody ELSE holder
    /\ stage' = [stage EXCEPT ![c] = "raised"]
    /\ UNCHANGED <<rows, prev>>

Step(c) == Lock(c) \/ ReadLast(c) \/ Insert(c) \/ ReadBack(c)

NextChain == \E c \in Callers : Begin(c) \/ Step(c) \/ Fail(c)

ChainSpec == InitChain /\ [][NextChain]_chainVars
-----------------------------------------------------------------------------
(* verify_audit_chain. *)

\* Mutant: the link to the record before is not checked.
LinkedAlways(r, i) == TRUE
Linked(r, i) == r[i].prev_hash = HashOf(r, i - 1)
Intact(r, i) == r[i].record_hash = Hash(r[i].event, r[i].prev_hash)
Verify(r) == \A i \in DOMAIN r : Linked(r, i) /\ Intact(r, i)

-----------------------------------------------------------------------------
(* Properties. *)

TypeOK ==
    /\ stage \in [Callers -> {"idle", "lock", "read", "insert", "refresh", "returned", "raised"}]
    /\ holder \in Callers \union {Nobody}
    /\ \A i \in DOMAIN rows : rows[i].event \in Events

\* However the calls of log_audit_event interleave and fail, verify_audit_chain finds the chain
\* whole: no two records follow the same one.
ChainVerifies == Verify(rows)

Without(r, i) == [j \in 1 .. Len(r) - 1 |-> r[IF j < i THEN j ELSE j + 1]]

\* "Выявляет подделки данных внутри записей, удаление строк или ретроспективную вставку"
\* (verify_audit_chain): a record whose payload was changed, a record that is missing and a
\* record put between two others are found.  The last record can be missed without a trace, so
\* it is left out here, and so is a change the payload does not show.
TamperingDetected ==
    \A i \in DOMAIN rows :
        /\ \A e \in Events : Payload[e] # Payload[rows[i].event] =>
              ~Verify([rows EXCEPT ![i].event = e])
        /\ i < Len(rows) => ~Verify(Without(rows, i))
        /\ \A e \in Events :
              ~Verify(SubSeq(rows, 1, i - 1) \o <<Record(e, HashOf(rows, i - 1))>>
                        \o SubSeq(rows, i, Len(rows)))

\* The chain implements the log: the events of the records are only ever appended to, a call
\* that returns has stored its event, and a call stores it once at most.
Log == INSTANCE AuditLog WITH
    log  <- [i \in DOMAIN rows |-> rows[i].event],
    call <- [c \in Callers |->
               CASE stage[c] \in {"lock", "read", "insert"} -> "called"
                 [] stage[c] = "refresh" -> "stored"
                 [] OTHER -> stage[c]]
ImplementsLog == Log!Spec

=============================================================================
