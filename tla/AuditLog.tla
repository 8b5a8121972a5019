------------------------------- MODULE AuditLog -------------------------------
(***************************************************************************)
(* What the audit log of the admin server promises the handlers that write *)
(* to it (log_audit_event, src/admin_server/fastapi/db/audit.py): one log, *)
(* to which events are only ever appended; a call that returns has         *)
(* appended its event, a call that raises has appended it once or not at   *)
(* all.                                                                    *)
(***************************************************************************)
EXTENDS Sequences

CONSTANTS
    Callers,     \* calls of log_audit_event, each logs one event
    EventOf      \* EventOf[c]: the event of call c

VARIABLES
    log,         \* the events, oldest first
    call         \* call[c]: how far call c is

logVars == <<log, call>>

Init ==
    /\ log = << >>
    /\ call = [c \in Callers |-> "idle"]

Call(c) ==
    /\ call[c] = "idle"
    /\ call' = [call EXCEPT ![c] = "called"]
    /\ UNCHANGED log

Store(c) ==
    /\ call[c] = "called"
    /\ log' = Append(log, EventOf[c])
    /\ call' = [call EXCEPT ![c] = "stored"]

Return(c) ==
    /\ call[c] = "stored"
    /\ call' = [call EXCEPT ![c] = "returned"]
    /\ UNCHANGED log

\* The caller cannot tell whether the event was stored.
Raise(c) ==
    /\ call[c] \in {"called", "stored"}
    /\ call' = [call EXCEPT ![c] = "raised"]
    /\ UNCHANGED log

Next == \E c \in Callers : Call(c) \/ Store(c) \/ Return(c) \/ Raise(c)

Spec == Init /\ [][Next]_logVars
=============================================================================
