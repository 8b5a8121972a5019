----------------------------- MODULE MCAuditChain -----------------------------
(***************************************************************************)
(* A small instance of AuditChain for TLC: three events, two of which have *)
(* the same payload.                                                       *)
(***************************************************************************)
EXTENDS AuditChain

CONSTANTS c1, c2, c3, e1, e2, e3

MCEventOf == [c \in Callers |-> IF c = c1 THEN e1 ELSE IF c = c2 THEN e2 ELSE e3]
MCPayload == [e \in Events |-> IF e = e1 THEN e1 ELSE e2]
=============================================================================
