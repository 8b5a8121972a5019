--------------------------- MODULE MCVectorWorker ---------------------------
(***************************************************************************)
(* Instances of VectorWorker: a law, an undated order that repeals it, and *)
(* the law's next edition, scanned into a file of the same name.           *)
(***************************************************************************)
EXTENDS VectorWorker

CONSTANTS law, order, next, u1, u2

MCOffered == [u \in Uploads |-> IF u = u1 THEN {law, order} ELSE Files]
MCFileName == [f \in Files |-> IF f = order THEN "order.pdf" ELSE "scan.pdf"]
MCTitle ==
    [f \in Files |-> CASE f = law -> "law_01012024" [] f = order -> "order" [] OTHER -> "law_01012025"]
MCName == [f \in Files |-> IF f = order THEN "order" ELSE "law"]
MCNames == {MCTitle[f] : f \in Files} \union {MCName[f] : f \in Files}
MCEdition == [f \in Files |-> CASE f = law -> 1 [] f = order -> 0 [] OTHER -> 2]
MCRepeals == [f \in Files |-> IF f = order THEN {"law"} ELSE {}]
MCAllFaults == {"minio", "postgres", "push", "redis", "chroma", "llm"}
=============================================================================
