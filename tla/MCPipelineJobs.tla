---------------------------- MODULE MCPipelineJobs ----------------------------
(***************************************************************************)
(* Two documents of the same content, and a thread for each.               *)
(***************************************************************************)
EXTENDS PipelineJobs, TLC

CONSTANTS j1, j2, h1

MCJobs == {j1, j2}
MCHash == [j \in MCJobs |-> h1]
=============================================================================
