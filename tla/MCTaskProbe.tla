---------------------------- MODULE MCTaskProbe ----------------------------
(***************************************************************************)
(* The small store of MCTaskStore with its probes.                         *)
(***************************************************************************)
EXTENDS MCTaskStore, TaskProbe

=============================================================================
