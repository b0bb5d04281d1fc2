---------------------------- MODULE MC_TaskMap ----------------------------
(* Model of TaskMap for TLC: two writers, two readers, two task refs.      *)
EXTENDS TaskMap

MCRefs == {"task-1", "task-2"}
=============================================================================
