------------------------- MODULE MC_FSSReplication -------------------------
(* Two workload namespaces; each cfg bounds the config map contents and   *)
(* the namespace creations and deletions, and says which contents have an *)
(* empty data map.                                                         *)
EXTENDS FSSReplication
=============================================================================
