------------------------- MODULE MC_VolumeMigration -------------------------
(* Two request goroutines, two in-tree volume paths, two CNS volume IDs:  *)
(* enough for two concurrent calls on one path, a lookup that must skip   *)
(* the other path's CR, and two CRs for one path.                         *)
EXTENDS VolumeMigration

MCPaths == {"[ds1] kubevols/a.vmdk", "[ds1] kubevols/b.vmdk"}
=============================================================================
