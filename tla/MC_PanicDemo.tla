---------------------------- MODULE MC_PanicDemo ----------------------------
(* Model of panic_demo.go for TLC: two writers, one reader and main, two   *)
(* iterations per writer.                                                  *)
EXTENDS PanicDemo
=============================================================================
