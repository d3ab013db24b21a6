---------------------------- MODULE MCWebLogger ----------------------------
(* Small worlds for WebLogger.tla: interchangeable workers, pids and names. *)
EXTENDS WebLogger, TLC

Symmetry == Permutations(Workers) \cup Permutations(Pids) \cup Permutations(Names)
=============================================================================
