--------------------------- MODULE MCStageExecution ---------------------------
(* Small instances of StageExecution for TLC; constants are in the .cfg files. *)
EXTENDS StageExecution, TLC

\* Executions, consumers and runs are interchangeable.
Symmetry == Permutations(Calls) \cup Permutations(Service) \cup Permutations(Run)

=============================================================================
