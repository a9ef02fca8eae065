----------------------------- MODULE MCRotationRuns -----------------------------
(***************************************************************************)
(* Small instances of RotationRuns for TLC. The run identifiers are         *)
(* numbers because the reaper handles runs in the order they are listed;    *)
(* workers are model values: w1 is the automation account that drives       *)
(* workflows and reaps, w2 an operator.                                     *)
(***************************************************************************)
EXTENDS RotationRuns, TLC

\* Triggers are interchangeable; no liveness property is checked under this.
Symmetry == Permutations(SourceEvents)
=============================================================================
