------------------------------ MODULE MCIncidents ------------------------------
(* Small instances of Incidents for TLC; constants are in the .cfg files. *)
EXTENDS Incidents, TLC

CONSTANTS c1, c2

Thresholds == (c1 :> "high") @@ (c2 :> "verified")

\* One candidate, and two of which one matches exactly.
Found == {<<{c1}, None>>, <<{c1, c2}, c2>>}

Symmetry == Permutations(Handlers) \cup Permutations(Events)

=============================================================================
