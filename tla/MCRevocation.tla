----------------------------- MODULE MCRevocation -----------------------------
(* A small instance of Revocation for TLC; constants are in the .cfg file. *)
EXTENDS Revocation, TLC

\* Executions are interchangeable.
Symmetry == Permutations(Calls)

\* A revocation that is approved takes four requests: where controls ask for approval,
\* executions follow one another and meet no mishap, and people decide while the run
\* is not over and about credentials whose stage APPROVAL can pass at all.
Apart ==
    controls.approval =>
        /\ mishaps' = 0
        /\ \A c, d \in Calls : calls'[c] # Idle /\ calls'[d] # Idle => c = d
        /\ approvals' # approvals =>
              run.status # "over" /\ controls.managed = "api" /\ controls.listed

=============================================================================
