------------------------------- MODULE MCBroker -------------------------------
(* Small instances of Broker for TLC; the constants are in the .cfg files. *)
EXTENDS Broker, TLC

\* Calls are interchangeable.
Symmetry == Permutations(Calls)

=============================================================================
