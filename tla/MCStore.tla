------------------------------ MODULE MCStore -------------------------------
(* A small instance of AccountStore for TLC. *)
EXTENDS AccountStore, TLC

Symmetry == Permutations(Name) \cup Permutations(Value)

=============================================================================
