----------------------------- MODULE MCAccounts -----------------------------
(* A small instance of MeshAccounts for TLC. *)
EXTENDS MeshAccounts, TLC

\* Connections, passwords and the names outside LegacyName are told apart
\* by nothing but their identity.
Symmetry == Permutations(Conn) \cup Permutations(Password)
              \cup Permutations(Name \ LegacyName)

=============================================================================
