------------------------------- MODULE MCKeys -------------------------------
(* A small instance of KeyRequest for TLC.  Names and identities are         *)
(* interchangeable.                                                          *)
EXTENDS KeyRequest, TLC

Symmetry == Permutations(Peer) \cup Permutations(Version)

=============================================================================
