------------------------------ MODULE MCQuick ------------------------------
\* TLC instance of QuickLogin.
EXTENDS QuickLogin, TLC

\* Users, servers and passwords that nothing tells apart.
Symmetry == Permutations(User) \cup Permutations(Server) \cup Permutations(Pass)

=============================================================================
