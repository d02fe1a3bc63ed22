----------------------------- MODULE MCPresence -----------------------------
(* A small instance of MeshPresence for TLC: one viewer, two sessions that *)
(* may follow each other under one name.                                   *)
EXTENDS MeshPresence, TLC

Symmetry == Permutations(Session \ Viewer) \cup Permutations(Address)

\* The viewers stay, keep their name and profile and upgrade nobody.  The
\* two other sessions are enough to interleave all that, and nobody listens
\* to a viewer's farewell.
ViewersWatch ==
  \A v \in Viewer : /\ Connected(v) => holds[v] = local[v]
                    /\ pc[v] \notin {"upgrade", "profile", "gone"}

=============================================================================
