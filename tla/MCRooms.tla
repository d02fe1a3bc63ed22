------------------------------ MODULE MCRooms -------------------------------
(* A small instance of MeshRooms for TLC: the password is known to Me and  *)
(* to one of the others.                                                   *)
EXTENDS MeshRooms

CONSTANTS Guest   \* the other that does not know the password

MCKnows == [c \in Client |-> IF c = Guest THEN {} ELSE Pass]

=============================================================================
