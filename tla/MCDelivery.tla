----------------------------- MODULE MCDelivery -----------------------------
(* The sender and two others, four names.  The sender may have given up the *)
(* name of its login, and one of the others taken it.                       *)
EXTENDS Delivery, TLC

CONSTANTS p, q, a, b, c, me

FirstNames == p :> a @@ q :> b
NamesNow == {<<FirstNames, me>>, <<p :> me @@ q :> b, c>>}
=============================================================================
