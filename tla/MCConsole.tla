----------------------------- MODULE MCConsole -----------------------------
(* One name with two keys in turn. *)
EXTENDS ConsoleClient, TLC

CONSTANTS a, a1, a2

Keys == a :> {a1, a2}
=============================================================================
