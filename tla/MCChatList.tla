----------------------------- MODULE MCChatList -----------------------------
(* Two names, the common room and another one. *)
EXTENDS ChatList

CONSTANTS a, b, main, work
=============================================================================
