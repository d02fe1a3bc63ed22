-------------------------------- MODULE Inbox --------------------------------
(***************************************************************************)
(* What the sidebar of the GUI promises (rust_gui/src/main.rs): one chat   *)
(* is shown, every other one counts the messages that came since it was    *)
(* last shown, and what is shown changes only when the user asks for it or *)
(* the server moves the user to a room.  Chats have no order here.         *)
(*                                                                         *)
(* A user who takes a name that a chat has already may end up with two     *)
(* chats of that name; nothing is promised of the count of these (twice).  *)
(***************************************************************************)
EXTENDS Naturals

CONSTANTS Id,      \* what chats are named by: rooms, users, the system
          Sys,     \* the chat of the system's notices
          Main     \* the common room

VARIABLES shown,   \* the chat on the screen
          unread,  \* for each chat there is, the messages not seen
          twice    \* names that two chats may share

inbox == <<shown, unread, twice>>

InboxInit == /\ shown = Main
             /\ unread = [c \in {Main, Sys} |-> 0]
             /\ twice = {}

Count(c) == IF c \in DOMAIN unread THEN unread[c] ELSE 0

\* The counts of all chats but those of C, and of those named twice, are
\* the ones of f.
CountsBut(C, f) == \A d \in DOMAIN unread' \ (C \cup twice) : unread'[d] = f[d]

\* A message in chat c.
Receive(c) ==
  /\ UNCHANGED <<shown, twice>>
  /\ DOMAIN unread' = DOMAIN unread \cup {c}
  /\ c \notin twice => unread'[c] = IF c = shown THEN Count(c) ELSE Count(c) + 1
  /\ CountsBut({c}, unread)

\* The user opens chat c; with = {Sys} when a notice says so.
Show(c, with) ==
  /\ shown' = c
  /\ UNCHANGED twice
  /\ DOMAIN unread' = DOMAIN unread \cup {c} \cup with
  /\ c \notin twice => unread'[c] = 0
  /\ \A d \in with \ twice : unread'[d] = Count(d) + 1
  /\ CountsBut({c} \cup with, unread)

\* The user's name changes from a to b, and so does the name of a chat the
\* user has with himself; a notice says so.
Renamed(a, b) ==
  LET Now(c) == IF c = a THEN b ELSE c
  IN /\ shown' = Now(shown)
     /\ DOMAIN unread' = {Now(c) : c \in DOMAIN unread \cup {Sys}}
     /\ twice' = {Now(c) : c \in twice} \cup (IF {a, b} \subseteq DOMAIN unread THEN {b} ELSE {})
     /\ \A c \in DOMAIN unread \ {Sys} :
          Now(c) \notin twice' => unread'[Now(c)] = unread[c]
     /\ unread'[Sys] = IF shown = Sys THEN Count(Sys) ELSE Count(Sys) + 1

\* The program is started again.
Forget == /\ shown' = Main
          /\ unread' = [c \in {Main, Sys} |-> 0]
          /\ twice' = {}

InboxNext == \/ \E c \in Id : Receive(c)
             \/ \E c \in Id : Show(c, {}) \/ Show(c, {Sys})
             \/ \E a, b \in Id \ {Sys, Main} : a # b /\ Renamed(a, b)
             \/ Forget

InboxSpec == InboxInit /\ [][InboxNext]_inbox

=============================================================================
