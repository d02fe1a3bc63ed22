------------------------------ MODULE ChatList ------------------------------
(***************************************************************************)
(* The chats of the GUI thread (rust_gui/src/main.rs).                     *)
(*                                                                         *)
(* The GUI polls the events of its connection, one after the other, and    *)
(* draws; a click is handled while it draws.  Chats are a sequence, and    *)
(* the chat on the screen is an index in it, so that whoever moves a chat  *)
(* has to move the index.  Texts and their reactions are left out: of a    *)
(* message only the chat matters.                                          *)
(***************************************************************************)
EXTENDS Naturals, Sequences, SequencesExt

CONSTANTS Name,       \* the @usernames
          Room,       \* the rooms
          Main,       \* the common room
          Sys,        \* the chat of the system
          MaxUnread,  \* bound on the messages not seen
          MaxChats    \* bound on the chats

Id == Room \cup Name \cup {Sys}

ASSUME MainAssumption == Main \in Room
ASSUME IdAssumption == Sys \notin Room \cup Name /\ Room \cap Name = {}
ASSUME BoundAssumption == {MaxUnread, MaxChats} \subseteq Nat

VARIABLES chats,      \* MeshApp.chats
          active,     \* MeshApp.active
          me,         \* MeshApp.me
          screen,     \* MeshApp.screen
          linked,     \* the channels of a connection are there
          connected,  \* MeshApp.connected
          authed,     \* MeshApp.authed
          twice       \* history: names a rename gave to a second chat

list == <<chats, active>>
link == <<screen, linked, connected, authed>>
cvars == <<list, me, link, twice>>

Chat == [id : Id, unread : Nat]
FirstChats == <<[id |-> Main, unread |-> 0], [id |-> Sys, unread |-> 0]>>
Ids(s) == {s[i].id : i \in DOMAIN s}

-----------------------------------------------------------------------------
(* Finding a chat, adding a message, opening a chat *)

Position(s, c) == CHOOSE i \in DOMAIN s : /\ s[i].id = c
                                          /\ \A j \in 1 .. i - 1 : s[j].id # c

\* chat_index: the chats with one for c.
WithChat(s, c) == IF c \in Ids(s) THEN s ELSE Append(s, [id |-> c, unread |-> 0])

\* Fault: the chat that gets a message comes first, and the index stays.
PushKept(s, at, c) ==
  LET t == WithChat(s, c)
      i == Position(t, c)
      u == IF i = at THEN t ELSE [t EXCEPT ![i].unread = @ + 1]
  IN IF i = at \/ i = 1 THEN <<u, at>>
                        ELSE <<<<u[i]>> \o RemoveAt(u, i), at>>

\* push_msg: a message for chat c while at is on the screen.  A chat that is
\* not on the screen counts it and comes first; the index follows the chat
\* that is on the screen, found by its name.
Push(s, at, c) ==
  LET t == WithChat(s, c)
      i == Position(t, c)
      u == IF i = at THEN t ELSE [t EXCEPT ![i].unread = @ + 1]
      v == <<u[i]>> \o RemoveAt(u, i)
  IN IF i = at \/ i = 1 THEN <<u, at>> ELSE <<v, Position(v, u[at].id)>>

\* What the list becomes: the chats, and the index.
Becomes(p) == /\ Len(p[1]) <= MaxChats
              /\ chats' = p[1]
              /\ active' = p[2]

PushMsg(c) == Becomes(Push(chats, active, c))

\* Fault: a chat that is opened is not looked for.
OpenAnew(c) == <<Append(chats, [id |-> c, unread |-> 0]), Len(chats) + 1>>

\* A chat is put on the screen: the chats, and the index.
Open(c) == LET t == WithChat(chats, c)
           IN <<[t EXCEPT ![Position(t, c)].unread = 0], Position(t, c)>>

\* The chats named a are named b.
Named(c, a, b) == IF c.id = a THEN [c EXCEPT !.id = b] ELSE c
WithName(s, a, b) == SubSeq([i \in DOMAIN s |-> Named(s[i], a, b)], 1, Len(s))

MayPush == FoldSeq(LAMBDA c, n : n + c.unread, 0, chats) < MaxUnread

-----------------------------------------------------------------------------
(* poll_events, one event at a time *)

\* Line, Warn, ProfileSaved, PasswordChanged, and an Error while the chats
\* are on the screen: a notice in the system's chat.
PollNotice ==
  /\ linked
  /\ MayPush
  /\ PushMsg(Sys)
  /\ UNCHANGED <<me, link, twice>>

PollDisconnected ==
  /\ connected
  /\ MayPush
  /\ connected' = FALSE
  /\ authed' = FALSE
  /\ PushMsg(Sys)
  /\ UNCHANGED <<me, screen, linked, twice>>

PollAuthed ==
  /\ connected
  /\ MayPush
  /\ authed' = TRUE
  /\ screen' = "chat"
  /\ PushMsg(Sys)
  /\ UNCHANGED <<me, linked, connected, twice>>

\* Every chat that has the old name gets the new one.
PollUsernameChanged(n) ==
  /\ authed
  /\ n # me
  /\ MayPush
  /\ me' = n
  /\ Becomes(Push(WithName(chats, me, n), active, Sys))
  /\ twice' = {IF c = me THEN n ELSE c : c \in twice}
                \cup (IF {me, n} \subseteq Ids(chats) THEN {n} ELSE {})
  /\ UNCHANGED <<link>>

\* The server has moved the user: the room's chat comes on the screen.
PollRoomChanged(r) ==
  /\ authed
  /\ MayPush
  /\ LET o == Open(r) IN Becomes(Push(o[1], o[2], Sys))
  /\ UNCHANGED <<me, link, twice>>

\* A text, for the chat of its room or of its sender; one's own is dropped.
PollMsg(c) ==
  /\ authed
  /\ MayPush
  /\ c \in Room \cup (Name \ {me})
  /\ PushMsg(c)
  /\ UNCHANGED <<me, link, twice>>

\* A file is shown even if its sender has one's own name, one given up and
\* then taken by the user: frames carry the name their connection began with.
PollFileMsg(c) ==
  /\ authed
  /\ MayPush
  /\ c \in Room \cup Name
  /\ PushMsg(c)
  /\ UNCHANGED <<me, link, twice>>

-----------------------------------------------------------------------------
(* What the user does *)

\* start_connect, under any name.
StartConnect(n) ==
  /\ screen = "connect"
  /\ MayPush
  /\ me' = n
  /\ linked' = TRUE
  /\ connected' = TRUE
  /\ PushMsg(Sys)
  /\ UNCHANGED <<screen, authed, twice>>

\* The chats and the users stay for whoever logs in next.
Logout ==
  /\ screen = "chat"
  /\ screen' = "connect"
  /\ linked' = FALSE
  /\ connected' = FALSE
  /\ authed' = FALSE
  /\ UNCHANGED <<list, me, twice>>

\* submit_input: the text is added to the chat on the screen, or there is a
\* notice that there is no connection; a command adds nothing.
SubmitInput ==
  /\ screen = "chat"
  /\ MayPush \/ (connected /\ chats[active].id \notin twice)
  /\ PushMsg(IF connected THEN chats[active].id ELSE Sys)
  /\ UNCHANGED <<me, link, twice>>

\* A line of the list of chats.
ClickChat(i) ==
  /\ screen = "chat"
  /\ i \in DOMAIN chats
  /\ active' = i
  /\ chats' = [chats EXCEPT ![i].unread = 0]
  /\ UNCHANGED <<me, link, twice>>

\* open_private, from the list of users or from a profile: the chat there is
\* or a new one.  Both may show any name, one's own too: the server announces
\* a new name before it tells its owner, who then lists it.
OpenPrivate(u) ==
  /\ screen = "chat"
  /\ Becomes(Open(u))
  /\ UNCHANGED <<me, link, twice>>

\* The program is closed and started again: no chat is kept.
Restart ==
  /\ chats' = FirstChats
  /\ active' = 1
  /\ me' \in Name
  /\ screen' = "connect"
  /\ linked' = FALSE /\ connected' = FALSE /\ authed' = FALSE
  /\ twice' = {}

-----------------------------------------------------------------------------

CInit == /\ chats = FirstChats
         /\ active = 1
         /\ me \in Name
         /\ screen = "connect"
         /\ linked = FALSE /\ connected = FALSE /\ authed = FALSE
         /\ twice = {}

PollEvents == \/ PollNotice \/ PollDisconnected \/ PollAuthed
              \/ \E n \in Name : PollUsernameChanged(n)
              \/ \E r \in Room : PollRoomChanged(r)
              \/ \E c \in Id : PollMsg(c) \/ PollFileMsg(c)

User == \/ \E n \in Name : StartConnect(n) \/ OpenPrivate(n)
        \/ \E i \in DOMAIN chats : ClickChat(i)
        \/ Logout \/ SubmitInput \/ Restart

CNext == PollEvents \/ User

CSpec == CInit /\ [][CNext]_cvars

-----------------------------------------------------------------------------

\* Types; the index is one of the sequence, or drawing would fail; the first
\* two chats are never lost, and no name is there twice but those that a
\* rename gave to a second chat.
ChatsOK ==
  /\ chats \in Seq(Chat)
  /\ active \in DOMAIN chats
  /\ {Main, Sys} \subseteq Ids(chats)
  /\ \A i, j \in DOMAIN chats : chats[i].id = chats[j].id => i = j \/ chats[i].id \in twice
  /\ me \in Name
  /\ screen \in {"connect", "chat"}
  /\ {linked, connected, authed} \subseteq BOOLEAN
  /\ connected => linked
  /\ authed => connected /\ screen = "chat"
  /\ twice \subseteq Name

\* However chats come and move, the sidebar keeps its promises: what is
\* shown stays (main.rs:501) and nothing is seen or counted by mistake.
Promised == INSTANCE Inbox WITH
  shown <- chats[active].id,
  unread <- [c \in Ids(chats) |-> chats[Position(chats, c)].unread]
ImplementsInbox == Promised!InboxSpec

=============================================================================
