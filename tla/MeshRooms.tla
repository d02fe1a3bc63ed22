----------------------------- MODULE MeshRooms ------------------------------
(***************************************************************************)
(* Rooms: the room commands of the Go GUI server (server_v2/main.go) and   *)
(* one GUI client `Me' that uses them (rust_gui/src/main.rs, net.rs).      *)
(*                                                                         *)
(* The GUI thread keeps its own idea of the room, current, and puts        *)
(* commands into a channel; the network thread takes them in order and     *)
(* writes frames, which the connection's handler on the server serves in   *)
(* order: cmds is that whole pipe.  What the server answers comes back     *)
(* through the reader thread and a second channel, events, which the GUI   *)
(* thread polls.  A text for a room is a request for the room's members    *)
(* and one private frame to each of them, with the name of the room that   *)
(* the GUI meant as its label.                                             *)
(*                                                                         *)
(* The other clients are environment: their commands reach the server in   *)
(* any order.  Everyone is logged in, and a client types only passwords it *)
(* knows.  The request's timeout is not modelled here.                     *)
(***************************************************************************)
EXTENDS Naturals, Sequences

CONSTANTS Me,         \* the client whose GUI is modelled
          Other,      \* the other clients
          Room,       \* room names
          Main,       \* the room everybody starts in
          Pass,       \* room passwords
          NoPass,     \* the empty password
          Absent,     \* roomPw of a room nobody created, and `no room'
          Knows,      \* the passwords each client may type
          NoText,     \* asked, when no text is being sent
          MaxQueue,   \* bound on the commands under way
          MaxEvents   \* bound on the events not yet polled

Client == {Me} \cup Other

ASSUME MeAssumption == Me \notin Other
ASSUME MainAssumption == Main \in Room /\ Absent \notin Room
ASSUME PassAssumption == NoPass \notin Pass /\ Absent \notin Pass \cup {NoPass}
ASSUME KnowsAssumption == Knows \in [Client -> SUBSET Pass]

VARIABLES roomPw,     \* the map roomPasswords
          room,       \* Client.room
          creating,   \* a room created and not yet entered
          cmds,       \* GUI -> network thread -> server
          events,     \* RoomChanged events, server -> reader -> GUI
          asked,      \* the text whose members have been asked for
          current,    \* MeshApp.current_room
          active,     \* the room chat on the screen
          chats,      \* the room chats in the sidebar
          drifted     \* history: the GUI was not told of its last move

server == <<roomPw, room, creating>>
gui == <<current, active, chats>>
rvars == <<server, cmds, events, asked, gui, drifted>>

Typed(c) == Knows[c] \cup {NoPass}

JoinCmd == [op : {"join"}, room : Room, pass : Typed(Me)]
CreateCmd == [op : {"create"}, room : Room, pass : Typed(Me)]
TextCmd == [op : {"text"}, room : Room, calm : BOOLEAN]
LeaveCmd == [op : {"leave"}]
Cmd == JoinCmd \cup CreateCmd \cup TextCmd \cup LeaveCmd

Text == [label : Room, room : Room, calm : BOOLEAN, to : SUBSET Other]

Join(r, p) == [op |-> "join", room |-> r, pass |-> p]

-----------------------------------------------------------------------------
(* The server *)

\* Fault: a room that exists is entered whatever the password.
AdmitsAny(r, p) == r = Main \/ roomPw[r] # Absent

\* /join: main is open to all, another room must exist and have no password
\* or this one.
Admits(r, p) == r = Main \/ (roomPw[r] # Absent /\ roomPw[r] \in {NoPass, p})

Enter(c, r) == room' = [room EXCEPT ![c] = r]

\* /createroom: the room is stored under the lock, the creator's own room is
\* set after it.
Found(c, r, p) == /\ roomPw[r] = Absent
                  /\ roomPw' = [roomPw EXCEPT ![r] = p]
                  /\ creating' = [creating EXCEPT ![c] = r]

OtherJoins(c, r, p) ==
  /\ creating[c] = Absent
  /\ Admits(r, p)
  /\ Enter(c, r)
  /\ UNCHANGED <<roomPw, creating, cmds, events, asked, gui, drifted>>

OtherCreates(c, r, p) ==
  /\ creating[c] = Absent
  /\ Found(c, r, p)
  /\ UNCHANGED <<room, cmds, events, asked, gui, drifted>>

OtherEnters(c) ==
  /\ creating[c] # Absent
  /\ Enter(c, creating[c])
  /\ creating' = [creating EXCEPT ![c] = Absent]
  /\ UNCHANGED <<roomPw, cmds, events, asked, gui, drifted>>

\* /leave, and a connection that ends and comes back.
OtherLeaves(c) ==
  /\ creating[c] = Absent
  /\ Enter(c, Main)
  /\ UNCHANGED <<roomPw, creating, cmds, events, asked, gui, drifted>>

\* The next command of Me: neither the server's handler nor the network
\* thread is busy with the previous one.
Next1(op) == /\ cmds # <<>>
             /\ Head(cmds).op = op
             /\ asked = NoText
             /\ creating[Me] = Absent
             /\ cmds' = Tail(cmds)

\* [ROOM] You are in: r, which reader_loop turns into RoomChanged(r).
Confirm(r) == /\ Len(events) < MaxEvents
              /\ events' = Append(events, r)
              /\ drifted' = FALSE

HandleJoin ==
  /\ Next1("join")
  /\ Admits(Head(cmds).room, Head(cmds).pass)
  /\ Enter(Me, Head(cmds).room)
  /\ Confirm(Head(cmds).room)
  /\ UNCHANGED <<roomPw, creating, asked, gui>>

\* Fault: a refused join is confirmed like an accepted one.
RefuseJoinConfirmed ==
  /\ Next1("join")
  /\ ~Admits(Head(cmds).room, Head(cmds).pass)
  /\ Confirm(Head(cmds).room)
  /\ UNCHANGED <<server, asked, gui>>

\* No such room, or a wrong password: an error line, and nothing changes.
RefuseJoin ==
  /\ Next1("join")
  /\ ~Admits(Head(cmds).room, Head(cmds).pass)
  /\ UNCHANGED <<server, events, asked, gui, drifted>>

HandleCreate ==
  /\ Next1("create")
  /\ Found(Me, Head(cmds).room, Head(cmds).pass)
  /\ UNCHANGED <<room, events, asked, gui, drifted>>

RefuseCreate ==
  /\ Next1("create")
  /\ roomPw[Head(cmds).room] # Absent
  /\ UNCHANGED <<server, events, asked, gui, drifted>>

EnterCreated ==
  /\ creating[Me] # Absent
  /\ Enter(Me, creating[Me])
  /\ Confirm(creating[Me])
  /\ creating' = [creating EXCEPT ![Me] = Absent]
  /\ UNCHANGED <<roomPw, cmds, asked, gui>>

\* /leave is answered by a line that reader_loop does not take for a
\* RoomChanged.
HandleLeave ==
  /\ Next1("leave")
  /\ Enter(Me, Main)
  /\ drifted' = (drifted \/ room[Me] # Main)
  /\ UNCHANGED <<roomPw, creating, events, asked, gui>>

\* /roommembers, from room_targets: the members of the room the server has
\* Me in.
AskMembers ==
  /\ Next1("text")
  /\ asked' = [label |-> Head(cmds).room, room |-> room[Me], calm |-> Head(cmds).calm,
               to |-> {c \in Other : room[c] = room[Me]}]
  /\ UNCHANGED <<server, events, gui, drifted>>

\* One private frame to each of them; members may have moved meanwhile.
SendText ==
  /\ asked # NoText
  /\ asked' = NoText
  /\ UNCHANGED <<server, cmds, events, gui, drifted>>

-----------------------------------------------------------------------------
(* The GUI *)

\* Fault: a command overtakes the ones that wait.
SendFirst(s) == /\ Len(cmds) + Len(s) <= MaxQueue
                /\ cmds' = s \o cmds

Send(s) == /\ Len(cmds) + Len(s) <= MaxQueue
           /\ cmds' = cmds \o s

\* `Make sure the server knows which room we are in': a join with an empty
\* password, when current says another room.
JoinFirst(r) == IF current # r THEN <<Join(r, NoPass)>> ELSE <<>>

\* Nothing that moves Me is under way.
Calm(r) == /\ current = r
           /\ events = <<>>
           /\ creating[Me] = Absent
           /\ \A i \in DOMAIN cmds : cmds[i].op = "text"
           /\ ~drifted

TextTo(r) == [op |-> "text", room |-> r, calm |-> Calm(r)]

\* A click on a room's chat in the sidebar.
Switch(r) ==
  /\ r \in chats
  /\ Send(JoinFirst(r))
  /\ active' = r
  /\ UNCHANGED <<server, events, asked, current, chats, drifted>>

\* The `join a room' window.
JoinDialog(r, p) ==
  /\ Send(<<Join(r, p)>>)
  /\ UNCHANGED <<server, events, asked, gui, drifted>>

\* The `create a room' window.
CreateDialog(r, p) ==
  /\ Send(<<[op |-> "create", room |-> r, pass |-> p]>>)
  /\ UNCHANGED <<server, events, asked, gui, drifted>>

\* /leave typed as a raw command.
TypeLeave ==
  /\ Send(<<[op |-> "leave"]>>)
  /\ UNCHANGED <<server, events, asked, gui, drifted>>

\* submit_input in a room's chat.
TypeText ==
  /\ Send(Append(JoinFirst(active), TextTo(active)))
  /\ UNCHANGED <<server, events, asked, gui, drifted>>

\* A file or a reaction in a room's chat: no join precedes it.
SendFile ==
  /\ Send(<<TextTo(active)>>)
  /\ UNCHANGED <<server, events, asked, gui, drifted>>

\* Fault: the chat of the new room is not looked up.
PollUnlisted ==
  /\ events # <<>>
  /\ current' = Head(events)
  /\ active' = Head(events)
  /\ events' = Tail(events)
  /\ UNCHANGED <<server, cmds, asked, chats, drifted>>

\* RoomChanged(r) in poll_events: the chat of r comes up on the screen.
\* poll_events takes all that has arrived; taking one at a time is the same,
\* the rest arriving just after.
Poll ==
  /\ events # <<>>
  /\ current' = Head(events)
  /\ active' = Head(events)
  /\ chats' = chats \cup {Head(events)}
  /\ events' = Tail(events)
  /\ UNCHANGED <<server, cmds, asked, drifted>>

\* A text from another client: its label, the sender's word, names the chat
\* it is put in.  It need not be the room of Me, but it is some room.
Hear(r) ==
  /\ r = Main \/ roomPw[r] # Absent
  /\ chats' = chats \cup {r}
  /\ UNCHANGED <<server, cmds, events, asked, current, active, drifted>>

\* A lost connection or a logout, and a new login: new channels, a new
\* client in main on the server, and the GUI's rooms as they were.
Reconnect ==
  /\ Enter(Me, Main)
  /\ creating' = [creating EXCEPT ![Me] = Absent]
  /\ cmds' = <<>>
  /\ events' = <<>>
  /\ asked' = NoText
  /\ drifted' = (current # Main)
  /\ UNCHANGED <<roomPw, gui>>

-----------------------------------------------------------------------------

RInit == /\ roomPw = [r \in Room |-> Absent]
         /\ room = [c \in Client |-> Main]
         /\ creating = [c \in Client |-> Absent]
         /\ cmds = <<>>
         /\ events = <<>>
         /\ asked = NoText
         /\ current = Main
         /\ active = Main
         /\ chats = {Main}
         /\ drifted = FALSE

OtherNext == \E c \in Other :
  \/ \E r \in Room, p \in Typed(c) : OtherJoins(c, r, p)
  \/ \E r \in Room, p \in Typed(c) : OtherCreates(c, r, p)
  \/ OtherEnters(c)
  \/ OtherLeaves(c)

ServerNext ==
  \/ HandleJoin
  \/ RefuseJoin
  \/ HandleCreate
  \/ RefuseCreate
  \/ EnterCreated
  \/ HandleLeave
  \/ AskMembers
  \/ SendText

GuiNext ==
  \/ \E r \in Room : Switch(r)
  \/ \E r \in Room, p \in Typed(Me) : JoinDialog(r, p)
  \/ \E r \in Room, p \in Typed(Me) : CreateDialog(r, p)
  \/ TypeLeave
  \/ TypeText
  \/ SendFile
  \/ Poll
  \/ \E r \in Room : Hear(r)
  \/ Reconnect

RNext == OtherNext \/ ServerNext \/ GuiNext

RSpec == RInit /\ [][RNext]_rvars

-----------------------------------------------------------------------------

\* Types; a room chat on the screen is one of the sidebar's.
RTypeOK ==
  /\ roomPw \in [Room -> Pass \cup {NoPass, Absent}]
  /\ room \in [Client -> Room]
  /\ creating \in [Client -> Room \cup {Absent}]
  /\ cmds \in Seq(Cmd)
  /\ events \in Seq(Room)
  /\ asked \in Text \cup {NoText}
  /\ current \in Room
  /\ chats \in SUBSET Room
  /\ active \in chats
  /\ drifted \in BOOLEAN

\* What the GUI will think once it has polled all its events.
Heard == IF events = <<>> THEN current ELSE events[Len(events)]

\* The GUI's idea of its room follows the server's through refused joins,
\* created rooms and confirmations under way: the two part only by a /leave
\* or a new connection.
RoomAgreement == drifted \/ Heard = room[Me]

\* Only who knows the password of a room is in it (main.rs:1715).
MembersKnowPassword ==
  \A c \in Client : room[c] # Main =>
    roomPw[room[c]] \in Knows[c] \cup {NoPass}

\* A text typed in the chat of the current room while nothing that moves the
\* client is under way goes to the members of that room, whatever is typed
\* before the network thread gets to it.
CalmTextInItsRoom == asked # NoText /\ asked.calm => asked.label = asked.room

\* A text is sent to the members of the room in whose chat it was typed, and
\* never to another room's (main.rs:787).
TextInItsRoom == asked # NoText /\ asked.to # {} => asked.label = asked.room

=============================================================================
