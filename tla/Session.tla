------------------------------- MODULE Session -------------------------------
(***************************************************************************)
(* The life of a connection: one GUI (rust_gui/src/main.rs, net.rs) and    *)
(* the handlers of the Go GUI server (server_v2/main.go).                  *)
(*                                                                         *)
(* Every press of the login button starts a network thread with channels   *)
(* of its own; the GUI holds the channels of the last one, cur.  The       *)
(* network thread opens the socket and gives the reader thread a second    *)
(* handle of it, so that the socket stays open when the GUI gives the      *)
(* connection up: only the end of the program, the loss of the link, or    *)
(* the server's read deadline ends it.                                     *)
(*                                                                         *)
(* A handler takes the one mutex clientsMutex for every look at clients    *)
(* and holds it while a broadcast writes to each client in turn.  A write  *)
(* blocks while the receiver's buffer is full: no write has a deadline.    *)
(* The announcements a handler makes one after another are one broadcast   *)
(* here.  Guest is another client, logged in already and silent; it reads   *)
(* what it is sent, or hangs.                                              *)
(***************************************************************************)
EXTENDS Naturals, Sequences

CONSTANTS Guest,      \* the other client
          Attempts,   \* bound on the number of attempts
          Buffer      \* frames a socket holds before a write blocks

Conn == 1 .. Attempts
Client == Conn \cup {Guest}
None == 0

\* The accounts of the person, numbered in the order of their first use.
Name == Conn

ASSUME GuestAssumption == Guest \notin Nat
ASSUME BoundAssumption == Attempts \in Nat /\ Buffer \in Nat \ {0}

VARIABLES screen,     \* MeshApp.screen
          authed,     \* MeshApp.authed
          cur,        \* the attempt whose channels the GUI holds
          heard,      \* history: the GUI has been told how cur came out
          who,        \* the name an attempt is made under
          ui,         \* commands from the GUI to a network thread
          ev,         \* events from the threads of an attempt to the GUI
          net,        \* network threads
          rd,         \* reader threads
          link,       \* sockets, as the client sees them
          up,         \* frames on their way to the server
          down,       \* frames on their way to a client
          srv,        \* where a connection's handler is
          member,     \* Client.authed
          lock,       \* who holds clientsMutex
          todo        \* the clients its broadcast has still to write to

gui == <<screen, authed, cur, heard>>
threads == <<ui, ev, net, rd, link>>
server == <<srv, member, lock, todo>>
svars == <<gui, who, threads, up, down, server>>

\* Handlers whose client is in the list clients.
InList == {"idle", "greet", "greeting", "leave"}
Listed == {Guest} \cup {c \in Conn : srv[c] \in InList}

\* Fault: one channel for the events of all attempts.
EmitShared(c, s) == ev' = IF cur = None THEN ev ELSE [ev EXCEPT ![cur] = @ \o s]

\* An event reaches the GUI while it holds the receiving end.
Emit(c, s) == ev' = IF cur = c THEN [ev EXCEPT ![c] = @ \o s] ELSE ev

\* Fault: a write to a socket that nobody reads any more blocks as well.
WriteBlocks(c, f) == /\ Len(down[c]) < Buffer
                     /\ down' = [down EXCEPT ![c] = Append(@, f)]

\* A write to c blocks while the receiver has not read enough; a frame for a
\* socket that is no longer there is lost.
Write(c, f) == IF c # Guest /\ link[c] # "open"
               THEN UNCHANGED down
               ELSE /\ Len(down[c]) < Buffer
                    /\ down' = [down EXCEPT ![c] = Append(@, f)]

-----------------------------------------------------------------------------
(* The GUI thread *)

\* start_connect, from the button or a saved account: new channels, a new
\* network thread, and the login into the channel.  The button is there as
\* long as the login screen is, also while an attempt is under way.
StartConnect(n) ==
  /\ screen = "connect"
  /\ \E c \in Conn :
       /\ net[c] = "none"
       /\ \A d \in Conn : d < c => net[d] # "none"
       /\ n <= c
       /\ cur' = c
       /\ who' = [who EXCEPT ![c] = n]
       /\ ui' = [ui EXCEPT ![c] = <<"login">>]
       /\ net' = [net EXCEPT ![c] = "dial"]
  /\ ev' = [c \in Conn |-> <<>>]
  /\ heard' = FALSE
  /\ UNCHANGED <<screen, authed, rd, link, up, down, server>>

\* poll_events: Authed opens the chat, an error is shown, the end of the
\* connection leaves the screen as it is.
Poll ==
  /\ cur # None
  /\ ev[cur] # <<>>
  /\ ev' = [ev EXCEPT ![cur] = Tail(@)]
  /\ heard' = TRUE
  /\ authed' = CASE Head(ev[cur]) = "authed" -> TRUE
                 [] Head(ev[cur]) = "gone" -> FALSE
                 [] OTHER -> authed
  /\ screen' = IF Head(ev[cur]) = "authed" THEN "chat" ELSE screen
  /\ UNCHANGED <<cur, who, ui, net, rd, link, up, down, server>>

\* Fault: the login is not taken off the screen.
LogoutShown ==
  /\ screen = "chat"
  /\ ui' = IF authed THEN [ui EXCEPT ![cur] = Append(@, "exit")] ELSE ui
  /\ ev' = [ev EXCEPT ![cur] = <<>>]
  /\ screen' = "connect"
  /\ cur' = None
  /\ heard' = FALSE
  /\ UNCHANGED <<authed, who, net, rd, link, up, down, server>>

\* The logout button: /exit for the network thread, and the channels are
\* dropped.
Logout ==
  /\ screen = "chat"
  /\ ui' = IF authed THEN [ui EXCEPT ![cur] = Append(@, "exit")] ELSE ui
  /\ ev' = [ev EXCEPT ![cur] = <<>>]
  /\ authed' = FALSE
  /\ screen' = "connect"
  /\ cur' = None
  /\ heard' = FALSE
  /\ UNCHANGED <<who, net, rd, link, up, down, server>>

\* The program is closed and started again.
Quit ==
  /\ net' = [c \in Conn |-> IF net[c] = "none" THEN "none" ELSE "over"]
  /\ rd' = [c \in Conn |-> IF rd[c] = "none" THEN "none" ELSE "over"]
  /\ link' = [c \in Conn |-> IF link[c] = "open" THEN "closed" ELSE link[c]]
  /\ ui' = [c \in Conn |-> <<>>]
  /\ ev' = [c \in Conn |-> <<>>]
  /\ screen' = "connect"
  /\ authed' = FALSE
  /\ cur' = None
  /\ heard' = FALSE
  /\ UNCHANGED <<who, up, down, server>>

-----------------------------------------------------------------------------
(* The network thread and the reader thread of attempt c *)

\* net_loop connects, sends the three first frames (one here) and starts the
\* reader.
Dial(c) ==
  /\ net[c] = "dial"
  /\ net' = [net EXCEPT ![c] = "serve"]
  /\ rd' = [rd EXCEPT ![c] = "read"]
  /\ link' = [link EXCEPT ![c] = "open"]
  /\ up' = [up EXCEPT ![c] = <<"hello">>]
  /\ srv' = [srv EXCEPT ![c] = "new"]
  /\ UNCHANGED <<gui, who, ui, ev, down, member, lock, todo>>

\* ... or finds no server.
DialFails(c) ==
  /\ net[c] = "dial"
  /\ net' = [net EXCEPT ![c] = "over"]
  /\ Emit(c, <<"gone">>)
  /\ UNCHANGED <<gui, who, ui, rd, link, up, down, server>>

\* The login becomes a frame; /exit ends the thread.
Command(c) ==
  /\ net[c] = "serve"
  /\ ui[c] # <<>>
  /\ ui' = [ui EXCEPT ![c] = Tail(@)]
  /\ IF Head(ui[c]) = "exit"
       THEN net' = [net EXCEPT ![c] = "over"] /\ UNCHANGED up
       ELSE /\ up' = IF link[c] = "open" THEN [up EXCEPT ![c] = Append(@, "login")] ELSE up
            /\ UNCHANGED net
  /\ UNCHANGED <<gui, who, ev, rd, link, down, server>>

\* Fault: the thread waits until its login is answered.
HangUpAnswered(c) ==
  /\ net[c] = "serve"
  /\ ui[c] = <<>>
  /\ cur # c
  /\ c \in member
  /\ net' = [net EXCEPT ![c] = "over"]
  /\ UNCHANGED <<gui, who, ui, ev, rd, link, up, down, server>>

\* The channel is empty and its sender gone.
HangUp(c) ==
  /\ net[c] = "serve"
  /\ ui[c] = <<>>
  /\ cur # c
  /\ net' = [net EXCEPT ![c] = "over"]
  /\ UNCHANGED <<gui, who, ui, ev, rd, link, up, down, server>>

\* reader_loop takes the next frame: the login's answer becomes an event,
\* and so does an error; the rest does not matter here.
Read(c) ==
  /\ rd[c] = "read"
  /\ link[c] = "open"
  /\ down[c] # <<>>
  /\ down' = [down EXCEPT ![c] = Tail(@)]
  /\ Emit(c, CASE Head(down[c]) = "ok" -> <<"authed">>
               [] Head(down[c]) \in {"refused", "taken"} -> <<"error">>
               [] OTHER -> <<>>)
  /\ UNCHANGED <<gui, who, ui, net, rd, link, up, server>>

\* Fault: the reader ends without a word.
ReadEndSilently(c) ==
  /\ rd[c] = "read"
  /\ \/ link[c] = "cut"
     \/ srv[c] = "gone" /\ down[c] = <<>>
  /\ rd' = [rd EXCEPT ![c] = "over"]
  /\ UNCHANGED <<gui, who, ui, ev, net, link, up, down, server>>

\* The end of the stream, or an error on it.
ReadEnd(c) ==
  /\ rd[c] = "read"
  /\ \/ link[c] = "cut"
     \/ srv[c] = "gone" /\ down[c] = <<>>
  /\ rd' = [rd EXCEPT ![c] = "over"]
  /\ Emit(c, <<"gone">>)
  /\ UNCHANGED <<gui, who, ui, net, link, up, down, server>>

\* The network loses the connection; only the client's end notices.
Cut(c) ==
  /\ link[c] = "open"
  /\ link' = [link EXCEPT ![c] = "cut"]
  /\ up' = [up EXCEPT ![c] = <<>>]
  /\ down' = [down EXCEPT ![c] = <<>>]
  /\ UNCHANGED <<gui, who, ui, ev, net, rd, server>>

\* The reader of the other client takes the next frame.
GuestReads ==
  /\ down[Guest] # <<>>
  /\ down' = [down EXCEPT ![Guest] = Tail(@)]
  /\ UNCHANGED <<gui, who, threads, up, server>>

-----------------------------------------------------------------------------
(* The handler of connection c *)

Goto(c, at) == srv' = [srv EXCEPT ![c] = at]

\* The first frame: a name that is in the list is refused and the connection
\* closed; else the client is appended and told what to do next.
Hello(c) ==
  /\ srv[c] = "new"
  /\ up[c] # <<>>
  /\ lock = None
  /\ up' = [up EXCEPT ![c] = Tail(@)]
  /\ IF \E d \in Listed \ {Guest} : who[d] = who[c]
       THEN Goto(c, "gone") /\ Write(c, "taken")
       ELSE Goto(c, "idle") /\ Write(c, "line")
  /\ UNCHANGED <<gui, who, threads, member, lock, todo>>

\* The login, which looks the client up like every frame does: the password
\* is right or wrong.
LogIn(c) ==
  /\ srv[c] = "idle"
  /\ up[c] # <<>>
  /\ lock = None
  /\ up' = [up EXCEPT ![c] = Tail(@)]
  /\ \/ Goto(c, "greet") /\ member' = member \cup {c} /\ Write(c, "ok")
     \/ Write(c, "refused") /\ UNCHANGED <<srv, member>>
  /\ UNCHANGED <<gui, who, threads, lock, todo>>

\* No frame for ten minutes.
Deadline(c) ==
  /\ srv[c] = "idle"
  /\ up[c] = <<>>
  /\ Goto(c, "leave")
  /\ UNCHANGED <<gui, who, threads, up, down, member, lock, todo>>

\* The client's end has been closed, or is found dead: the listener of net
\* keeps its connections alive with probes.
EndOfStream(c) ==
  /\ srv[c] \in {"new", "idle"}
  /\ link[c] \in {"closed", "cut"}
  /\ up[c] = <<>>
  /\ Goto(c, IF srv[c] = "new" THEN "gone" ELSE "leave")
  /\ UNCHANGED <<gui, who, threads, up, down, member, lock, todo>>

\* The client is taken out of the list.
Leave(c) ==
  /\ srv[c] = "leave"
  /\ lock = None
  /\ Goto(c, "bye")
  /\ member' = member \ {c}
  /\ UNCHANGED <<gui, who, threads, up, down, lock, todo>>

\* activate and the farewell: the mutex is taken and the clients that are in
\* the list then are written to, one by one.
Broadcast(c) ==
  /\ srv[c] \in {"greet", "bye"}
  /\ lock = None
  /\ lock' = c
  /\ todo' = Listed
  /\ Goto(c, IF srv[c] = "greet" THEN "greeting" ELSE "byeing")
  /\ UNCHANGED <<gui, who, threads, up, down, member>>

Tell(c) ==
  /\ lock = c
  /\ \E d \in todo : todo' = todo \ {d} /\ Write(d, "line")
  /\ IF todo' = {}
       THEN /\ lock' = None
            /\ Goto(c, IF srv[c] = "greeting" THEN "idle" ELSE "gone")
       ELSE UNCHANGED <<lock, srv>>
  /\ UNCHANGED <<gui, who, threads, up, member>>

-----------------------------------------------------------------------------

SInit == /\ screen = "connect" /\ authed = FALSE
         /\ cur = None
         /\ heard = FALSE
         /\ who = [c \in Conn |-> None]
         /\ ui = [c \in Conn |-> <<>>]
         /\ ev = [c \in Conn |-> <<>>]
         /\ net = [c \in Conn |-> "none"]
         /\ rd = [c \in Conn |-> "none"]
         /\ link = [c \in Conn |-> "none"]
         /\ up = [c \in Conn |-> <<>>]
         /\ down = [c \in Client |-> <<>>]
         /\ srv = [c \in Conn |-> "none"]
         /\ member = {}
         /\ lock = None
         /\ todo = {}

Person == \/ \E n \in Name : StartConnect(n)
          \/ Logout
          \/ Quit

NetLoop(c) == Dial(c) \/ DialFails(c) \/ Command(c) \/ HangUp(c)

Reader(c) == Read(c) \/ ReadEnd(c)

Frames(c) == Hello(c) \/ LogIn(c) \/ EndOfStream(c)

\* What a handler does between two frames.
Announcing(c) == Leave(c) \/ Broadcast(c) \/ Tell(c)

\* What the machines but the guest's do by themselves.
Machines == \/ Poll
            \/ \E c \in Conn : \/ NetLoop(c) \/ Reader(c)
                               \/ Frames(c) \/ Deadline(c) \/ Announcing(c)

System == Machines \/ GuestReads

SNext == \/ Person
         \/ \E c \in Conn : Cut(c)
         \/ System

\* Something of what can be done is done: the GUI polls with every frame it
\* draws, threads run, connections deliver, deadlines pass.  Nothing more is
\* assumed, not even that a handler that waits for the mutex gets it soon:
\* the person makes finitely many attempts, and each has finitely many steps.
\* The person, the network's failures are under no obligation.  That every
\* client reads what it is sent is part of it.
SFairness == WF_svars(System)

SSpec == SInit /\ [][SNext]_svars /\ SFairness

\* The same, each part on its own, but for a guest that hangs: its connection
\* stays open and it need not read.  The read deadline of its own handler
\* changes nothing once a broadcast waits for it: the exit takes the mutex
\* before the connection is closed.
HungFairness == /\ WF_svars(Poll)
                /\ \A c \in Conn : /\ WF_svars(NetLoop(c)) /\ WF_svars(Reader(c))
                                   /\ WF_svars(Frames(c)) /\ WF_svars(Deadline(c))
                                   /\ WF_svars(Announcing(c))

HungSpec == SInit /\ [][SNext]_svars /\ HungFairness

-----------------------------------------------------------------------------

Frame == {"line", "ok", "refused", "taken"}

\* Types; the mutex is held by the handler that broadcasts; the GUI that
\* shows a login has channels, and the chat on its screen.
SessionOK ==
  /\ screen \in {"connect", "chat"} /\ authed \in BOOLEAN /\ heard \in BOOLEAN
  /\ cur \in Conn \cup {None}
  /\ authed => screen = "chat" /\ cur # None
  /\ who \in [Conn -> Name \cup {None}]
  /\ ui \in [Conn -> Seq({"login", "exit"})]
  /\ ev \in [Conn -> Seq({"authed", "error", "gone"})]
  /\ net \in [Conn -> {"none", "dial", "serve", "over"}]
  /\ rd \in [Conn -> {"none", "read", "over"}]
  /\ link \in [Conn -> {"none", "open", "cut", "closed"}]
  /\ up \in [Conn -> Seq({"hello", "login"})]
  /\ down \in [Client -> Seq(Frame)]
  /\ srv \in [Conn -> InList \cup {"none", "new", "bye", "byeing", "gone"}]
  /\ member \in SUBSET Conn
  /\ lock \in Conn \cup {None}
  /\ \A c \in Conn : srv[c] \in {"greeting", "byeing"} <=> lock = c
  /\ todo \in SUBSET Client

\* The end of cur's connection is on its way to the GUI.
EndIsComing == \/ rd[cur] = "read" /\ (link[cur] = "cut" \/ srv[cur] \in {"bye", "byeing", "gone"})
               \/ \E i \in DOMAIN ev[cur] : ev[cur][i] = "gone"

\* While the GUI shows its user as logged in, the server has this connection
\* logged in, with the right password, or the GUI is about to hear of its
\* end; whatever attempts were made and given up before.
ShownIsServed == authed => cur \in member \/ EndIsComing

\* Who presses the button hears of the outcome, unless the attempt is given up.
OutcomeIsHeard == (cur # None /\ ~heard) ~> (cur = None \/ heard)

Over(c) == /\ net[c] \in {"none", "over"}
           /\ rd[c] \in {"none", "over"}
           /\ srv[c] \in {"none", "gone"}

\* An attempt that was given up, by a logout or by another one, ends: both
\* threads and the handler, and the server frees the name.
GivenUpEnds == \A c \in Conn : (net[c] # "none" /\ cur # c) ~> Over(c)

\* A handler that has something to tell the others, or is about to end, gets
\* over it.
GetsOver(c) == srv[c] \notin {"none", "new", "idle", "gone"} ~> srv[c] \in {"idle", "gone"}

\* As long as every client reads what it is sent, however slowly, no handler
\* waits for ever for the mutex or for room in a buffer (main.go:275), also
\* when a broadcast meets a connection that is given up, lost or ending.
NoThreadHangs == \A c \in Conn : GetsOver(c)

\* A client that hangs or is slow holds no thread of the server for ever
\* (CHANGELOG.md:94), under HungSpec, where one client hangs: neither its own
\* handler, which only waits for its deadline, nor those of the others.
\* Promised, not kept: a write has no deadline, and the broadcast to the
\* client that hangs holds the mutex.
HungHoldsNoThread == \A c \in Conn : GetsOver(c)

=============================================================================
