---------------------------- MODULE SessionProofs ----------------------------
(***************************************************************************)
(* Proofs about Session, for any number of attempts and any size of the    *)
(* buffers: the types with the discipline of the mutex, and that the GUI   *)
(* shows a login only while the server has it or its end is coming.        *)
(***************************************************************************)
EXTENDS Session, TLAPS

Event == {"authed", "error", "gone"}

Has(s, e) == \E i \in DOMAIN s : s[i] = e

-----------------------------------------------------------------------------
(* Sequences of events and of frames *)

LEMMA EventAppended ==
  ASSUME NEW s \in Seq(Event), NEW x \in Event, NEW e
  PROVE  /\ s \o <<x>> \in Seq(Event)
         /\ s \o <<x>> # <<>>
         /\ (s \o <<x>>)[Len(s \o <<x>>)] = x
         /\ Has(s \o <<x>>, e) => Has(s, e) \/ x = e
BY DEF Has

\* What is left of a sequence when its first element is taken.
LEMMA Taken ==
  ASSUME NEW S, NEW s \in Seq(S), s # <<>>, NEW e
  PROVE  /\ Tail(s) \in Seq(S)
         /\ Head(s) \in S
         /\ Has(Tail(s), e) => Has(s, e)
         /\ Head(s) = e => Has(s, e)
         /\ Tail(s) # <<>> => Tail(s)[Len(Tail(s))] = s[Len(s)]
         /\ Tail(s) = <<>> => s[Len(s)] = Head(s)
<1>1. /\ Tail(s) \in Seq(S) /\ Head(s) \in S /\ Head(s) = s[1]
      /\ Len(s) \in Nat \ {0} /\ Len(Tail(s)) = Len(s) - 1
      /\ DOMAIN s = 1 .. Len(s) /\ DOMAIN Tail(s) = 1 .. Len(s) - 1
  OBVIOUS
<1>2. \A i \in 1 .. Len(s) - 1 : Tail(s)[i] = s[i + 1]
  OBVIOUS
<1>3. Has(Tail(s), e) => Has(s, e)
  <2>1. ASSUME NEW i \in 1 .. Len(s) - 1, Tail(s)[i] = e
        PROVE  i + 1 \in 1 .. Len(s) /\ s[i + 1] = e
    BY <1>1, <1>2, <2>1
  <2> QED  BY <1>1, <2>1 DEF Has
<1>4. Head(s) = e => Has(s, e)
  BY <1>1 DEF Has
<1>5. Tail(s) # <<>> => Tail(s)[Len(Tail(s))] = s[Len(s)]
  BY <1>1, <1>2
<1>6. ASSUME Tail(s) = <<>>  PROVE  s[Len(s)] = Head(s)
  <2>1. Len(<<>>) = 0
    OBVIOUS
  <2>2. Len(s) = 1
    BY <1>1, <1>6, <2>1
  <2> QED  BY <1>1, <2>2
<1> QED  BY <1>1, <1>3, <1>4, <1>5, <1>6

LEMMA NothingAppended ==
  ASSUME NEW s \in Seq(Event)
  PROVE  s \o <<>> = s
OBVIOUS

LEMMA FrameAppended ==
  ASSUME NEW s \in Seq(Frame), NEW x \in Frame, NEW e
  PROVE  /\ Append(s, x) \in Seq(Frame)
         /\ Has(Append(s, x), e) => Has(s, e) \/ x = e
BY DEF Has

\* The guest is none of the attempts.
LEMMA ConnIsClient == \A c \in Conn : c \in Client /\ c # Guest
BY GuestAssumption, BoundAssumption DEF Client, Conn

-----------------------------------------------------------------------------
(* The invariant *)

\* The threads of an attempt are started one after the other, and the GUI
\* holds the channels of an attempt that was made.
Fresh(c) == /\ net[c] \in {"none", "dial"} => rd[c] = "none"
            /\ net[c] = "none" => cur # c

\* Before it has a reader, a connection has no handler and nothing to read.
Born(c) == rd[c] = "none" =>
  /\ srv[c] = "none" /\ link[c] = "none" /\ down[c] = <<>>
  /\ ~Has(ev[c], "authed")
  /\ ~(authed /\ cur = c)

\* An accepted login, wherever its answer is, is one that the server has or
\* has just ended.
LoggedOK(c) ==
  Has(down[c], "ok") \/ Has(ev[c], "authed") \/ (authed /\ cur = c)
    => c \in member \/ srv[c] \in {"bye", "byeing", "gone"}

\* The reader's last word is the end of the connection.
EndTold(c) == cur = c /\ rd[c] = "over" =>
  \/ ev[c] = <<>> /\ ~authed
  \/ ev[c] # <<>> /\ ev[c][Len(ev[c])] = "gone"

ConnOK(c) == Fresh(c) /\ Born(c) /\ LoggedOK(c) /\ EndTold(c)

SInv == SessionOK /\ \A c \in Conn : ConnOK(c)

\* The parts of SessionOK.
GuiOK == /\ screen \in {"connect", "chat"} /\ authed \in BOOLEAN /\ heard \in BOOLEAN
         /\ cur \in Conn \cup {None}
         /\ authed => screen = "chat" /\ cur # None

NamesOK == who \in [Conn -> Name \cup {None}]

CommandsOK == ui \in [Conn -> Seq({"login", "exit"})]

EventsOK == ev \in [Conn -> Seq({"authed", "error", "gone"})]

ThreadsOK == /\ net \in [Conn -> {"none", "dial", "serve", "over"}]
             /\ rd \in [Conn -> {"none", "read", "over"}]
             /\ link \in [Conn -> {"none", "open", "cut", "closed"}]

WiresOK == /\ up \in [Conn -> Seq({"hello", "login"})]
           /\ down \in [Client -> Seq(Frame)]

ServerOK ==
  /\ srv \in [Conn -> InList \cup {"none", "new", "bye", "byeing", "gone"}]
  /\ member \in SUBSET Conn
  /\ lock \in Conn \cup {None}
  /\ \A c \in Conn : srv[c] \in {"greeting", "byeing"} <=> lock = c
  /\ todo \in SUBSET Client

LEMMA SessionParts ==
  /\ SessionOK <=> /\ GuiOK /\ NamesOK /\ CommandsOK /\ EventsOK
                   /\ ThreadsOK /\ WiresOK /\ ServerOK
  /\ SessionOK' <=> /\ GuiOK' /\ NamesOK' /\ CommandsOK' /\ EventsOK'
                    /\ ThreadsOK' /\ WiresOK' /\ ServerOK'
BY DEF SessionOK, GuiOK, NamesOK, CommandsOK, EventsOK, ThreadsOK, WiresOK, ServerOK

LEMMA PartsKept ==
  /\ NamesOK /\ UNCHANGED who => NamesOK'
  /\ CommandsOK /\ UNCHANGED ui => CommandsOK'
  /\ EventsOK /\ UNCHANGED ev => EventsOK'
  /\ ThreadsOK /\ UNCHANGED <<net, rd, link>> => ThreadsOK'
  /\ WiresOK /\ UNCHANGED <<up, down>> => WiresOK'
  /\ ServerOK /\ UNCHANGED server => ServerOK'
  /\ GuiOK /\ UNCHANGED gui => GuiOK'
BY DEF GuiOK, NamesOK, CommandsOK, EventsOK, ThreadsOK, WiresOK, ServerOK, server, gui

LEMMA InitSInv ==
  SInit => SInv
<1> SUFFICES ASSUME SInit PROVE SInv
  OBVIOUS
<1>1. \A c \in Conn : c # None
  BY BoundAssumption DEF Conn, None
<1>2. SessionOK
  <2>1. GuiOK /\ NamesOK /\ ThreadsOK
    BY DEF SInit, GuiOK, NamesOK, ThreadsOK
  <2>2. CommandsOK /\ EventsOK /\ WiresOK
    BY DEF SInit, CommandsOK, EventsOK, WiresOK
  <2>3. ServerOK
    BY <1>1 DEF SInit, ServerOK
  <2> QED  BY SessionParts, <2>1, <2>2, <2>3
<1>3. ASSUME NEW c \in Conn  PROVE  ConnOK(c)
  BY <1>1, <1>3, ConnIsClient DEF SInit, ConnOK, Fresh, Born, LoggedOK, EndTold, Has
<1> QED  BY <1>2, <1>3 DEF SInv

\* The invariant holds by type after a step that leaves all but ui and up.
LEMMA OthersStay ==
  ASSUME SInv, UNCHANGED <<authed, cur, ev, net, rd, link, down, srv, member>>, NEW c \in Conn
  PROVE  ConnOK(c)'
BY DEF SInv, ConnOK, Fresh, Born, LoggedOK, EndTold

-----------------------------------------------------------------------------
(* The GUI thread *)

LEMMA StartConnectStep ==
  ASSUME SInv, NEW n \in Name, StartConnect(n)
  PROVE  SInv'
<1>1. \A c \in Conn : c # None
  BY BoundAssumption DEF Conn, None
<1>2. SessionOK'
  <2> USE DEF SInv
  <2>1. GuiOK'
    BY SessionParts DEF GuiOK, StartConnect
  <2>2. NamesOK'
    BY SessionParts DEF NamesOK, StartConnect
  <2>3. CommandsOK'
    BY SessionParts DEF CommandsOK, StartConnect
  <2>4. EventsOK'
    BY SessionParts DEF EventsOK, StartConnect
  <2>5. ThreadsOK'
    BY SessionParts DEF ThreadsOK, StartConnect
  <2> QED  BY SessionParts, PartsKept, <2>1, <2>2, <2>3, <2>4, <2>5 DEF StartConnect
<1>3. ASSUME NEW c \in Conn  PROVE  ConnOK(c)'
  BY <1>1, <1>3 DEF SInv, SessionOK, StartConnect, server, ConnOK, Fresh, Born, LoggedOK, EndTold, Has
<1> QED  BY <1>2, <1>3 DEF SInv

LEMMA PollStep ==
  ASSUME SInv, Poll
  PROVE  SInv'
<1> USE DEF SInv, Poll
<1>1. cur \in Conn /\ ev[cur] \in Seq(Event) /\ ev[cur] # <<>>
  BY DEF SessionOK, Event
<1>2. /\ Tail(ev[cur]) \in Seq(Event) /\ Head(ev[cur]) \in Event
      /\ Has(Tail(ev[cur]), "authed") => Has(ev[cur], "authed")
      /\ Head(ev[cur]) = "authed" => Has(ev[cur], "authed")
      /\ Tail(ev[cur]) # <<>> => Tail(ev[cur])[Len(Tail(ev[cur]))] = ev[cur][Len(ev[cur])]
      /\ Tail(ev[cur]) = <<>> => ev[cur][Len(ev[cur])] = Head(ev[cur])
  BY <1>1, Taken
<1>3. SessionOK'
  BY <1>1, <1>2 DEF SessionOK, server, Event, None
<1>4. ASSUME NEW c \in Conn  PROVE  ConnOK(c)'
  <2>1. CASE c # cur
    BY <1>1, <2>1 DEF SessionOK, server, ConnOK, Fresh, Born, LoggedOK, EndTold
  <2>2. CASE c = cur
    <3>1. ev'[c] = Tail(ev[c])
      BY <1>1, <2>2 DEF SessionOK
    <3> QED  BY <1>2, <2>2, <3>1, SMTT(30) DEF SessionOK, server, ConnOK, Fresh, Born, LoggedOK, EndTold
  <2> QED  BY <2>1, <2>2
<1> QED  BY <1>3, <1>4

LEMMA LogoutStep ==
  ASSUME SInv, Logout
  PROVE  SInv'
<1>1. \A c \in Conn : c # None
  BY BoundAssumption DEF Conn, None
<1>2. SessionOK'
  <2> USE DEF SInv
  <2>1. GuiOK'
    BY SessionParts DEF GuiOK, Logout
  <2>2. CommandsOK'
    BY SessionParts DEF CommandsOK, GuiOK, Logout
  <2>3. EventsOK'
    <3>1. <<>> \in Seq({"authed", "error", "gone"})
      OBVIOUS
    <3> QED  BY <3>1, SessionParts DEF EventsOK, Logout
  <2> QED  BY SessionParts, PartsKept, <2>1, <2>2, <2>3 DEF Logout
<1>3. ASSUME NEW c \in Conn  PROVE  ConnOK(c)'
  BY <1>1, <1>3 DEF SInv, SessionOK, Logout, server, ConnOK, Fresh, Born, LoggedOK, EndTold, Has
<1> QED  BY <1>2, <1>3 DEF SInv

LEMMA QuitStep ==
  ASSUME SInv, Quit
  PROVE  SInv'
<1>1. \A c \in Conn : c # None
  BY BoundAssumption DEF Conn, None
<1>2. SessionOK'
  <2> USE DEF SInv
  <2>1. GuiOK'
    BY SessionParts DEF GuiOK, Quit
  <2>2. CommandsOK' /\ EventsOK'
    BY SessionParts DEF CommandsOK, EventsOK, Quit
  <2>3. ThreadsOK'
    BY SessionParts DEF ThreadsOK, Quit
  <2> QED  BY SessionParts, PartsKept, <2>1, <2>2, <2>3 DEF Quit
<1>3. ASSUME NEW c \in Conn  PROVE  ConnOK(c)'
  BY <1>1, <1>3 DEF SInv, SessionOK, Quit, server, ConnOK, Fresh, Born, LoggedOK, EndTold, Has
<1> QED  BY <1>2, <1>3 DEF SInv

-----------------------------------------------------------------------------
(* The threads of an attempt *)

LEMMA EmitOne ==
  ASSUME SInv, NEW c \in Conn, NEW x \in Event, Emit(c, <<x>>)
  PROVE  /\ EventsOK'
         /\ \A d \in Conn : d # c \/ cur # c => ev'[d] = ev[d]
         /\ cur = c => /\ ev'[c] # <<>>
                       /\ ev'[c][Len(ev'[c])] = x
                       /\ Has(ev'[c], "authed") => Has(ev[c], "authed") \/ x = "authed"
<1>1. ev \in [Conn -> Seq(Event)]
  BY DEF SInv, SessionOK, Event
<1>2. CASE cur = c
  <2>1. /\ ev[c] \o <<x>> \in Seq(Event)
        /\ ev[c] \o <<x>> # <<>>
        /\ (ev[c] \o <<x>>)[Len(ev[c] \o <<x>>)] = x
        /\ Has(ev[c] \o <<x>>, "authed") => Has(ev[c], "authed") \/ x = "authed"
    BY <1>1, EventAppended
  <2>2. ev' = [ev EXCEPT ![c] = @ \o <<x>>]
    BY <1>2 DEF Emit
  <2>3. ev'[c] = ev[c] \o <<x>> /\ \A d \in Conn : d # c => ev'[d] = ev[d]
    BY <1>1, <2>2
  <2>4. ev' \in [Conn -> Seq(Event)]
    BY <1>1, <2>1, <2>2
  <2>5. EventsOK'
    BY <2>4 DEF EventsOK, Event
  <2>6. \A d \in Conn : d # c \/ cur # c => ev'[d] = ev[d]
    BY <1>2, <2>3
  <2> QED  BY <2>1, <2>3, <2>5, <2>6
<1>3. CASE cur # c
  BY <1>1, <1>3 DEF Emit, EventsOK, Event
<1> QED  BY <1>2, <1>3

LEMMA EmitNone ==
  ASSUME SInv, NEW c \in Conn, Emit(c, <<>>)
  PROVE  ev' = ev
<1>1. ev \in [Conn -> Seq(Event)]
  BY DEF SInv, SessionOK, Event
<1>2. ev[c] \o <<>> = ev[c]
  BY <1>1, NothingAppended
<1> QED  BY <1>1, <1>2 DEF Emit

LEMMA DialStep ==
  ASSUME SInv, NEW c \in Conn, Dial(c)
  PROVE  SInv'
<1>1. \A d \in Conn : d # None
  BY BoundAssumption DEF Conn, None
<1>2. srv[c] = "none" /\ down[c] = <<>> /\ ~Has(ev[c], "authed") /\ ~(authed /\ cur = c)
  BY DEF SInv, ConnOK, Fresh, Born, Dial
<1>3. SessionOK'
  <2> USE DEF SInv
  <2>1. ThreadsOK'
    BY SessionParts DEF ThreadsOK, Dial
  <2>2. WiresOK'
    BY SessionParts DEF WiresOK, Dial
  <2>3. ServerOK'
    BY SessionParts, <1>2 DEF ServerOK, Dial
  <2> QED  BY SessionParts, PartsKept, <2>1, <2>2, <2>3 DEF Dial
<1>4. ASSUME NEW d \in Conn  PROVE  ConnOK(d)'
  BY <1>2, <1>4, SMTT(30) DEF SInv, SessionOK, Dial, gui, ConnOK, Fresh, Born, LoggedOK, EndTold, Has
<1> QED  BY <1>3, <1>4 DEF SInv

LEMMA DialFailsStep ==
  ASSUME SInv, NEW c \in Conn, DialFails(c)
  PROVE  SInv'
<1>1. rd[c] = "none"
  BY DEF SInv, ConnOK, Fresh, DialFails
<1>2. Emit(c, <<"gone">>)
  BY DEF DialFails
<1>3. /\ EventsOK'
      /\ \A d \in Conn : d # c \/ cur # c => ev'[d] = ev[d]
      /\ cur = c => (Has(ev'[c], "authed") => Has(ev[c], "authed"))
  BY <1>2, EmitOne DEF Event
<1>4. SessionOK'
  <2>1. ThreadsOK'
    BY SessionParts DEF SInv, ThreadsOK, DialFails
  <2> QED  BY SessionParts, PartsKept, <1>3, <2>1 DEF SInv, DialFails
<1>5. ASSUME NEW d \in Conn  PROVE  ConnOK(d)'
  BY <1>1, <1>3, <1>5 DEF SInv, SessionOK, DialFails, gui, server, ConnOK, Fresh, Born, LoggedOK, EndTold
<1> QED  BY <1>4, <1>5 DEF SInv

LEMMA CommandStep ==
  ASSUME SInv, NEW c \in Conn, Command(c)
  PROVE  SInv'
<1>1. /\ ui[c] \in Seq({"login", "exit"})
      /\ Tail(ui[c]) \in Seq({"login", "exit"})
      /\ up[c] \in Seq({"hello", "login"})
      /\ Append(up[c], "login") \in Seq({"hello", "login"})
  BY DEF SInv, SessionOK, Command
<1>2. SessionOK'
  <2> USE DEF SInv
  <2>1. CommandsOK'
    BY SessionParts, <1>1 DEF CommandsOK, Command
  <2>2. ThreadsOK'
    BY SessionParts DEF ThreadsOK, Command
  <2>3. WiresOK'
    BY SessionParts, <1>1 DEF WiresOK, Command
  <2> QED  BY SessionParts, PartsKept, <2>1, <2>2, <2>3 DEF Command
<1>3. ASSUME NEW d \in Conn  PROVE  ConnOK(d)'
  BY <1>3, SMTT(30) DEF SInv, SessionOK, Command, gui, server, ConnOK, Fresh, Born, LoggedOK, EndTold
<1> QED  BY <1>2, <1>3 DEF SInv

LEMMA HangUpStep ==
  ASSUME SInv, NEW c \in Conn, HangUp(c)
  PROVE  SInv'
<1>1. SessionOK'
  <2>1. ThreadsOK'
    BY SessionParts DEF SInv, ThreadsOK, HangUp
  <2> QED  BY SessionParts, PartsKept, <2>1 DEF SInv, HangUp
<1>2. ASSUME NEW d \in Conn  PROVE  ConnOK(d)'
  BY <1>2 DEF SInv, SessionOK, HangUp, gui, server, ConnOK, Fresh, Born, LoggedOK, EndTold
<1> QED  BY <1>1, <1>2 DEF SInv

LEMMA ReadStep ==
  ASSUME SInv, NEW c \in Conn, Read(c)
  PROVE  SInv'
<1>1. /\ down[c] \in Seq(Frame) /\ down[c] # <<>>
      /\ rd[c] = "read"
      /\ down' = [down EXCEPT ![c] = Tail(@)]
      /\ UNCHANGED <<gui, who, ui, net, rd, link, up, server>>
  BY ConnIsClient DEF SInv, SessionOK, Read
<1>2. /\ Tail(down[c]) \in Seq(Frame)
      /\ Has(Tail(down[c]), "ok") => Has(down[c], "ok")
      /\ Head(down[c]) = "ok" => Has(down[c], "ok")
  BY <1>1, Taken
<1>3. WiresOK'
  BY SessionParts, <1>1, <1>2 DEF SInv, WiresOK
<1>4. \/ Head(down[c]) = "ok" /\ Emit(c, <<"authed">>)
      \/ Emit(c, <<"error">>)
      \/ Emit(c, <<>>)
  BY DEF Read
<1>5. /\ EventsOK'
      /\ \A d \in Conn : Has(ev'[d], "authed") =>
           Has(ev[d], "authed") \/ (d = c /\ Has(down[c], "ok"))
      /\ \A d \in Conn : d # c => ev'[d] = ev[d]
  <2>1. CASE Head(down[c]) = "ok" /\ Emit(c, <<"authed">>)
    BY <1>2, <2>1, EmitOne DEF Event
  <2>2. CASE Emit(c, <<"error">>)
    <3>1. /\ EventsOK'
          /\ \A d \in Conn : d # c \/ cur # c => ev'[d] = ev[d]
          /\ cur = c => (Has(ev'[c], "authed") => Has(ev[c], "authed"))
      BY <2>2, EmitOne DEF Event
    <3> QED  BY <3>1
  <2>3. CASE Emit(c, <<>>)
    BY <2>3, EmitNone, SessionParts, PartsKept DEF SInv
  <2> QED  BY <1>4, <2>1, <2>2, <2>3
<1>6. SessionOK'
  BY SessionParts, PartsKept, <1>1, <1>3, <1>5 DEF SInv, ThreadsOK
<1>7. ASSUME NEW d \in Conn  PROVE  ConnOK(d)'
  <2>1. ConnOK(d) /\ down \in [Client -> Seq(Frame)]
    BY DEF SInv, SessionOK
  <2>2. CASE d # c
    <3>1. down'[d] = down[d] /\ ev'[d] = ev[d]
      BY <1>1, <1>5, <2>1, <2>2
    <3> QED  BY <1>1, <2>1, <3>1 DEF gui, server, ConnOK, Fresh, Born, LoggedOK, EndTold
  <2>3. CASE d = c
    <3>1. down'[d] = Tail(down[d])
      BY <1>1, <2>1, <2>3, ConnIsClient
    <3> QED  BY <1>1, <1>2, <1>5, <2>1, <2>3, <3>1 DEF gui, server, ConnOK, Fresh, Born, LoggedOK, EndTold
  <2> QED  BY <2>2, <2>3
<1> QED  BY <1>6, <1>7 DEF SInv

LEMMA ReadEndStep ==
  ASSUME SInv, NEW c \in Conn, ReadEnd(c)
  PROVE  SInv'
<1>1. Emit(c, <<"gone">>)
  BY DEF ReadEnd
<1>2. /\ EventsOK'
      /\ \A d \in Conn : d # c \/ cur # c => ev'[d] = ev[d]
      /\ cur = c => /\ ev'[c] # <<>>
                    /\ ev'[c][Len(ev'[c])] = "gone"
                    /\ Has(ev'[c], "authed") => Has(ev[c], "authed")
  BY <1>1, EmitOne DEF Event
<1>3. SessionOK'
  <2>1. ThreadsOK'
    BY SessionParts DEF SInv, ThreadsOK, ReadEnd
  <2> QED  BY SessionParts, PartsKept, <1>2, <2>1 DEF SInv, ReadEnd
<1>4. ASSUME NEW d \in Conn  PROVE  ConnOK(d)'
  BY <1>2, <1>4, SMTT(30) DEF SInv, SessionOK, ReadEnd, gui, server, ConnOK, Fresh, Born, LoggedOK, EndTold
<1> QED  BY <1>3, <1>4 DEF SInv

LEMMA CutStep ==
  ASSUME SInv, NEW c \in Conn, Cut(c)
  PROVE  SInv'
<1>1. SessionOK'
  <2>1. ThreadsOK'
    BY SessionParts DEF SInv, ThreadsOK, Cut
  <2>2. WiresOK'
    BY SessionParts, ConnIsClient DEF SInv, WiresOK, Cut
  <2> QED  BY SessionParts, PartsKept, <2>1, <2>2 DEF SInv, Cut
<1>2. ASSUME NEW d \in Conn  PROVE  ConnOK(d)'
  BY <1>2, ConnIsClient DEF SInv, SessionOK, Cut, gui, server, ConnOK, Fresh, Born, LoggedOK, EndTold, Has
<1> QED  BY <1>1, <1>2 DEF SInv

-----------------------------------------------------------------------------
(* The handlers *)

LEMMA WriteOne ==
  ASSUME SInv, NEW c \in Client, NEW f \in Frame, Write(c, f)
  PROVE  /\ down' \in [Client -> Seq(Frame)]
         /\ \A d \in Conn : d # c \/ link[d] # "open" => down'[d] = down[d]
         /\ Has(down'[c], "ok") => Has(down[c], "ok") \/ f = "ok"
<1>1. down \in [Client -> Seq(Frame)] /\ \A d \in Conn : d \in Client /\ d # Guest
  BY ConnIsClient DEF SInv, SessionOK
<1>2. CASE c = Guest \/ link[c] = "open"
  <2>1. /\ Append(down[c], f) \in Seq(Frame)
        /\ Has(Append(down[c], f), "ok") => Has(down[c], "ok") \/ f = "ok"
    BY <1>1, FrameAppended
  <2>2. down' = [down EXCEPT ![c] = Append(@, f)]
    BY <1>2 DEF Write
  <2> QED  BY <1>1, <1>2, <2>1, <2>2
<1>3. CASE c # Guest /\ link[c] # "open"
  BY <1>1, <1>3 DEF Write
<1> QED  BY <1>2, <1>3

\* A step of c's handler that writes at most to sockets that are open, and an
\* accepted login to members only, keeps what is said of the connections.
LEMMA HandlerKeeps ==
  ASSUME SInv, NEW c \in Conn, srv[c] # "none",
         UNCHANGED <<gui, who, threads>>,
         \A d \in Conn : d # c => srv'[d] = srv[d] /\ (d \in member => d \in member'),
         srv[c] \in {"bye", "byeing", "gone"} => srv'[c] \in {"bye", "byeing", "gone"},
         c \in member => c \in member' \/ srv'[c] \in {"bye", "byeing", "gone"},
         \A d \in Conn : link[d] # "open" => down'[d] = down[d],
         \A d \in Conn : Has(down'[d], "ok") => Has(down[d], "ok") \/ d \in member'
  PROVE  \A d \in Conn : ConnOK(d)'
<1> SUFFICES ASSUME NEW d \in Conn  PROVE ConnOK(d)'
  OBVIOUS
<1>1. ConnOK(d) /\ ConnOK(c)
  BY DEF SInv
<1>2. UNCHANGED <<authed, cur, ev, net, rd, link>>
  BY DEF gui, threads
<1>3. Fresh(d)' /\ EndTold(d)'
  BY <1>1, <1>2 DEF ConnOK, Fresh, EndTold
<1>4. Born(d)'
  BY <1>1, <1>2 DEF ConnOK, Born
<1>5. LoggedOK(d)'
  BY <1>1, <1>2 DEF ConnOK, LoggedOK
<1> QED  BY <1>3, <1>4, <1>5 DEF ConnOK

LEMMA HelloStep ==
  ASSUME SInv, NEW c \in Conn, Hello(c)
  PROVE  SInv'
<1>1. PICK f \in {"taken", "line"} : Write(c, f)
  BY DEF Hello
<1>2. /\ down' \in [Client -> Seq(Frame)]
      /\ \A d \in Conn : d # c \/ link[d] # "open" => down'[d] = down[d]
      /\ Has(down'[c], "ok") => Has(down[c], "ok")
  BY <1>1, ConnIsClient, WriteOne DEF Frame
<1>3. /\ srv[c] = "new" /\ lock = None
      /\ \E at \in {"gone", "idle"} : srv' = [srv EXCEPT ![c] = at]
      /\ up' = [up EXCEPT ![c] = Tail(@)] /\ up[c] # <<>>
      /\ UNCHANGED <<gui, who, threads, member, lock, todo>>
  BY DEF Hello, Goto
<1>4. SessionOK'
  <2> USE DEF SInv
  <2>1. WiresOK'
    <3>1. Tail(up[c]) \in Seq({"hello", "login"})
      BY <1>3, SessionParts DEF WiresOK
    <3> QED  BY <1>2, <1>3, <3>1, SessionParts DEF WiresOK
  <2>2. ServerOK'
    BY <1>3, SessionParts DEF ServerOK, InList
  <2> QED  BY SessionParts, PartsKept, <1>3, <2>1, <2>2 DEF threads
<1>5. \A d \in Conn : ConnOK(d)'
  <2>1. srv \in [Conn -> InList \cup {"none", "new", "bye", "byeing", "gone"}]
    BY DEF SInv, SessionOK
  <2>2. \A d \in Conn : d # c => srv'[d] = srv[d]
    BY <1>3, <2>1
  <2> QED  BY <1>2, <1>3, <2>2, HandlerKeeps
<1> QED  BY <1>4, <1>5 DEF SInv

LEMMA LogInStep ==
  ASSUME SInv, NEW c \in Conn, LogIn(c)
  PROVE  SInv'
<1>1. /\ srv[c] = "idle" /\ lock = None
      /\ \/ srv' = [srv EXCEPT ![c] = "greet"] /\ member' = member \cup {c} /\ Write(c, "ok")
         \/ Write(c, "refused") /\ UNCHANGED <<srv, member>>
      /\ up' = [up EXCEPT ![c] = Tail(@)] /\ up[c] # <<>>
      /\ UNCHANGED <<gui, who, threads, lock, todo>>
  BY DEF LogIn, Goto
<1>2. /\ down' \in [Client -> Seq(Frame)]
      /\ \A d \in Conn : d # c \/ link[d] # "open" => down'[d] = down[d]
      /\ Has(down'[c], "ok") => Has(down[c], "ok") \/ c \in member'
  BY <1>1, ConnIsClient, WriteOne DEF Frame
<1>3. SessionOK'
  <2> USE DEF SInv
  <2>1. WiresOK'
    <3>1. Tail(up[c]) \in Seq({"hello", "login"})
      BY <1>1, SessionParts DEF WiresOK
    <3> QED  BY <1>1, <1>2, <3>1, SessionParts DEF WiresOK
  <2>2. ServerOK'
    BY <1>1, SessionParts DEF ServerOK, InList
  <2> QED  BY SessionParts, PartsKept, <1>1, <2>1, <2>2 DEF threads
<1>4. \A d \in Conn : ConnOK(d)'
  <2>1. srv \in [Conn -> InList \cup {"none", "new", "bye", "byeing", "gone"}]
    BY DEF SInv, SessionOK
  <2>2. \A d \in Conn : d # c => srv'[d] = srv[d]
    BY <1>1, <2>1
  <2>3. member \subseteq member'
    BY <1>1
  <2> QED  BY <1>1, <1>2, <2>2, <2>3, HandlerKeeps
<1> QED  BY <1>3, <1>4 DEF SInv

\* The steps of a handler that write nothing and leave the list as it is.
LEMMA DeadlineStep ==
  ASSUME SInv, NEW c \in Conn, Deadline(c) \/ EndOfStream(c)
  PROVE  SInv'
<1>1. /\ srv[c] \in {"new", "idle"}
      /\ \E at \in {"gone", "leave"} : srv' = [srv EXCEPT ![c] = at]
      /\ UNCHANGED <<gui, who, threads, up, down, member, lock, todo>>
  BY DEF Deadline, EndOfStream, Goto
<1>2. srv \in [Conn -> InList \cup {"none", "new", "bye", "byeing", "gone"}]
  BY DEF SInv, SessionOK
<1>3. SessionOK'
  <2>1. ServerOK'
    BY <1>1, SessionParts DEF SInv, ServerOK, InList
  <2> QED  BY SessionParts, PartsKept, <1>1, <2>1 DEF SInv, threads
<1>4. \A d \in Conn : ConnOK(d)'
  <2>1. \A d \in Conn : d # c => srv'[d] = srv[d]
    BY <1>1, <1>2
  <2> QED  BY <1>1, <2>1, HandlerKeeps
<1> QED  BY <1>3, <1>4 DEF SInv

LEMMA LeaveStep ==
  ASSUME SInv, NEW c \in Conn, Leave(c)
  PROVE  SInv'
<1>1. /\ srv[c] = "leave" /\ lock = None
      /\ srv' = [srv EXCEPT ![c] = "bye"]
      /\ member' = member \ {c}
      /\ UNCHANGED <<gui, who, threads, up, down, lock, todo>>
  BY DEF Leave, Goto
<1>2. srv \in [Conn -> InList \cup {"none", "new", "bye", "byeing", "gone"}]
  BY DEF SInv, SessionOK
<1>3. SessionOK'
  <2>1. ServerOK'
    BY <1>1, SessionParts DEF SInv, ServerOK, InList
  <2> QED  BY SessionParts, PartsKept, <1>1, <2>1 DEF SInv, threads
<1>4. \A d \in Conn : ConnOK(d)'
  <2>1. srv'[c] = "bye" /\ \A d \in Conn : d # c => srv'[d] = srv[d]
    BY <1>1, <1>2
  <2> QED  BY <1>1, <2>1, HandlerKeeps
<1> QED  BY <1>3, <1>4 DEF SInv

LEMMA BroadcastStep ==
  ASSUME SInv, NEW c \in Conn, Broadcast(c)
  PROVE  SInv'
<1>1. /\ srv[c] \in {"greet", "bye"} /\ lock = None
      /\ srv' = [srv EXCEPT ![c] = IF srv[c] = "greet" THEN "greeting" ELSE "byeing"]
      /\ lock' = c /\ todo' = Listed
      /\ UNCHANGED <<gui, who, threads, up, down, member>>
  BY DEF Broadcast, Goto
<1>2. srv \in [Conn -> InList \cup {"none", "new", "bye", "byeing", "gone"}]
  BY DEF SInv, SessionOK
<1>3. SessionOK'
  <2>1. ServerOK'
    <3>1. \A d \in Conn : d # None
      BY BoundAssumption DEF Conn, None
    <3>2. todo' \in SUBSET Client
      BY <1>1 DEF Listed, Client
    <3> QED  BY <1>1, <3>1, <3>2, SessionParts DEF SInv, ServerOK, InList
  <2> QED  BY SessionParts, PartsKept, <1>1, <2>1 DEF SInv, threads
<1>4. \A d \in Conn : ConnOK(d)'
  <2>1. /\ srv[c] = "bye" => srv'[c] = "byeing"
        /\ \A d \in Conn : d # c => srv'[d] = srv[d]
    BY <1>1, <1>2
  <2> QED  BY <1>1, <2>1, HandlerKeeps
<1> QED  BY <1>3, <1>4 DEF SInv

LEMMA TellStep ==
  ASSUME SInv, NEW c \in Conn, Tell(c)
  PROVE  SInv'
<1>1. PICK d \in todo : todo' = todo \ {d} /\ Write(d, "line")
  BY DEF Tell
<1>2. /\ lock = c
      /\ \/ lock' = None /\ srv' = [srv EXCEPT ![c] = IF srv[c] = "greeting" THEN "idle" ELSE "gone"]
         \/ UNCHANGED <<lock, srv>>
      /\ UNCHANGED <<gui, who, threads, up, member>>
  BY DEF Tell, Goto
<1>3. /\ srv \in [Conn -> InList \cup {"none", "new", "bye", "byeing", "gone"}]
      /\ srv[c] \in {"greeting", "byeing"}
      /\ todo \in SUBSET Client /\ down \in [Client -> Seq(Frame)]
  BY <1>2 DEF SInv, SessionOK
<1>4. /\ down' \in [Client -> Seq(Frame)]
      /\ \A e \in Conn : link[e] # "open" => down'[e] = down[e]
      /\ \A e \in Conn : Has(down'[e], "ok") => Has(down[e], "ok")
  <2>1. d \in Client /\ Write(d, "line") /\ "line" \in Frame
    BY <1>1, <1>3 DEF Frame
  <2>2. /\ down' \in [Client -> Seq(Frame)]
        /\ \A e \in Conn : e # d \/ link[e] # "open" => down'[e] = down[e]
        /\ Has(down'[d], "ok") => Has(down[d], "ok")
    BY <2>1, WriteOne
  <2> QED  BY <2>2
<1>5. SessionOK'
  <2>1. ServerOK'
    <3>1. \A e \in Conn : e # None
      BY BoundAssumption DEF Conn, None
    <3> QED  BY <1>1, <1>2, <1>3, <3>1, SessionParts DEF SInv, ServerOK, InList
  <2>2. WiresOK'
    BY <1>2, <1>4, SessionParts DEF SInv, WiresOK
  <2> QED  BY SessionParts, PartsKept, <1>2, <2>1, <2>2 DEF SInv, threads
<1>6. \A e \in Conn : ConnOK(e)'
  <2>1. /\ \A e \in Conn : e # c => srv'[e] = srv[e]
        /\ srv[c] \in {"bye", "byeing", "gone"} => srv'[c] \in {"bye", "byeing", "gone"}
    BY <1>2, <1>3
  <2> QED  BY <1>2, <1>3, <1>4, <2>1, HandlerKeeps
<1> QED  BY <1>5, <1>6 DEF SInv

\* The guest's frames are nobody else's.
LEMMA GuestReadsStep ==
  ASSUME SInv, GuestReads
  PROVE  SInv'
<1>1. down \in [Client -> Seq(Frame)] /\ Guest \in Client
  BY DEF SInv, SessionOK, Client
<1>2. /\ down' = [down EXCEPT ![Guest] = Tail(@)]
      /\ down[Guest] # <<>>
      /\ UNCHANGED <<gui, who, threads, up, server>>
  BY DEF GuestReads
<1>3. down' \in [Client -> Seq(Frame)] /\ \A c \in Conn : down'[c] = down[c]
  <2>1. Tail(down[Guest]) \in Seq(Frame)
    BY <1>1, <1>2
  <2> QED
    BY <1>1, <1>2, <2>1, ConnIsClient
<1>4. SessionOK'
  <2>1. WiresOK'
    BY SessionParts, <1>2, <1>3 DEF SInv, WiresOK
  <2> QED
    BY SessionParts, PartsKept, <1>2, <2>1 DEF SInv, threads
<1>5. ASSUME NEW c \in Conn  PROVE ConnOK(c)'
  BY <1>2, <1>3 DEF SInv, gui, threads, server, ConnOK, Fresh, Born, LoggedOK, EndTold
<1> QED  BY <1>4, <1>5 DEF SInv

-----------------------------------------------------------------------------
(* The theorems *)

LEMMA StepSInv ==
  SInv /\ [SNext]_svars => SInv'
<1> SUFFICES ASSUME SInv, [SNext]_svars  PROVE SInv'
  OBVIOUS
<1>1. CASE UNCHANGED svars
  <2>1. SessionOK'
    BY <1>1, SessionParts, PartsKept DEF SInv, svars, threads
  <2>2. ASSUME NEW c \in Conn  PROVE ConnOK(c)'
    BY <1>1, <2>2, OthersStay DEF svars, gui, threads, server
  <2> QED  BY <2>1, <2>2 DEF SInv
<1>2. CASE Person
  BY <1>2, StartConnectStep, LogoutStep, QuitStep DEF Person
<1>3. ASSUME NEW c \in Conn, Cut(c)  PROVE SInv'
  BY <1>3, CutStep
<1>4. CASE Poll
  BY <1>4, PollStep
<1>5. ASSUME NEW c \in Conn, NetLoop(c)  PROVE SInv'
  BY <1>5, DialStep, DialFailsStep, CommandStep, HangUpStep DEF NetLoop
<1>6. ASSUME NEW c \in Conn, Reader(c)  PROVE SInv'
  BY <1>6, ReadStep, ReadEndStep DEF Reader
<1>7. ASSUME NEW c \in Conn, Frames(c) \/ Deadline(c)  PROVE SInv'
  BY <1>7, HelloStep, LogInStep, DeadlineStep DEF Frames
<1>8. ASSUME NEW c \in Conn, Announcing(c)  PROVE SInv'
  BY <1>8, LeaveStep, BroadcastStep, TellStep DEF Announcing
<1> QED  BY <1>1, <1>2, <1>3, <1>4, <1>5, <1>6, <1>7, <1>8, GuestReadsStep DEF SNext, System, Machines

LEMMA SInvShows ==
  SInv => ShownIsServed
<1> SUFFICES ASSUME SInv, authed  PROVE cur \in member \/ EndIsComing
  BY DEF ShownIsServed
<1>1. /\ cur \in Conn /\ rd[cur] \in {"none", "read", "over"}
      /\ ev[cur] \in Seq(Event)
      /\ Born(cur) /\ LoggedOK(cur) /\ EndTold(cur)
  BY DEF SInv, SessionOK, ConnOK, Event
<1>2. cur \in member \/ srv[cur] \in {"bye", "byeing", "gone"}
  BY <1>1 DEF LoggedOK
<1>3. CASE rd[cur] = "read"
  BY <1>2, <1>3 DEF EndIsComing
<1>4. CASE rd[cur] = "over"
  <2>1. ev[cur] # <<>> /\ ev[cur][Len(ev[cur])] = "gone"
    BY <1>1, <1>4 DEF EndTold
  <2>2. Len(ev[cur]) \in DOMAIN ev[cur]
    BY <1>1, <2>1
  <2> QED  BY <2>1, <2>2 DEF EndIsComing
<1> QED  BY <1>1, <1>3, <1>4 DEF Born

LEMMA SpecSInv ==
  SSpec => []SInv
<1> QED  BY InitSInv, StepSInv, PTL DEF SSpec

\* The types of the program and of the server hold in every behaviour, and
\* clientsMutex is held by one handler at most, by the one that broadcasts.
THEOREM SessionIsOK ==
  SSpec => []SessionOK
<1>1. SInv => SessionOK
  BY DEF SInv
<1> QED  BY <1>1, SpecSInv, PTL

\* While poll_events has its user logged in, the server has the connection
\* logged in or the reader's word of its end is on the way, for any number of
\* attempts, made in any order and given up at any moment.
THEOREM ShownLoginIsServed ==
  SSpec => []ShownIsServed
<1> QED  BY SpecSInv, SInvShows, PTL

=============================================================================
