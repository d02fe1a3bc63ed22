------------------------------ MODULE Delivery ------------------------------
(***************************************************************************)
(* What becomes of a text: from the GUI's network thread                   *)
(* (rust_gui/src/net.rs) through the handler of its connection             *)
(* (server_v2/main.go) to the readers of the others.                       *)
(*                                                                         *)
(* The sender asks the server for the members of its room, or for the key  *)
(* of a name it has no key of, and writes one frame for each recipient,    *)
(* encrypted for the key and addressed to the name; the server relays a    *)
(* frame to the client that has the name then.  In between the others      *)
(* leave and enter, rename themselves, go offline and come back, and the   *)
(* sender renames itself.  Files and reactions take the same way.          *)
(*                                                                         *)
(* The sender stays in its room and connected.  Its network thread has the *)
(* name of the login for good: it is what frames carry, and its key there  *)
(* is what the others read them with, and what is left out when the        *)
(* members are written to.  After a rename it is anybody's.  A person's    *)
(* key is the person.                                                      *)
(***************************************************************************)
EXTENDS Naturals, Sequences, FiniteSets, SequencesExt

CONSTANTS Person,     \* the others
          Name,       \* the @usernames
          Me,         \* the one the sender has logged in with
          First,      \* the ones the others have logged in with
          Starts,     \* what they and the sender may be called by now
          ToRoom,     \* the kind of a text to the room; others go to a name
          Nobody,     \* no key
          Garbage,    \* a key of none of the others: the sender's, or what is no key
          Texts,      \* bound on the number of texts
          Changes     \* bound on what people do beside typing

Text == 1 .. Texts
Key == Person \cup {Nobody, Garbage}

ASSUME PersonAssumption == IsFiniteSet(Person)
ASSUME FirstAssumption == /\ Me \in Name /\ First \in [Person -> Name \ {Me}]
                          /\ \A p, q \in Person : First[p] = First[q] => p = q
ASSUME StartAssumption ==
  \A s \in Starts : /\ s[1] \in [Person -> Name] /\ s[2] \in Name
                    /\ \A p, q \in Person : s[1][p] = s[1][q] => p = q
                    /\ \A p \in Person : s[1][p] # s[2]
ASSUME KindAssumption == ToRoom \notin Name
ASSUME KeyAssumption == Nobody # Garbage /\ {Nobody, Garbage} \cap Person = {}
ASSUME BoundAssumption == Texts \in Nat /\ Changes \in Nat

VARIABLES name,     \* the others' names
          on,       \* who of them is connected, and in
          in,       \* ... the sender's room
          knows,    \* who has the sender's key under the name of the frames
          news,     \* who has yet to hear of another key under that name
          mine,     \* the sender's name
          kind,     \* what the texts typed so far are: ToRoom, or a name
          cmds,     \* the texts the network thread has still to take
          net,      \* the network thread
          slot,     \* NetState.pending: none, live, or dead after a timeout
          known,    \* NetState.known
          up,       \* frames from the sender to its handler
          down,     \* frames from the server to the sender
          sock,     \* frames relayed to each of the others
          shown,    \* the texts each of the others has on the screen
          told,     \* the texts whose outcome the sender has been told
          changes,  \* how much people have done
          stay,     \* history: for each text, whom it is for ever since, by one
                    \* name and with the sender's key
          might,    \* history: ... and whom it was for at some time since
          failed,   \* history: the texts refused, not saved, or whose request timed out
          crossed   \* history: a request was made with an answer still to come,
                    \* or was given the ERR of another command

others == <<name, on, in, knows, news, mine, changes>>
sender == <<kind, cmds, net, slot, known, told, failed, crossed>>
wires == <<up, down>>
ends == <<sock, shown>>
history == <<stay, might>>
dvars == <<others, sender, wires, ends, history>>

Idle == [at |-> "idle"]
Asking(t) == [at |-> "ask", text |-> t]
Got(t, r) == [at |-> "got", text |-> t, resp |-> r]

\* Frames of the sender.
AskMembers == [type |-> "members"]
AskKey(n) == [type |-> "pubkey", of |-> n]
AskProfile(n) == [type |-> "whois", of |-> n]
M(t, n, k) == [type |-> "text", text |-> t, to |-> n, key |-> k]

\* Frames to the sender: an answer, a list or a key, ERR for a profile, which
\* looks like one, or a key announced.
List(S) == [type |-> "resp", list |-> S, key |-> Garbage]
KeyOf(k) == [type |-> "resp", list |-> {}, key |-> k]
Err == [type |-> "err", list |-> {}, key |-> Nobody]
New(n, p) == [type |-> "new", name |-> n, key |-> p]

\* Whom a text is for at the moment.
For(t) == {p \in on : IF kind[t] = ToRoom THEN p \in in ELSE name[p] = kind[t]}

Change == /\ changes < Changes
          /\ changes' = changes + 1

-----------------------------------------------------------------------------
(* The sender: its GUI, network thread and reader thread *)

Type(k) ==
  /\ Len(kind) < Texts
  /\ kind' = Append(kind, k)
  /\ cmds' = Append(cmds, Len(kind) + 1)
  /\ UNCHANGED <<others, net, slot, known, told, failed, crossed, wires, ends>>

\* request: the slot is taken, whoever may still be answered.
Request(t, f) ==
  /\ net' = Asking(t)
  /\ slot' = "live"
  /\ crossed' = (crossed \/ slot = "dead")
  /\ up' = Append(up, f)

\* The next command: a text for the room needs the list of its members, one
\* for a name the key of the name, unless it is known.
Take ==
  /\ net = Idle
  /\ cmds # <<>>
  /\ cmds' = Tail(cmds)
  /\ LET t == Head(cmds)
         n == kind[t]
     IN IF n = ToRoom THEN Request(t, AskMembers) /\ UNCHANGED told
        ELSE IF known[n] = Nobody THEN Request(t, AskKey(n)) /\ UNCHANGED told
        ELSE /\ up' = IF known[n] = Garbage THEN up ELSE Append(up, M(t, n, known[n]))
             /\ told' = told \cup {t}
             /\ UNCHANGED <<net, slot, crossed>>
  /\ UNCHANGED <<others, kind, known, failed, down, ends>>

\* A file that cannot be read, or is too large, is not sent.
Refuse ==
  /\ net = Idle
  /\ cmds # <<>>
  /\ cmds' = Tail(cmds)
  /\ told' = told \cup {Head(cmds)}
  /\ failed' = failed \cup {Head(cmds)}
  /\ UNCHANGED <<others, kind, net, slot, known, crossed, wires, ends>>

\* No answer for three seconds.
TimeOut ==
  /\ net.at = "ask"
  /\ slot' = "dead"
  /\ net' = Idle
  /\ told' = told \cup {net.text}
  /\ failed' = failed \cup {net.text}
  /\ UNCHANGED <<others, kind, cmds, known, crossed, wires, ends>>

\* A profile is opened: the GUI asks for it, and waits for nothing.
Whois(n) ==
  /\ Change
  /\ net = Idle
  /\ up' = Append(up, AskProfile(n))
  /\ UNCHANGED <<name, on, in, knows, news, mine, sender, down, ends>>

\* Who of a list is written to: not the one of the name the sender logged in
\* with.  A frame for the sender's own key nobody can read; it is left out.
Targets(list) == {e \in list : e[1] # Me /\ e[2] \in Person}

\* Fault: a name keeps the key it was first seen with.
FramesCached(t, list) ==
  LET s == SetToSeq(Targets(list))
  IN [i \in DOMAIN s |-> M(t, s[i][1], IF known[s[i][1]] \in Person THEN known[s[i][1]]
                                                                   ELSE s[i][2])]

\* One frame for each of them.
Frames(t, list) == LET s == SetToSeq(Targets(list))
                   IN [i \in DOMAIN s |-> M(t, s[i][1], s[i][2])]

\* The keys of a list are known from now on.
Learnt(list) == [n \in Name |-> IF \E e \in list : e[1] = n
                                  THEN (CHOOSE e \in list : e[1] = n)[2]
                                  ELSE known[n]]

\* Fault: a text for an empty room is passed over in silence.
SendToRoomQuietly ==
  /\ net.at = "got"
  /\ kind[net.text] = ToRoom
  /\ known' = Learnt(net.resp.list)
  /\ up' = up \o Frames(net.text, net.resp.list)
  /\ told' = IF Targets(net.resp.list) = {} THEN told ELSE told \cup {net.text}
  /\ net' = Idle
  /\ UNCHANGED <<others, kind, cmds, slot, failed, crossed, down, ends>>

\* room_targets: the list is read, and a frame written for each on it.
SendToRoom ==
  /\ net.at = "got"
  /\ kind[net.text] = ToRoom
  /\ known' = Learnt(net.resp.list)
  /\ up' = up \o Frames(net.text, net.resp.list)
  /\ told' = told \cup {net.text}
  /\ net' = Idle
  /\ UNCHANGED <<others, kind, cmds, slot, failed, crossed, down, ends>>

\* recipient_pub: the answer is a key, whatever it is, if it is not ERR.
SendToName ==
  /\ net.at = "got"
  /\ kind[net.text] # ToRoom
  /\ LET n == kind[net.text]
         k == net.resp.key
     IN /\ known' = IF k = Nobody THEN known ELSE [known EXCEPT ![n] = k]
        /\ up' = IF k \in Person THEN Append(up, M(net.text, n, k)) ELSE up
  /\ told' = told \cup {net.text}
  /\ net' = Idle
  /\ UNCHANGED <<others, kind, cmds, slot, failed, crossed, down, ends>>

\* Fault: the slot is not emptied.
HearAgain ==
  /\ down # <<>>
  /\ down' = Tail(down)
  /\ LET f == Head(down)
     IN IF f.type = "new"
          THEN known' = [known EXCEPT ![f.name] = f.key] /\ UNCHANGED net
          ELSE /\ net' = IF slot = "live" THEN Got(net.text, f) ELSE net
               /\ UNCHANGED known
  /\ UNCHANGED <<others, kind, cmds, slot, told, failed, crossed, up, ends>>

\* reader_loop: an answer, to whatever it is one, goes to who waits, or is
\* dropped with the slot of who no longer does; an announced key is known from
\* now on.
Hear ==
  /\ down # <<>>
  /\ down' = Tail(down)
  /\ LET f == Head(down)
     IN IF f.type = "new"
          THEN known' = [known EXCEPT ![f.name] = f.key] /\ UNCHANGED <<net, slot, crossed>>
          ELSE /\ net' = IF slot = "live" THEN Got(net.text, f) ELSE net
               /\ slot' = "none"
               /\ crossed' = (crossed \/ (f.type = "err" /\ slot # "none"))
               /\ UNCHANGED known
  /\ UNCHANGED <<others, kind, cmds, told, failed, up, ends>>

-----------------------------------------------------------------------------
(* The handler of the sender's connection, one frame at a time *)

\* Fault: the list is not of the room.
EveryMember == {<<name[p], p>> : p \in on} \cup {<<mine, Garbage>>}

\* /roommembers: who is in the room now, by name, with keys, the sender too.
Members == {<<name[p], p>> : p \in on \cap in} \cup {<<mine, Garbage>>}

AnswerMembers ==
  /\ up # <<>>
  /\ Head(up).type = "members"
  /\ up' = Tail(up)
  /\ down' = Append(down, List(Members))
  /\ UNCHANGED <<others, sender, ends>>

\* /pubkey: the key of who is connected under the name, or ERR.
AnswerKey ==
  /\ up # <<>>
  /\ Head(up).type = "pubkey"
  /\ up' = Tail(up)
  /\ \/ \E p \in on : name[p] = Head(up).of /\ down' = Append(down, KeyOf(p))
     \/ mine = Head(up).of /\ down' = Append(down, KeyOf(Garbage))
     \/ /\ mine # Head(up).of /\ \A p \in on : name[p] # Head(up).of
        /\ down' = Append(down, KeyOf(Nobody))
  /\ UNCHANGED <<others, sender, ends>>

\* /whois: a profile, connected or not, or ERR.
AnswerProfile ==
  /\ up # <<>>
  /\ Head(up).type = "whois"
  /\ up' = Tail(up)
  /\ down' = IF mine # Head(up).of /\ \A p \in Person : name[p] # Head(up).of
               THEN Append(down, Err) ELSE down
  /\ UNCHANGED <<others, sender, ends>>

\* Fault: a goroutine for each frame, so that one may overtake another.
RelayFirst ==
  /\ up # <<>>
  /\ Head(up).type = "text"
  /\ up' = Tail(up)
  /\ sock' = [p \in Person |-> IF p \in on /\ name[p] = Head(up).to
                                 THEN <<Head(up)>> \o sock[p] ELSE sock[p]]
  /\ UNCHANGED <<others, sender, down, shown>>

\* sendToUsername: to the client that has the name now, if there is one.
Relay ==
  /\ up # <<>>
  /\ Head(up).type = "text"
  /\ up' = Tail(up)
  /\ sock' = [p \in Person |-> IF p \in on /\ name[p] = Head(up).to
                                 THEN Append(sock[p], Head(up)) ELSE sock[p]]
  /\ UNCHANGED <<others, sender, down, shown>>

-----------------------------------------------------------------------------
(* The others *)

\* insert_keys: the key of another, announced under the name of the frames.
HearNews(p) ==
  /\ p \in news
  /\ knows' = knows \ {p}
  /\ news' = news \ {p}
  /\ UNCHANGED <<name, on, in, mine, changes, sender, wires, ends>>

\* handle_message: a text is shown if the sender's key is known and the text
\* can be decrypted.
Read(p) ==
  /\ sock[p] # <<>>
  /\ sock' = [sock EXCEPT ![p] = Tail(@)]
  /\ shown' = IF p \in knows /\ Head(sock[p]).key = p
                THEN [shown EXCEPT ![p] = Append(@, Head(sock[p]).text)] ELSE shown
  /\ UNCHANGED <<others, sender, wires>>

\* handle_file: a file that cannot be saved is not shown.
SaveFails(p) ==
  /\ sock[p] # <<>>
  /\ sock' = [sock EXCEPT ![p] = Tail(@)]
  /\ failed' = failed \cup {Head(sock[p]).text}
  /\ UNCHANGED <<others, kind, cmds, net, slot, known, told, crossed, wires, shown>>

\* /join of another room, and of this one.
LeaveRoom(p) ==
  /\ Change
  /\ p \in on \cap in
  /\ in' = in \ {p}
  /\ UNCHANGED <<name, on, knows, news, mine, sender, wires, ends>>

EnterRoom(p) ==
  /\ Change
  /\ p \in on \ in
  /\ in' = in \cup {p}
  /\ UNCHANGED <<name, on, knows, news, mine, sender, wires, ends>>

\* Nobody has the name, connected or not.
Free(n) == n # mine /\ \A q \in Person : name[q] # n

\* /setusername: nobody's key is announced.
Rename(p, n) ==
  /\ Change
  /\ p \in on
  /\ Free(n)
  /\ name' = [name EXCEPT ![p] = n]
  /\ UNCHANGED <<on, in, knows, news, mine, sender, wires, ends>>

SenderRenames(n) ==
  /\ Change
  /\ Free(n)
  /\ mine' = n
  /\ UNCHANGED <<name, on, in, knows, news, sender, wires, ends>>

\* room_targets and recipient_pub of another: who has the name of the frames
\* in its room, or anywhere, has the key it knows under the name.
AskForMe(p) ==
  /\ Change
  /\ p \in on
  /\ \/ mine = Me /\ knows' = knows \cup {p}
     \/ /\ \E q \in on : name[q] = Me /\ (q \in in <=> p \in in)
        /\ knows' = knows \ {p}
  /\ news' = news \ {p}
  /\ UNCHANGED <<name, on, in, mine, sender, wires, ends>>

\* The connection ends; what was on its way is lost.
GoOff(p) ==
  /\ Change
  /\ p \in on
  /\ on' = on \ {p}
  /\ in' = in \ {p}
  /\ news' = news \ {p}
  /\ sock' = [sock EXCEPT ![p] = <<>>]
  /\ UNCHANGED <<name, knows, mine, sender, wires, shown>>

\* The next connection begins in the common room, the sender's; the key is
\* announced, and the sender's is in the table, under its present name.
ComeBack(p) ==
  /\ Change
  /\ p \notin on
  /\ on' = on \cup {p}
  /\ in' = in \cup {p}
  /\ knows' = IF mine = Me THEN knows \cup {p} ELSE knows \ {p}
  /\ news' = IF name[p] = Me THEN on ELSE news
  /\ down' = Append(down, New(name[p], p))
  /\ UNCHANGED <<name, mine, sender, up, ends>>

-----------------------------------------------------------------------------

\* All logged in by the names of First and Me, and what renames there have
\* been since were not announced.
DInit == /\ \E s \in Starts : name = s[1] /\ mine = s[2]
         /\ on = Person
         /\ in = Person
         /\ knows = Person
         /\ news = {}
         /\ kind = <<>>
         /\ cmds = <<>>
         /\ net = Idle
         /\ slot = "none"
         /\ known = [n \in Name |-> IF n = Me THEN Garbage
                                     ELSE IF \E p \in Person : First[p] = n
                                      THEN CHOOSE p \in Person : First[p] = n ELSE Nobody]
         /\ up = <<>>
         /\ down = <<>>
         /\ sock = [p \in Person |-> <<>>]
         /\ shown = [p \in Person |-> <<>>]
         /\ told = {}
         /\ changes = 0
         /\ stay = <<>>
         /\ might = <<>>
         /\ failed = {}
         /\ crossed = FALSE

Network == Take \/ Refuse \/ TimeOut \/ SendToRoom \/ SendToName \/ Hear
Handler == AnswerMembers \/ AnswerKey \/ AnswerProfile \/ Relay
Reader == \E p \in Person : Read(p) \/ SaveFails(p) \/ HearNews(p)

People == \/ \E k \in Name \cup {ToRoom} : Type(k)
          \/ \E n \in Name : Whois(n) \/ SenderRenames(n)
          \/ \E p \in Person : \/ LeaveRoom(p) \/ EnterRoom(p) \/ GoOff(p) \/ ComeBack(p)
                               \/ AskForMe(p) \/ \E n \in Name : Rename(p, n)

\* Whom the texts are for is kept up with every step.
Record == /\ stay' = [t \in DOMAIN kind' |->
                         IF t \in DOMAIN kind
                           THEN {p \in stay[t] \cap For(t)' \cap knows' : name'[p] = name[p]}
                           ELSE For(t)' \cap knows']
          /\ might' = [t \in DOMAIN kind' |-> IF t \in DOMAIN kind THEN might[t] \cup For(t)'
                                                                   ELSE For(t)']

Machines == (Network \/ Handler \/ Reader) /\ Record

DNext == Machines \/ (People /\ Record)

\* Threads run and connections deliver; nobody has to type or move.
DSpec == DInit /\ [][DNext]_dvars /\ WF_dvars(Machines)

-----------------------------------------------------------------------------

Frame == {AskMembers} \cup {AskKey(n) : n \in Name} \cup {AskProfile(n) : n \in Name}
           \cup {M(t, n, k) : t \in Text, n \in Name, k \in Person}

\* Types; no two have one name; a thread that waits has the slot, unless its
\* answer is there.
DeliveryOK ==
  /\ name \in [Person -> Name] /\ \A p, q \in Person : name[p] = name[q] => p = q
  /\ mine \in Name /\ \A p \in Person : name[p] # mine
  /\ on \subseteq Person /\ in \subseteq on /\ knows \subseteq Person /\ news \subseteq on
  /\ crossed \in BOOLEAN
  /\ kind \in Seq(Name \cup {ToRoom}) /\ Len(kind) <= Texts
  /\ cmds \in Seq(DOMAIN kind)
  /\ net = Idle \/ (net.at \in {"ask", "got"} /\ net.text \in DOMAIN kind)
  /\ slot \in {"none", "live", "dead"}
  /\ slot = "live" <=> net.at = "ask"
  /\ known \in [Name -> Key]
  /\ up \in Seq(Frame)
  /\ \A i \in DOMAIN down : down[i].type \in {"resp", "err", "new"}
  /\ sock \in [Person -> Seq({f \in Frame : f.type = "text"})]
  /\ shown \in [Person -> Seq(DOMAIN kind)]
  /\ told \subseteq DOMAIN kind /\ failed \subseteq DOMAIN kind
  /\ changes \in 0 .. Changes
  /\ stay \in Seq(SUBSET Person) /\ Len(stay) = Len(kind)
  /\ might \in Seq(SUBSET Person) /\ Len(might) = Len(kind)

\* A text is read only by people it was for at some time since it was typed:
\* members of the room, or whoever had the name; unless an answer was taken
\* for that of another request or command.
ReadByRecipients ==
  ~crossed => \A p \in Person : \A i \in DOMAIN shown[p] : p \in might[shown[p][i]]

\* Everybody sees the texts in the order they were typed, and none twice.
InOrder == \A p \in Person : \A i, j \in DOMAIN shown[p] : i < j => shown[p][i] < shown[p][j]

\* Nothing of text t is under way any more.
Done(t) == /\ t \in told
           /\ \A i \in DOMAIN up : up[i].type = "text" => up[i].text # t
           /\ \A p \in Person : \A i \in DOMAIN sock[p] : sock[p][i].text # t

\* A member who stays, under one name and with the sender's key under the name
\* its frames carry, reads every text for the room, unless it is a file refused
\* or not saved, or its request or another one failed.  One who has taken that
\* name, given up by the sender, is passed over (room_targets).
MembersRead ==
  \A t \in DOMAIN kind : kind[t] = ToRoom /\ Done(t) /\ t \notin failed /\ ~crossed =>
    \A p \in stay[t] : name[p] # Me => \E i \in DOMAIN shown[p] : shown[p][i] = t

\* Whatever the user typed, the outcome is told.
TextIsTold == \A t \in Text : t \in DOMAIN kind ~> t \in told

=============================================================================
