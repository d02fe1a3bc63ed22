--------------------------- MODULE ConsoleClient ---------------------------
(***************************************************************************)
(* The console client (rust_client/src/main.rs): the main thread, which    *)
(* takes a line after another from the prompt, and the reader thread,      *)
(* which takes a frame after another from the server, over three mutexes:  *)
(* the known keys, the fingerprints (TOFU) and the screen.                 *)
(*                                                                         *)
(* What a thread has still to do for its line or frame is a sequence of    *)
(* steps between which the other thread may run: to take a mutex, to free  *)
(* it, or to do something under it.  The process may be killed between any *)
(* two steps, and tofu.json is truncated before it is written.             *)
(*                                                                         *)
(* The server (server.go) shows itself by its frames: answers to requests  *)
(* in their order, announcements of keys, the first of them empty, and     *)
(* texts.  It may say nothing more at any time, which is what the client   *)
(* sees of a lost connection and of a server it has not logged in to.  The *)
(* user's own name, which lists hold too, is left out.  A key and its      *)
(* fingerprint are one; an answer that is no key is Junk when it is stored *)
(* as one.                                                                 *)
(***************************************************************************)
EXTENDS Naturals, Sequences, FiniteSets, SequencesExt

CONSTANTS Peer,     \* the names of the others
          Key,      \* the keys of each of them, in turn
          Empty,    \* the key announced of who has registered none
          Junk,     \* what is no key
          NoKey,    \* no entry
          Torn,     \* tofu.json, truncated
          Lines,    \* bound on the lines typed
          Frames,   \* bound on the frames that answer no request
          Kills     \* bound on the kills

ASSUME PeerAssumption == IsFiniteSet(Peer)
ASSUME KeyAssumption == \A p, q \in Peer : p # q => Key[p] \cap Key[q] = {}
ASSUME NoKeyAssumption ==
  /\ NoKey \notin {Empty, Junk} /\ Empty # Junk
  /\ \A p \in Peer : Key[p] \cap {Empty, Junk, NoKey} = {}
ASSUME TornAssumption == Torn \notin [Peer -> {Empty, Junk, NoKey} \cup UNION {Key[p] : p \in Peer}]
ASSUME BoundAssumption == Lines \in Nat /\ Frames \in Nat /\ Kills \in Nat

VARIABLES todo,     \* the steps each thread has still to do
          owner,    \* who holds each mutex
          known,    \* State.known
          tofu,     \* the fingerprints in memory
          disk,     \* tofu.json: the fingerprints, or Torn
          slot,     \* State.pending: none, live, or dead after a timeout
          wire,     \* requests the server has still to answer
          lines, frames, kills,   \* how many so far
          pinned,   \* history: names with the keys they were first met with
          warned,   \* history: names with the keys reported to be other ones
          used,     \* history: names with the keys something was encrypted for
          torn      \* history: the process was killed within a write

threads == <<todo, owner>>
keys == <<known, tofu, disk>>
conn == <<slot, wire>>
counts == <<lines, frames, kills>>
history == <<pinned, warned, used, torn>>
cvars == <<threads, keys, conn, counts, history>>

Thread == {"main", "reader"}
Mutex == {"known", "tofu", "print"}
Free == "nobody"
None == [p \in Peer |-> NoKey]
Entry == {Empty, Junk} \cup UNION {Key[p] : p \in Peer}

AskKey(n) == [ask |-> "pubkey", of |-> n]
AskMembers == [ask |-> "members"]

\* The steps.
Take(m) == [do |-> "take", mutex |-> m]
Drop(m) == [do |-> "drop", mutex |-> m]
Put(e) == [do |-> "put", name |-> e[1], key |-> e[2]]
Test(e) == [do |-> "test", name |-> e[1], key |-> e[2]]
Pin(n, k) == [do |-> "pin", name |-> n, key |-> k]
Warn(n, k) == [do |-> "warn", name |-> n, key |-> k]
Truncate == [do |-> "truncate"]
Write == [do |-> "write"]
Look(n) == [do |-> "look", name |-> n]
Recall(n) == [do |-> "recall", name |-> n]
Ask(r) == [do |-> "ask", req |-> r]
Await(r) == [do |-> "await", req |-> r]
Send(e) == [do |-> "send", name |-> e[1], key |-> e[2]]

\* The n steps that f makes of each in s, one after the other.
Each(n, f(_), s) == [i \in 1 .. n * Len(s) |-> f(s[(i - 1) \div n + 1])[((i - 1) % n) + 1]]

\* pprint
PPrint == <<Take("print"), Drop("print")>>

\* save_tofu, under the mutex
Save == <<Truncate, Write>>

\* check_tofu
CheckTofu(e) == <<Take("tofu"), Test(e), Drop("tofu")>>

\* A key stored and checked.
PutChecked(e) == <<Put(e)>> \o CheckTofu(e)

\* Fault: the key is there for the other thread before it is checked.
InsertKeysApart(s) ==
  <<Take("known")>> \o Each(1, LAMBDA e : <<Put(e)>>, s) \o <<Drop("known")>>
    \o Each(3, CheckTofu, s)

\* insert_keys, and the list of room_targets: known is held all the while.
InsertKeys(s) ==
  <<Take("known")>> \o Each(4, PutChecked, s) \o <<Drop("known")>>

\* handle_message and handle_file: known is held while the line is printed.
HandleText == <<Take("known")>> \o PPrint \o <<Drop("known")>>

\* send_to with a key, and the end of recipient_pub.
SendTo(n, k) == <<Send(<<n, k>>)>> \o PPrint

\* Fault: the names are listed with the keys known of them.
FingerprintsOfKnown ==
  <<Take("tofu"), Take("known")>> \o PPrint \o <<Drop("known"), Drop("tofu")>>

\* /fingerprints: tofu is held while the lines are printed.
Fingerprints == <<Take("tofu")>> \o PPrint \o <<Drop("tofu")>>

\* Thread t has done its first step, and goes on with s before the others;
\* the main thread has, and does s last.
ThenFirst(t, s) == todo' = [todo EXCEPT ![t] = s \o Tail(@)]
ThenLast(s) == todo' = [todo EXCEPT !["main"] = Tail(@) \o s]
Step(t, what) == todo[t] # <<>> /\ Head(todo[t]).do = what

-----------------------------------------------------------------------------
(* Steps of either thread *)

Acquire(t) ==
  /\ Step(t, "take")
  /\ owner[Head(todo[t]).mutex] = Free
  /\ owner' = [owner EXCEPT ![Head(todo[t]).mutex] = t]
  /\ ThenFirst(t, <<>>)
  /\ UNCHANGED <<keys, conn, counts, history>>

Release(t) ==
  /\ Step(t, "drop")
  /\ owner' = [owner EXCEPT ![Head(todo[t]).mutex] = Free]
  /\ ThenFirst(t, <<>>)
  /\ UNCHANGED <<keys, conn, counts, history>>

StoreKey(t) ==
  /\ Step(t, "put")
  /\ known' = [known EXCEPT ![Head(todo[t]).name] = Head(todo[t]).key]
  /\ ThenFirst(t, <<>>)
  /\ UNCHANGED <<owner, tofu, disk, conn, counts, history>>

\* Fault: the first key of a name is not saved.
CompareUnsaved(t) ==
  /\ Step(t, "test")
  /\ LET n == Head(todo[t]).name
         k == Head(todo[t]).key
     IN \/ /\ tofu[n] = NoKey
           /\ tofu' = [tofu EXCEPT ![n] = k]
           /\ pinned' = pinned \cup {<<n, k>>}
           /\ ThenFirst(t, <<>>)
        \/ /\ tofu[n] = k
           /\ ThenFirst(t, <<>>)
           /\ UNCHANGED <<tofu, pinned>>
        \/ /\ tofu[n] \notin {NoKey, k}
           /\ ThenFirst(t, <<Take("print"), Warn(n, k), Drop("print")>>)
           /\ UNCHANGED <<tofu, pinned>>
  /\ UNCHANGED <<owner, known, disk, conn, counts, warned, used, torn>>

\* The first key of a name is pinned and saved, another one is reported.
Compare(t) ==
  /\ Step(t, "test")
  /\ LET n == Head(todo[t]).name
         k == Head(todo[t]).key
     IN \/ /\ tofu[n] = NoKey
           /\ tofu' = [tofu EXCEPT ![n] = k]
           /\ pinned' = pinned \cup {<<n, k>>}
           /\ ThenFirst(t, Save)
        \/ /\ tofu[n] = k
           /\ ThenFirst(t, <<>>)
           /\ UNCHANGED <<tofu, pinned>>
        \/ /\ tofu[n] \notin {NoKey, k}
           /\ ThenFirst(t, <<Take("print"), Warn(n, k), Drop("print")>>)
           /\ UNCHANGED <<tofu, pinned>>
  /\ UNCHANGED <<owner, known, disk, conn, counts, warned, used, torn>>

Report(t) ==
  /\ Step(t, "warn")
  /\ warned' = warned \cup {<<Head(todo[t]).name, Head(todo[t]).key>>}
  /\ ThenFirst(t, <<>>)
  /\ UNCHANGED <<owner, keys, conn, counts, pinned, used, torn>>

\* write_file_secure
TruncateFile(t) ==
  /\ Step(t, "truncate")
  /\ disk' = Torn
  /\ ThenFirst(t, <<>>)
  /\ UNCHANGED <<owner, known, tofu, conn, counts, history>>

WriteFile(t) ==
  /\ Step(t, "write")
  /\ disk' = tofu
  /\ ThenFirst(t, <<>>)
  /\ UNCHANGED <<owner, known, tofu, conn, counts, history>>

-----------------------------------------------------------------------------
(* The main thread *)

\* recipient_pub: a key that is known is used, another one is asked for.
LookUp ==
  /\ Step("main", "look")
  /\ LET n == Head(todo["main"]).name
     IN ThenLast(IF known[n] = NoKey THEN <<Ask(AskKey(n))>> ELSE SendTo(n, known[n]))
  /\ UNCHANGED <<owner, keys, conn, counts, history>>

\* request
Request ==
  /\ Step("main", "ask")
  /\ LET r == Head(todo["main"]).req
     IN ThenFirst("main", <<Await(r)>>) /\ wire' = Append(wire, r)
  /\ slot' = "live"
  /\ UNCHANGED <<owner, keys, counts, history>>

\* No answer for three seconds, or none to come: for a name an error is
\* printed, for the room what was typed.
TimeOut ==
  /\ Step("main", "await")
  /\ slot' = "dead"
  /\ ThenFirst("main", PPrint)
  /\ UNCHANGED <<owner, keys, wire, counts, history>>

\* A text or a file goes out, if it can be encrypted.
Encrypt ==
  /\ Step("main", "send")
  /\ LET e == <<Head(todo["main"]).name, Head(todo["main"]).key>>
     IN used' = IF e[2] \in {Empty, Junk} THEN used ELSE used \cup {e}
  /\ ThenFirst("main", <<>>)
  /\ UNCHANGED <<owner, keys, conn, counts, pinned, warned, torn>>

\* /trust: the key known is pinned under the mutex, and saved under it again.
RecallKey ==
  /\ Step("main", "recall")
  /\ LET n == Head(todo["main"]).name
         k == known[n]
     IN ThenLast(IF k = NoKey THEN PPrint
             ELSE <<Take("tofu"), Pin(n, k), Drop("tofu"), Take("tofu")>>
                    \o Save \o <<Drop("tofu")>> \o PPrint)
  /\ UNCHANGED <<owner, keys, conn, counts, history>>

Trust ==
  /\ Step("main", "pin")
  /\ tofu' = [tofu EXCEPT ![Head(todo["main"]).name] = Head(todo["main"]).key]
  /\ ThenFirst("main", <<>>)
  /\ UNCHANGED <<owner, known, disk, conn, counts, history>>

\* What the main thread does for a line.
Line(steps) ==
  /\ todo["main"] = <<>>
  /\ lines < Lines
  /\ lines' = lines + 1
  /\ todo' = [todo EXCEPT !["main"] = steps]
  /\ UNCHANGED <<owner, keys, slot, frames, kills, history>>

TypeMsg(n) == Line(<<Take("known"), Look(n), Drop("known")>>) /\ UNCHANGED wire
TypeToRoom == Line(<<Ask(AskMembers)>>) /\ UNCHANGED wire
TypeFileRefused == Line(PPrint) /\ UNCHANGED wire
TypeTrust(n) == Line(<<Take("known"), Recall(n), Drop("known")>>) /\ UNCHANGED wire
TypeFingerprints == Line(Fingerprints) /\ UNCHANGED wire

\* Any other command goes to the server, a request too, with no one to wait.
TypeRaw(r) == Line(<<>>) /\ wire' = Append(wire, r)

-----------------------------------------------------------------------------
(* The reader thread and the server *)

\* The answer r to a request q: a key, or a table of names and keys.  One is
\* no table, the other no key.
AsKey(q, r) == IF q.ask = "pubkey" THEN r ELSE Junk
AsList(q, r) == IF q.ask = "members" THEN r ELSE <<>>

\* How the main thread goes on with it.
GoOn(waits, q, r) ==
  IF waits.ask = "members"
    THEN InsertKeys(AsList(q, r)) \o Each(1, LAMBDA e : <<Send(e)>>, AsList(q, r)) \o PPrint
    ELSE LET e == <<waits.of, AsKey(q, r)>>
         IN IF e[2] = NoKey THEN PPrint
            ELSE <<Take("known"), Put(e), Drop("known")>> \o CheckTofu(e) \o SendTo(e[1], e[2])

\* The tables of names and keys the server may have.
Tables == UNION {{f \in [S -> Entry] : \A p \in S : f[p] \in Key[p]} : S \in SUBSET Peer}
Listed(f) == LET q == SetToSeq(DOMAIN f) IN [i \in DOMAIN q |-> <<q[i], f[q[i]]>>]

Answers(q) == IF q.ask = "members" THEN {Listed(f) : f \in Tables}
                                   ELSE {NoKey} \cup Key[q.of]

\* Fault: the slot is not emptied.
RespondAgain ==
  /\ todo["reader"] = <<>>
  /\ wire # <<>>
  /\ wire' = Tail(wire)
  /\ IF slot = "live"
       THEN \E r \in Answers(Head(wire)) :
              todo' = [todo EXCEPT !["main"] = GoOn(Head(@).req, Head(wire), r)]
       ELSE UNCHANGED todo
  /\ UNCHANGED <<owner, keys, slot, counts, history>>

\* [RESP]: to whoever waits, or nobody.
Respond ==
  /\ todo["reader"] = <<>>
  /\ wire # <<>>
  /\ wire' = Tail(wire)
  /\ slot' = "none"
  /\ IF slot = "live"
       THEN \E r \in Answers(Head(wire)) :
              todo' = [todo EXCEPT !["main"] = GoOn(Head(@).req, Head(wire), r)]
       ELSE UNCHANGED todo
  /\ UNCHANGED <<owner, keys, counts, history>>

\* What the reader does for a frame that answers nothing.
Frame(steps) ==
  /\ todo["reader"] = <<>>
  /\ frames < Frames
  /\ frames' = frames + 1
  /\ todo' = [todo EXCEPT !["reader"] = steps]
  /\ UNCHANGED <<owner, keys, conn, lines, kills, history>>

\* [PUBKEYS] and [NEW]; a login announces a key before there is one.
Announce == \/ \E f \in Tables : Frame(InsertKeys(Listed(f)))
            \/ \E p \in Peer : Frame(InsertKeys(<<<<p, Empty>>>>))

ReadText == Frame(HandleText)
ReadLine == Frame(PPrint)

-----------------------------------------------------------------------------

\* The process is killed, or ends, and is started again; a file that does not
\* parse is no file.
Kill ==
  /\ kills < Kills
  /\ kills' = kills + 1
  /\ todo' = [t \in Thread |-> <<>>]
  /\ owner' = [m \in Mutex |-> Free]
  /\ known' = None
  /\ tofu' = IF disk = Torn THEN None ELSE disk
  /\ torn' = (torn \/ disk = Torn)
  /\ slot' = "none"
  /\ wire' = <<>>
  /\ UNCHANGED <<disk, lines, frames, pinned, warned, used>>

CInit ==
  /\ todo = [t \in Thread |-> <<>>]
  /\ owner = [m \in Mutex |-> Free]
  /\ known = None
  /\ tofu = None
  /\ disk = None
  /\ slot = "none"
  /\ wire = <<>>
  /\ lines = 0
  /\ frames = 0
  /\ kills = 0
  /\ pinned = {}
  /\ warned = {}
  /\ used = {}
  /\ torn = FALSE

OneStep(t) == \/ Acquire(t) \/ Release(t) \/ StoreKey(t) \/ Compare(t) \/ Report(t)
              \/ TruncateFile(t) \/ WriteFile(t)

Main == OneStep("main") \/ LookUp \/ Request \/ TimeOut \/ Encrypt \/ RecallKey \/ Trust

User == \/ \E n \in Peer : TypeMsg(n) \/ TypeTrust(n)
        \/ TypeToRoom \/ TypeFileRefused \/ TypeFingerprints
        \/ \E r \in {AskMembers} \cup {AskKey(n) : n \in Peer} : TypeRaw(r)

Server == Respond \/ Announce \/ ReadText \/ ReadLine

CNext == Main \/ OneStep("reader") \/ User \/ Server \/ Kill

\* The threads run; the user, the server and the system need do nothing.
CSpec == CInit /\ [][CNext]_cvars /\ WF_cvars(Main) /\ WF_cvars(OneStep("reader"))

-----------------------------------------------------------------------------

\* Thread t holds m while it has still to free it.
Holds(t, m) == \E i \in DOMAIN todo[t] : /\ todo[t][i] = Drop(m)
                                         /\ \A j \in 1 .. i - 1 : todo[t][j] # Take(m)

\* Types; a mutex is held by who has to free it; the main thread waits with
\* the slot.
ConsoleOK ==
  /\ owner \in [Mutex -> Thread \cup {Free}]
  /\ \A m \in Mutex, t \in Thread : owner[m] = t <=> Holds(t, m)
  /\ known \in [Peer -> Entry \cup {NoKey}]
  /\ tofu \in [Peer -> Entry \cup {NoKey}]
  /\ disk = Torn \/ disk \in [Peer -> Entry \cup {NoKey}]
  /\ slot \in {"none", "live", "dead"}
  /\ slot = "live" <=> Step("main", "await")
  /\ wire \in Seq({AskKey(n) : n \in Peer} \cup {AskMembers})
  /\ torn \in BOOLEAN
  /\ lines \in 0 .. Lines /\ frames \in 0 .. Frames /\ kills \in 0 .. Kills
  /\ pinned \subseteq Peer \X Entry /\ warned \subseteq Peer \X Entry
  /\ used \subseteq Peer \X Entry

\* Nothing is encrypted for a key that was neither the first one met of the
\* name nor reported to the user before, whichever thread stored it.
WarnedBeforeUse == used \subseteq pinned \cup warned

\* The user never writes to one name under two keys without a warning,
\* across restarts too, unless the process was killed while it wrote tofu.json.
ChangeIsReported ==
  \A e, f \in used : e[1] = f[1] /\ e[2] # f[2] /\ ~torn => \E w \in warned : w[1] = e[1]

\* Every line returns to the prompt: the threads do not wait for each other.
LineEnds == (todo["main"] # <<>>) ~> (todo["main"] = <<>>)

=============================================================================
