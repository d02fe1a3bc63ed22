----------------------------- MODULE QuickLogin -----------------------------
(***************************************************************************)
(* The saved accounts of the GUI (rust_gui/src/main.rs): accounts.json in  *)
(* the user's configuration, the list of the login screen read from it,    *)
(* the fields of that screen, and the login under way.                     *)
(*                                                                         *)
(* Fields may be edited, and the box ticked, while a login is under way,   *)
(* until its Authed event is polled; what is saved then is in the fields.  *)
(* Accounts are registered, renamed and given other passwords, here and    *)
(* elsewhere, and /login may be typed as a command, which brings another   *)
(* Authed.  The list is told apart by user and server.  The file is        *)
(* truncated before it is written, and the program may be killed in        *)
(* between; a file that does not parse is an empty list.                   *)
(***************************************************************************)
EXTENDS Naturals, Sequences, FiniteSets, SequencesExt

CONSTANTS User, Server, Pass,
          NoPass,     \* the empty field, and the password of no account
          MaxSaved    \* how many are kept: ten

ASSUME NoPassAssumption == NoPass \notin Pass
ASSUME MaxSavedAssumption == MaxSaved \in Nat \ {0}

VARIABLES saved,      \* MeshApp.saved_accounts
          stored,     \* accounts.json
          server, pass, \* the fields
          remember,   \* MeshApp.remember_me
          armed,      \* the line whose cross was clicked once, or 0
          screen,     \* MeshApp.screen
          login,      \* the attempt under way: none, login, register, accepted
          me, at, sent,       \* its user, server and password
          real,       \* each account's password on the server
          stale,      \* history: the fields, or the account, are no longer
                      \* what they were when the attempt under way was made
          spoilt      \* history: accounts saved from a stale attempt, or
                      \* changed on the server since

fields == <<server, pass, remember>>
way == <<screen, login, me, at, sent>>
hist == <<stale, spoilt>>
qvars == <<saved, stored, fields, armed, way, real, hist>>

Entry == [user : User, server : Server, pass : Pass]
Of(e) == <<e.user, e.server>>

SavedOf(s) == {Of(s[i]) : i \in DOMAIN s}

Kept(s) == SubSeq(s, 1, IF Len(s) > MaxSaved THEN MaxSaved ELSE Len(s))

\* retain: the accounts of s but a's, in their order.
Without(s, a) ==
  LET rest == {i \in DOMAIN s : Of(s[i]) # a}
  IN  [k \in 1 .. Cardinality(rest) |->
         s[CHOOSE i \in rest : Cardinality({j \in rest : j < i}) = k - 1]]

\* Fault: an account is saved beside the one of its user and server.
SavedBeside(s, e) == Kept(<<e>> \o s)

\* save_account: first, instead of the one of its user and server.
SavedWith(s, e) == Kept(<<e>> \o Without(s, Of(e)))

-----------------------------------------------------------------------------

\* The user edits a field or ticks the box.
Edit ==
  /\ screen = "connect"
  /\ \/ remember' = ~remember /\ UNCHANGED <<server, pass, stale>>
     \/ server' \in Server /\ stale' = (login # "none") /\ UNCHANGED <<pass, remember>>
     \/ pass' \in Pass \cup {NoPass} /\ stale' = (login # "none") /\ UNCHANGED <<server, remember>>
  /\ UNCHANGED <<saved, stored, armed, way, real, spoilt>>

\* start_connect, whatever was under way before.
Connect(u, v, p, mode) ==
  /\ screen = "connect"
  /\ login' = mode
  /\ me' = u
  /\ at' = v
  /\ sent' = p
  /\ stale' = FALSE

\* draw_auth_button, for the user typed above it.
PressButton(u) ==
  /\ pass # NoPass
  /\ \E mode \in {"login", "register"} : Connect(u, server, pass, mode)
  /\ UNCHANGED <<saved, stored, fields, armed, screen, real, spoilt>>

\* A line of the list: its account fills the fields.
ClickSaved(i) ==
  /\ Connect(saved[i].user, saved[i].server, saved[i].pass, "login")
  /\ server' = saved[i].server
  /\ pass' = saved[i].pass
  /\ UNCHANGED <<saved, stored, remember, armed, screen, real, spoilt>>

\* Its cross: the first click arms it, the second removes the account.
ClickCross(i) ==
  /\ screen = "connect"
  /\ IF armed = i THEN /\ armed' = 0
                       /\ saved' = RemoveAt(saved, i)
                       /\ stored' = saved'
                  ELSE armed' = i /\ UNCHANGED <<saved, stored>>
  /\ spoilt' = spoilt \cap SavedOf(saved')
  /\ UNCHANGED <<fields, way, real, stale>>

\* No attempt is under way.
NoAttempt == login' = "none" /\ sent' = NoPass /\ stale' = FALSE

\* The server lets the user in, or registers it.
Accept ==
  /\ \/ login = "login" /\ sent = real[<<me, at>>] /\ UNCHANGED real
     \/ /\ login = "register"
        /\ real[<<me, at>>] = NoPass
        /\ real' = [real EXCEPT ![<<me, at>>] = sent]
  /\ login' = "accepted"
  /\ sent' = NoPass
  /\ UNCHANGED <<saved, stored, fields, armed, screen, me, at, hist>>

\* A wrong password, a name in use, or no connection.
Refuse ==
  /\ login \in {"login", "register"}
  /\ NoAttempt
  /\ UNCHANGED <<saved, stored, fields, armed, screen, me, at, real, spoilt>>

\* poll_events, Authed: the user of the attempt is saved with what the fields
\* hold now, if the box is ticked, else it is no longer saved.
Save ==
  /\ screen' = "chat"
  /\ NoAttempt
  /\ pass' = NoPass
  /\ stored' = IF remember /\ pass # NoPass
               THEN SavedWith(stored, [user |-> me, server |-> server, pass |-> pass])
               ELSE Without(stored, <<me, server>>)
  /\ saved' = stored'
  /\ spoilt' = SavedOf(saved') \cap
               (IF stale THEN spoilt \cup {<<me, server>>} ELSE spoilt \ {<<me, server>>})
  /\ UNCHANGED <<server, remember, armed, me, at, real>>

\* Fault: the account is saved with the attempt, before its answer.
SaveUnanswered == login # "none" /\ Save

PollAuthed == login = "accepted" /\ Save

\* /login typed in a chat: the account logs in once more.
LoginAgain ==
  /\ screen = "chat"
  /\ login = "none"
  /\ login' = "accepted"
  /\ UNCHANGED <<saved, stored, fields, armed, screen, me, at, sent, real, hist>>

Changed(a) == /\ spoilt' = SavedOf(saved) \cap (spoilt \cup a)
              /\ stale' = (login # "none" /\ (stale \/ <<me, at>> \in a))

\* /setpassword, here or elsewhere.
SetPassword(u, v, p) ==
  /\ real[<<u, v>>] \notin {NoPass, p}
  /\ real' = [real EXCEPT ![<<u, v>>] = p]
  /\ Changed({<<u, v>>})
  /\ UNCHANGED <<saved, stored, fields, armed, way>>

\* /setusername, here or elsewhere: the account has another name, and here the
\* GUI goes on under it.
SetUsername(u, n, v) ==
  /\ real[<<u, v>>] # NoPass
  /\ real[<<n, v>>] = NoPass
  /\ real' = [real EXCEPT ![<<n, v>>] = real[<<u, v>>], ![<<u, v>>] = NoPass]
  /\ Changed({<<u, v>>, <<n, v>>})
  /\ me' \in {me, IF screen = "chat" /\ <<u, v>> = <<me, at>> THEN n ELSE me}
  /\ UNCHANGED <<saved, stored, fields, armed, screen, login, at, sent>>

Logout ==
  /\ screen = "chat"
  /\ screen' = "connect"
  /\ NoAttempt
  /\ pass' = NoPass
  /\ UNCHANGED <<saved, stored, server, remember, armed, me, at, real, spoilt>>

\* The program ends, or is killed, and starts again; killed while it wrote
\* the file, it finds no account.
Reopen ==
  /\ stored' \in {stored, <<>>}
  /\ saved' = stored'
  /\ server' \in Server
  /\ pass' = NoPass
  /\ remember' = FALSE
  /\ armed' = 0
  /\ screen' = "connect"
  /\ NoAttempt
  /\ spoilt' = spoilt \cap SavedOf(saved')
  /\ UNCHANGED <<me, at, real>>

-----------------------------------------------------------------------------

QInit ==
  /\ saved = <<>>
  /\ stored = <<>>
  /\ server \in Server
  /\ pass = NoPass
  /\ remember = FALSE
  /\ armed = 0
  /\ screen = "connect"
  /\ login = "none"
  /\ me \in User
  /\ at = server
  /\ sent = NoPass
  /\ real = [a \in User \X Server |-> NoPass]
  /\ stale = FALSE
  /\ spoilt = {}

List(i) == ClickSaved(i) \/ ClickCross(i)

QNext == \/ Edit \/ Accept \/ Refuse \/ PollAuthed \/ LoginAgain \/ Logout \/ Reopen
         \/ \E i \in DOMAIN saved : List(i)
         \/ \E u \in User : PressButton(u)
         \/ \E u \in User, v \in Server, p \in Pass : SetPassword(u, v, p)
         \/ \E u, n \in User, v \in Server : SetUsername(u, n, v)

QSpec == QInit /\ [][QNext]_qvars

-----------------------------------------------------------------------------

\* Types; the list on the screen is the one in the file, and holds no account
\* twice.
QuickOK ==
  /\ saved \in Seq(Entry) /\ Len(saved) <= MaxSaved
  /\ stored = saved
  /\ \A i, j \in DOMAIN saved : Of(saved[i]) = Of(saved[j]) => i = j
  /\ server \in Server /\ pass \in Pass \cup {NoPass}
  /\ remember \in BOOLEAN /\ armed \in Nat
  /\ screen \in {"connect", "chat"}
  /\ login \in {"none", "login", "register", "accepted"}
  /\ me \in User /\ at \in Server /\ sent \in Pass \cup {NoPass}
  /\ real \in [User \X Server -> Pass \cup {NoPass}]
  /\ stale \in BOOLEAN /\ spoilt \subseteq User \X Server

\* A click on a saved account logs in: its password is the account's, unless
\* the account was changed on the server since it was saved, or password or
\* server were edited while the attempt it was saved from was under way.
SavedOpens ==
  \A i \in DOMAIN saved : Of(saved[i]) \in spoilt \/ real[Of(saved[i])] = saved[i].pass

=============================================================================
