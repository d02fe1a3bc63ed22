# Mesh messenger: TLA+ specifications

Specifications of the messenger in this repository, model-checked with TLC, with
proofs, checked by TLAPS, of most of what the runs check: accounts, presence, rooms,
storage, key requests, sessions, the delivery of texts and the list of chats. Line numbers are those of
the sources beside this directory (`src/`).

## 1. The system

Clients talk over TCP to one server. A frame is a type byte, a length and a
payload: `M` text, `F` file, `R` public key, `V` version, `C` command. Commands and
their answers are encrypted with a key all parties share; texts and files are
encrypted for one recipient at a time, so a message to a room is a request for the
room's members and one private frame to each. The server keeps no messages.

| Component | State | Operations | What must be right |
|---|---|---|---|
| **Server v2** (`server_v2/main.go`), one goroutine per connection, one mutex `clientsMutex` | `clients` (username, authed, activated, pubkey, room, loginAttempts), `accounts`, `roomPasswords`, the flood windows | first frame; `/register`, `/login`, `/profile set`, `/setusername`, `/setpassword`; `R`, `M`, `F` frames; `/createroom`, `/join`, `/leave`, `/roommembers`, `/pubkey`, `/users`, `/whois`; exit | a name belongs to one connection; no account is lost or changed by a stranger; clients are told the truth about presence and keys; only who knows a room's password is in it; one client cannot stop the others |
| **Storage** (`server_v2/db.go`, `accounts.json`) | the JSON file, the SQLite table, the map in memory | load, migrate, save, delete | a crash loses no account; the three copies agree |
| **Admin panel** (`admin/main.py`) | its own sessions; reads and rewrites the server's files | login, ban, unban, delete, stats | a ban or a deletion takes effect |
| **GUI client** (`rust_gui`), a GUI thread and, for each attempt to log in, a network thread and a reader thread | GUI: `screen`, `authed`, `current_room`, `active`, `chats`, `users`, the saved accounts; network: the known keys, the pending request, TOFU | clicks and typed text; `net_loop` commands; `reader_loop` frames; `poll_events` | a text goes to the people it was typed for, under their keys, in order; what the screen says of the session, the chats and the accounts is so; threads given up end |
| **Console clients** (`client.py`, `go_client`, `rust_client`), a main and a reader thread | known keys, fingerprints and their file, the pending request, under a mutex each | lines of the prompt; frames of the server | no key is used without the check; the threads do not wait for each other |
| **CLI servers** (`server.go`, `server.py`) | as server v2 with nicks | the same commands, first versions | the same |
| **Dashboard, tools, landing, libmesh** | – | – | no protocol state of their own |

How they interact: a connection's frames are served in order by its goroutine, which
takes the mutex for single sections of a command and writes frames between them; the
frames of different goroutines to one client are ordered by the mutex only within a
broadcast. The GUI's three threads share a command channel, an event channel, the
map of known keys and the one slot of the pending request. The admin panel shares
files with the server and nothing else.

What is hard here: commands of different connections that interleave between two
lock sections (login, rename, exit); announcements computed at one moment and
written at another; a client whose idea of the room lags behind the server's; a
request that times out and is answered late; a crash between two writes; one slow
reader under a global lock. `PROJECT.json` lists each at its line.

## 2. Plan

In order of importance; each module is written so that it can be proved about
(constants with named assumptions, one action per lock section, no recursion).

1. `Directory` (abstract), `MeshAccounts`, `MeshAccountsProofs` – **done**.
2. `MeshPresence`, composed with `Directory`'s actions, `MeshServerProofs` – **done**.
3. `MeshRooms`, server and GUI, also in `MeshServerProofs` – **done**.
4. `AccountStore`: memory, `accounts.json`, SQLite, crashes, restarts and the admin
   panel, `AccountFilesProofs` – **done**. To state: an abstract specification, one
   durable map, that it implements while no file is torn or edited.
5. `KeyRequest`: the pending slot, its timeout, the late answer, the known keys and
   TOFU of the GUI, `KeyRequestProofs` – **done**.
6. `Session`: attempts to log in, their threads and sockets, logout, the reader thread
   that stays, the ten-minute deadline, the global lock with its broadcasts, and the
   liveness of all of these, `SessionProofs` – **done**.
7. `Inbox` (abstract), `ChatList`: the chats of the GUI thread, `ChatListProofs` – **done**.
8. `Delivery`: a text from the line typed to the screens of its readers, with everything
   the others may do meanwhile, `DeliveryProofs` – **done**.
9. `ConsoleClient`: the threads of the Rust console client, `ConsoleClientProofs` – **done**.
10. `QuickLogin`: the saved accounts of the GUI, also in `AccountFilesProofs` – **done**.
11. Left: `FloodWindow`; the CLI servers' variants of login and of the `R` frame; the
    list of users of the GUI (`/users` against presence frames); the Python and Go
    clients, as instances of `ConsoleClient` with their own lock sections.

## 3. Modules

### Directory, MeshAccounts, MeshAccountsProofs

`Directory` says what the server promises about addresses: at most one live session
holds an address, a session is a member only while its address has an account, and an
account moves with the member that renames itself.

`MeshAccounts` is the server's code for it. `accounts` is the map, `uname`, `authed`
and `attempts` the fields of `Client`, `pc[c]` the place of the goroutine between its
lock sections, `login[c]` the local variables of a `/login` in progress. The steps of
the code and the actions:

| Code | Actions |
|---|---|
| first frame, name scan (457–497) | `Connect` |
| `/register` (647–674): lock section, then `authed` | `Register`, `Registered` |
| `/login` (677–723): lookup, upgrade of a legacy hash under a second lock, end | `LoginLookup` or `LoginRejected`, `UpgradeHash`, `LoginFinish` |
| `/profile set`, `/setpassword`, `/setusername`: one lock section each | `SetProfile`, `SetPassword`, `SetUsername` |
| end of the read loop (581–590) | `Disconnect` |

A command that only fails changes nothing and has no action. A password is known by
its identity (hashing is abstracted to equality), and nick, bio and hide_status, which
are always written together, are the one field `hide`. `/login` may name any account,
as in the code; only the connection's own name is let in at the end.

Operators whose comment begins with `Fault` (here and in the other modules) are not
part of the specification: they are the bugs that the properties are tested against.

### MeshPresence

Extends `Directory` and uses its actions as the lock sections of the handlers
(`Claim`, `Release`, `Register`, `Admit`, `Move`); adds what handlers write to clients
between the sections: the key table, `[НОВЫЙ]` and `[ПРИСУТСТВИЕ]`. TCP keeps the order
of the frames of a connection, so what a client believes after reading everything is
the fold of the frames written to it; `ann[v]` and `known[v]` are that fold for the
sessions in `Viewer`. The `activated` flag is always set with the first `authed`, so
membership stands for both. A `/login` of an account of before argon2 (`legacy`), on any
connection, copies its HideStatus in one section (`CopyLegacy`) and writes it back in another
(`UpgradeHash`), and isOnline is read in one section (`IsOnline`) and announced in the next.
`blurred` is a history variable: the names a rename took
or gave up, and those whose farewell overlapped another connection; `PresenceIsExact`
excludes exactly these; section 6 says what happens to them. `restored`, the other one, holds
the members whose hiding such a write-back undid: they may still be shown offline, since
nobody is told.

### MeshRooms

The room commands of the server and one GUI client. `cmds` is the pipe from the GUI
thread through the network thread and the socket to the handler, `events` the pipe
back from the server through the reader to `poll_events`, `asked` the text whose
members have been requested and not yet written to. `current`, `active` and `chats`
are the fields of `MeshApp`. A text carries the room of its chat as its label, as the
fourth field of the frame does. `drifted` is a history variable: the server moved the
client without a confirmation the GUI recognises.

### AccountStore

The three copies of the accounts: `mem` (the map), `file` (`accounts.json`) and `db` (the
table). Every change goes through them in this order under `clientsMutex`, so one
change is under way at a time: `job` says which names, `pc` how far it is. A write of
the file is a truncation and a write; in between, and when the admin panel writes
too, the file does not parse (`Broken`). `Crash` may come between any two of these
steps, `Restart` is `main` with `loadAccounts`, `initDB` and the migration. The panel
(`admin`) reads the file, truncates it and writes its copy, holding no lock that the
server knows.

| Code | Actions |
|---|---|
| `/register`, `/profile set`, `/setpassword`, legacy upgrade: map, then `saveAccounts` | `Change`, `WriteFile` |
| `/setusername` | `Rename`, `WriteFile` |
| `dbSaveAccount`, `dbDeleteAccount` | `SaveRow`, `DropRow` |
| `main` | `Restart` |
| `ban_user`, `unban_user`, `delete_user` | `AdminRead`, `AdminTruncate`, `AdminWrite` |

`confirmed`, `cut`, `edited`, `excused` and `decided` are history variables: what owners
were last told, the names whose change a crash cut short, whether the panel wrote
since the last save or start, whether the server ever started from a torn or edited file,
and which decisions of the administrator stand. Errors of the disk and of SQLite, which
the code ignores, do not occur in the model. `ConfirmedIsKept` excepts a server that has
started from a torn file, since `loadAccounts` takes it for an empty map: the loss of all
accounts by a crash within `os.WriteFile` is what the code allows. `FileFollowsMemory` does
not except it: after such a start too, file and memory agree, both without an account.

### KeyRequest

The GUI's network thread and reader thread, and the server as the environment: it
answers `/pubkey`, `/roommembers` and `/whois` in the order of the requests with anything it
could know at that moment, and announces keys at any time, the empty key (`Blank`) of a
client that is logged in before its `R` frame among them. `wire` holds the requests
without an answer, `slot` is `NetState.pending` (its sender alive, or its receiver
gone after the timeout), `net` the place of the network thread and what it was given,
`known` the key cache, `tofu` the fingerprints in memory and `disk` the file. Checking a
key and storing it are two steps in `recipient_pub` (`CheckKey`, `StoreKey`), since the
reader may announce in between, and one elsewhere, where the lock of `known` is held
throughout. `Whois` is the request that the GUI makes when a user without an open chat is
clicked (`main.rs:1299`); it takes no slot, and its answer is a profile (`Profiled`) or, for an
unknown name, the same `[RESP]ERR` as that of the other two (`Answered`). `crossed` is a history
variable: on this connection a request timed out or was typed raw, or one got the `ERR` of
a `/whois`, so that an answer may meet another request.

### Session, SessionProofs

One GUI, its attempts to log in, and the handlers of the server, each with its own
connection. `screen`, `authed` and `cur` (whose channels the GUI holds) are the fields
of `MeshApp`; `ui[c]`, `ev[c]` the channels of attempt `c`, `net[c]` and `rd[c]` its
threads, `link[c]` its socket; `srv[c]` is where its handler is, `lock` who holds
`clientsMutex` and `todo` whom a broadcast has still to write to. A write blocks while
the receiver's buffer is full. `heard` is a history variable.

| Code | Actions |
|---|---|
| `start_connect`, logout button, end of the program, `poll_events` | `StartConnect`, `Logout`, `Quit`, `Poll` |
| `net_loop`: connect and first frames, a command, the channel's end | `Dial` or `DialFails`, `Command`, `HangUp` |
| `reader_loop`: a frame, the end of the stream | `Read`, `ReadEnd` |
| `handleClient`: first frame, a login, ten minutes, end of the stream | `Hello`, `LogIn`, `Deadline`, `EndOfStream` |
| the exit, `activate` and the farewell: lock, one write after another | `Leave`, `Broadcast`, `Tell` |
| the other client's `reader_loop` | `GuestReads` |
| the network | `Cut` |

The announcements a handler makes one after another under separate locks are one
broadcast; a second client, `Guest`, is logged in, reads (or hangs, under `HungSpec`) and says
nothing.

### Inbox, ChatList, ChatListProofs

`Inbox` is what a user expects of the sidebar: one chat is shown, each other one counts
what came since it was last shown, and what is shown changes only when the user opens a
chat or the server moves the user to a room. `ChatList` is the code: `chats` is a
sequence that messages reorder and `active` an index in it, which every event that moves a
chat has to move too. `Push` is `push_msg`, `Open` the way to a chat by its name;
`PollNotice`, `PollAuthed`, `PollDisconnected`, `PollUsernameChanged`, `PollRoomChanged`,
`PollMsg`, `PollFileMsg` are the events of `poll_events` that touch the list;
`StartConnect`, `SubmitInput`, `ClickChat`, `OpenPrivate`, `Logout`, `Restart` are the
user. The refinement maps the index to the chat it points at and the sequence to a
function from names to counts. `twice` is a history variable: a rename to the name of
an existing chat makes two chats of one name, of whose counts nothing is promised.

### Delivery, DeliveryProofs

A text's way: typed (`Type`), taken by the network thread, which needs the members of
the room or the key of a name (`Take`, `Refuse` for a file, `TimeOut`), answered
(`AnswerMembers`, `AnswerKey`, `Hear`), encrypted for each and sent (`SendToRoom`,
`SendToName`), relayed by name (`Relay`), and read (`Read`, `SaveFails`). Meanwhile the
others leave and enter the room, rename themselves, take names that have become free,
disconnect and come back (`LeaveRoom`, `EnterRoom`, `Rename`, `GoOff`, `ComeBack`), and the
sender takes another name (`SenderRenames`, `mine`). The frames do not follow: they carry
`Me`, the name of the login, which is free from then on, and `Targets` leaves out whoever
has taken it (`net.rs:149`); that may have happened before the first text (`Starts`). The others read with the key they have under `Me`; another's
key comes to be there when it is announced under the name (`news`, `HearNews`) or asked
for (`AskForMe`). The GUI opens profiles meanwhile (`Whois`, `AnswerProfile`), and the ERR for a
name nobody has is heard as an answer. A frame
carries the name it is for and the key it is encrypted with, and is shown only by the
owner of that key. Texts are numbered in the order typed. `stay`, `might`, `failed` and
`crossed` are history variables: whom a text was for all the time (by one name, and with
the sender's key) or at some time since it was typed, what was refused or lost to a
timeout, and whether a request was made with the answer of another still to come or
was given the ERR of a profile.

### ConsoleClient, ConsoleClientProofs

`rust_client` with its two threads. What a thread has still to do for a line or a frame
is a sequence of steps, `todo[t]`, between which the other thread runs: taking and
freeing one of the mutexes `known`, `tofu` and `print` (`Acquire`, `Release`), storing a key,
checking a fingerprint, writing the file in two steps, asking and waiting
(`StoreKey`, `Compare`, `Report`, `TruncateFile`, `WriteFile`, `LookUp`, `Request`, `TimeOut`,
`Encrypt`, `RecallKey`, `Trust`). The `Type...` actions are the commands of the prompt and
`Announce`, `ReadText`, `ReadLine`, `Respond` the frames; each puts the steps of its
function in `todo`, in the order of the code and with the locks held there. `Kill` may
come between any two steps. `pinned`, `warned`, `used` and `torn` are history variables.

### QuickLogin

The saved accounts of the GUI: `saved` and `stored`, the fields of the login screen, the attempt
under way with what it was made with (`me`, `at`, `sent`), and `real`, what the accounts'
passwords are on the server. `PressButton`, `ClickSaved`, `ClickCross`, `Edit`, `Logout`,
`LoginAgain` are the user, `Accept` and `Refuse` the server, `PollAuthed` saves or forgets the
account, `Reopen` includes a kill inside the write. Accounts are renamed and given other
passwords here and elsewhere (`SetPassword`, `SetUsername`). `stale` and `spoilt` are history
variables: the fields are no longer what the attempt was made with, and the accounts
saved from such an attempt or changed on the server since.

## 4. Runs

| Run | Instance | Shows |
|---|---|---|
| `accounts` | 2 connections, 3 names (one legacy account), 2 passwords, limit 2 | `TypeOK`, `UniqueNames`, `AuthedHasAccount`, `NoAccountLost`, `ChangedByOwner`, and that `Directory` is implemented |
| `presence` | viewer and 2 sessions, 2 names, 1 key, 2.5 million states | `PTypeOK`, `PresenceIsExact`, `EveryKeyReaches` |
| `rooms` | the client and one other, 2 rooms, 1 password | `RTypeOK`, `RoomAgreement`, `MembersKnowPassword`, `CalmTextInItsRoom` |
| `wrong_room` | the same | violation, see section 6 |
| `store` | 2 names, 2 values, any number of crashes and requests to the panel | `STypeOK`, `ConfirmedIsKept`, `FileFollowsMemory`, `EveryAccountHasRow`, `NoRowLeftBehind` |
| `keys` | 2 peers with 2 identities each, 3 requests under way, 805 000 states | `KTypeOK`, `WaitIsAnswered`, `KeysBelong`, `ChangeIsReported` |
| `wrong_key` | the same | violation, see section 6 |
| `session` | 2 attempts under 2 names, buffers of 1 frame, 262 000 states | `SessionOK`, `ShownIsServed`; under fairness `OutcomeIsHeard`, `GivenUpEnds`, `NoThreadHangs` |
| `chats` | 2 names, 2 rooms, 5 chats, 2 unread, 109 000 states | `ChatsOK`, and that `Inbox` is implemented |
| `delivery` | the sender and 2 others, 4 names, 2 texts, 2 changes, 522 000 states | `DeliveryOK`, `ReadByRecipients`, `InOrder`, `MembersRead`; under fairness `TextIsTold` |
| `console` | 1 peer with 2 keys, 2 lines, 2 frames, 1 kill, 222 000 states | `ConsoleOK`, `WarnedBeforeUse`, `ChangeIsReported`; under fairness `LineEnds` |
| `quick` | 2 users, 2 servers, 2 passwords, 2 saved, a million states | `QuickOK`, `SavedOpens` |

Bounds. Every hazard of the account code is between two connections and at most three
names (two held, one renamed to); a limit of 2 failed logins shows the comparison as
5 does. A viewer's view is changed only by frames about others and influences nothing,
so one viewer stands for all; `ViewersWatch` keeps it from leaving, renaming itself,
changing its profile and upgrading others, which the two further sessions do; they
are needed for a name that changes hands, and a rename in the passing run needs the two names only, since renamed names
are excluded from its properties. In `MeshRooms`, `MaxQueue = 3` leaves room for a text
with its join behind another command, `MaxEvents = 1` for a confirmation the GUI
has not polled; the other client does not know the password, the client does. Both
bounds are guards of the actions that send and confirm.
In `AccountStore` nothing is bounded but the data: a change concerns at most two names,
and two values tell an old account from a new one. In `KeyRequest`, `MaxWire = 3` is a
request that was given up, typed raw or for a profile, with the one that meets its answer
and the next one; two peers
are the right and the wrong owner of a key, two identities a key and the changed key.
In `Session`, two attempts are one given up and the one after it, under the same name
or another, and a buffer of one frame blocks earliest. In `ChatList`, five chats are
one of every name and one that a rename gives a second chat, and an index goes wrong with
the first message that moves a chat past another. In `Delivery`, two texts may be out of
order and meet each other's answers; two changes are a name given up and taken by the
other, or a member gone and back. That a key is announced under the name the sender has
given up needs four (the sender renames itself, another takes the name, goes and comes
back), so the run also starts where the first two have happened (`Starts`); with one text
and five changes from the first start it passes as well (1.7 million states). In `ConsoleClient`, two lines are a request that timed
out and the one that meets its answer, two frames the keys of an announcement and of its
change. `QuickLogin` keeps two accounts of ten, so that a third pushes one out. Larger
instances pass too: `console` with three lines (1.0 million), `quick` without symmetry (one saved account,
7.3 million).
Symmetry: connections, passwords, values, peers and names that nothing tells apart; no
run with symmetry checks liveness. Deadlock is not checked where the bounds, or a
person who does nothing more, end a behaviour.

Fairness is assumed only of machines. `Session` has `WF_svars(System)`: something of what the
GUI's polling, the threads, the connections, the handlers and the deadlines can do
is done. It is weak fairness of all of it together: each attempt has finitely many steps,
so this is enough, and nothing is asked of the mutex (Go's is fair, and a model that
assumed it would show less). It does include that clients read what they are sent, so that
`NoThreadHangs` says nothing of one that hangs; `HungSpec` assumes everything but that of one
client, and there the promise fails, since no write has a deadline (section 6). `Delivery` has `WF_dvars(Machines)`, the sender's threads, the handler and
the readers; `TimeOut` is one of them, as the three seconds pass by themselves.
`ConsoleClient` has weak fairness of each of the two threads; the server may stop
answering at any time, and `LineEnds` still holds by the timeout. No liveness property
asks anything of the person, the network or a restart.

## 5. Proofs

`MeshAccountsProofs` proves, for any sets of connections, names and passwords and any
limit, the type invariant, `UniqueNames`, `AuthedHasAccount`, `NoAccountLost`,
`ChangedByOwner` and the refinement of `Directory`. The assumptions are those of
`MeshAccounts` on its constants (`NoName` is no name, `NoAccount` no account, legacy
names are names, the limit is positive).

The three invariants are not inductive by themselves: nothing in them says that a
goroutine in the middle of `/register` or `/login` has a name with an account, which
`Registered` and `LoginFinish` need when they set `authed`. `StageOK` adds it: a slot
is outside `clients` exactly when idle; after the lock section of `/register` the name
has an account; while a login is in progress its target has an account, which holds
because an account leaves a name only with an authorised client of that name and moves
nothing else. `IInv` is the conjunction; `InitIInv` and `StepIInv` prove that it is
inductive, with one step per action. The action properties and the refinement take
`IInv` from there: each action maps to one of `Directory`'s or to a stutter
(`StepDirectory`).

The other proof modules follow the same plan: the invariant of the run and what it
needs to be inductive are the parts of one conjunction, one lemma per action, and each
theorem is a consequence of that conjunction. All are for any values of the constants;
the assumptions are those named in the modules.

`MeshServerProofs` (`PInv`): `PTypeOK`, `PresenceIsExact`, `EveryKeyReaches`. The two
properties speak of settled names only; the invariant says what holds in between. Who
is shown online is a member or has its farewell to come (`OnJustified`); a member
shown offline hides, or did until a stale copy undid it, or is to be announced again
(`OffJustified`, and `TellsTrue` for an answer of isOnline not yet announced); a key that a member
has is known to each other member, or is in the table that one is about to get, or in
the announcement still to be made (`KeyOnItsWay`). `OneHolder` keeps announcements of
different handlers apart, `LocalIsName` ties the name of the farewell to the name held.

`MeshServerProofs` (`RInv`): `MembersKnowPassword`, `RoomAgreement`,
`CalmTextInItsRoom`. Who made a room knows its password (`CreatorsKnow`), and a text
typed while nothing that moves the client was under way is still ahead of every such
command (`CalmWaits`).

`AccountFilesProofs` (`SInv`): `ConfirmedIsKept`, `FileFollowsMemory`,
`EveryAccountHasRow`, `NoRowLeftBehind`. In the middle of a change the three copies differ by exactly the
names of the job, and which of them differ depends on how far the job is (`JobOK`,
`FileOK`, `MemoryOK`, `RowsOK`); `DownOK` is what a stopped server leaves behind. `FileOK`
holds through every crash: what a start would load (`Load`) is what memory holds.

`KeyRequestProofs` (`KInv`): `WaitIsAnswered`, `KeysBelong`, `ChangeIsReported`. A
thread that waits has a live slot and its request is the last on the wire (`LiveWaits`,
`WaitIsAnswered`); while nothing crossed, all others on it are for profiles, and what the slot
was given answers the request the thread made (`Calm`); a cached key is the pinned one or its user was
warned, also between the check and the store (`KnownIsPinned`, `CheckedBeforeStored`).

`SessionProofs` (`SInv`): `SessionOK`, `ShownIsServed`. For each attempt: it has a reader only
after its network thread, and the GUI holds channels only of an attempt that was made
(`Fresh`); without a reader it has no handler, no socket and no word of a login (`Born`);
an accepted login, wherever its answer is on the way to the screen, is one the server
has or has just ended (`LoggedOK`); and the last word of a reader that is over is the end of the
connection, heard or still to be heard (`EndTold`). Since the answer may be on the wire, in
a channel or on the screen, and the handler may leave at any of these moments,
`ShownIsServed` is not inductive without the last two.

`DeliveryProofs`, in three invariants. `DInv`: `DeliveryOK` and `ReadByRecipients`. The claim about screens
needs one about each stage a text passes: an answer lists only people the text was for
(`NetFits`), a frame in either direction is addressed or encrypted to such a person
(`UpAddressed`, `SockReadable`), and, as long as nothing crossed, one request at most is under
way (`Calm`), so that an answer fits the text it is taken for; the ERR of a profile is
none of a request (`Asks`), and if it is taken for one, that is a crossing. `OInv`: `InOrder`, by the same idea for
the order: what is on the screen comes before what is in a socket, that before what is
on its way to the server, that before what the network thread holds, and that before
the commands (`SockInLine`, `UpInLine`, `BusyInLine`, `CommandsInLine`). That the list of members
becomes a sequence of frames uses that `Person` is finite (`PersonAssumption`).
`MInv`: `MembersRead`, which says that something must have happened, and so needs to know where
each text is until then. For whoever has stayed, a text is a command, or asked for, or
answered with this member on the list, or a frame on its way to the server or to the
reader, or on the screen (`OnTheWay`); every action hands it on from one of these places
to the next (`TakeOnWay`, `HearOnWay`, `SendToRoomOnWay`, `RelayOnWay`, `ReadOnWay`). It reaches the list since the
answer to a request for the room is a list with everybody who stays on it (`RoomAsked`); it
reaches the socket since a frame carries the name that its reader still has, and who
stays is connected (`StayFor`), and has the sender's key when it comes to reading; whoever
has the name `Me` is on the list and gets no frame, which is why the claim leaves it out; and a text whose outcome is told is in none of the first
three places (`Untold`). `stay` loses a
person with the very step after which a frame would miss that person (`StayedIs`).

`ChatListProofs`: `ChatsOK`, which is inductive, and the refinement of `Inbox`. Everything
done to the list is one of three things, each a lemma: a chat is added or its count
changed (`WithChatIs`, `Recounted`), the list is reordered by a bijection (`Reordered`,
`PutFirst`), or chats are renamed in place (`WithNameIs`). Each says which names are there
afterwards, that no name is there twice but the excepted ones (`Single`), and that no
count but one has changed (`Follows`); `PushIs` and `OpenIs` put them together as `push_msg`
and the click do, and every action maps to `Receive`, `Show`, `Renamed`, `Forget` or a stutter.

`ConsoleClientProofs`, in two invariants, both mostly about the sequences of steps that the
threads have still to do. `ThreadsOK`: `ConsoleOK`. What a thread has to do is in order
(`InOrder`): whatever it takes it frees, and once (`Balanced`); fingerprints are compared and
saved under their mutex (`Sheltered`); a key put into the map is compared later (`Tested`); the
request is last and the reader keeps the known keys through a frame (`Waits`, `Reads`). A mutex is
owned by exactly the thread whose steps hold it (`Locked`). Orderliness is a matter of the
sequence alone, so each function of the code has one lemma that the steps it puts in line
are orderly, and each action one that an orderly rest remains. `KeysOK`: `WarnedBeforeUse` and
`ChangeIsReported`. A key is *cleared* (`Cleared`) when it was met or its change reported, and
memory and file hold it, unless its name was reported or a kill tore the file. Every key
that was used is cleared (`UsedCleared`), and one that is about to be sent or trusted is, or the
steps before that one clear it (`SendsCleared`, `PinsCleared`). A key in the map is cleared, or it will be by
what the main thread has still to do, or by what the reader does before it frees the map
(`KnownCleared`) – which is why the main thread, once it has that mutex, finds only cleared keys.
And what is in memory is on disk, or the saving of it has begun (`TofuMet`, `DiskMet`, `TofuSaved`).

`AccountFilesProofs` (`QInv`): `QuickOK` and `SavedOpens`. `LoginOK` says what the login
under way has to do with the fields: until they are edited they are what was sent, and
once it is accepted the password in them is the account's; so what `Save` puts in the
list opens. That `save_account` keeps one entry for each account is a fact about removal
from a list without duplicates (`WithoutIs`, `SavedWithIs`), proved by counting the places below
one: `Without` is written with the place of each entry kept and not as a recursion, about
which nothing could be proved for every list.

Only model-checked: the liveness properties `OutcomeIsHeard`, `GivenUpEnds`, `NoThreadHangs`,
`TextIsTold` and `LineEnds`, which are out of the prover's reach. The properties of
the violation runs are properties the code does not have.

## 6. Where the code and its documentation disagree

Two are runs, in which TLC finds the violation:

- `wrong_room` (`TextInItsRoom`): "we guarantee that the server knows which room we are in"
  (`rust_gui/src/main.rs:787`) does not hold: a text typed in one room's chat can go to
  the members of another room, shortest when a join is confirmed and not yet polled;
  also after a refused join, `/leave`, a reconnection, and for files and reactions.
- `wrong_key` (`EncryptedForRecipient`): after a request that timed out, a raw `/pubkey a`, or
  one whose sender got the `ERR` of a `/whois` (`server_v2/main.go:854`), which a click on a user
  who is gone makes, the answer for `a` is cached as the key of `b`, and messages to `b` are
  encrypted for `a` (`CHANGELOG.md:148`: encryption per recipient).

More are stated in their modules as properties that are promised and not kept. No run checks
them; to see one violated, put its name in the configuration of its module's run.

- `HungHoldsNoThread` (`Session`, with `HungSpec` as the specification): "a hung or slow client no
  longer holds a server thread for ever" (`CHANGELOG.md:94`) is true of reads only.
  `broadcastFrame` (`server_v2/main.go:280`) writes under `clientsMutex` without a deadline; once
  the buffer of a client that does not read is full, the handler that broadcasts waits for
  ever and all others wait for the mutex, the exit of the hung client's own handler among them.
- `FirstMeetingIsKept` (`KeyRequest`, a PROPERTY): a fingerprint is saved only by *trust*
  (`rust_gui/src/net.rs:411`), so a GUI that is closed forgets the others and reports no change of
  their keys (`CHANGELOG.md:89-91`: remembered at the first meeting, in `tofu.json`).
- `HiddenStaysHidden` (`MeshPresence`): a hidden client is announced online at a rename
  (`server_v2/main.go:806`) and at every login (`:453`), though isOnline, and the field's
  comment, say that hiding hides (`:73`, `:414`).
- `NoGhosts` (`MeshPresence`, with a third name): `/setusername` announces the new name only, and
  the exit says offline for the name of the first frame (`server_v2/main.go:594`): the other
  name stays online for everybody, where `:429` promises that all are sent every change
  of presence.
- `OnlineIsShown` (`MeshPresence`): the exit frees the name before it announces offline, so the old
  connection's offline can follow the next login's online (the same promise). The stale
  copy of a legacy login (`server_v2/main.go:697`) breaks it too, in a longer run: a hidden
  member is un-hidden without a word.
- `DecisionsStand` (`AccountStore`): a deletion by the panel is undone, and a ban dropped, by the
  server's next save; the server never reads either (`CHANGELOG.md:56` promises ban and
  deletion).

Met while modelling, and allowed for in the properties or left outside them:

- Sessions. After a logout, or a second press of the button, the reader thread keeps the
  socket (`rust_gui/src/main.rs:1186`) and the name is taken until the server's deadline;
  `GivenUpEnds` says no more than that it ends.
- Chats. A room change moves the screen while the user types (`main.rs:678`); a rename to the
  name of an existing chat makes a second one; chats stay for whoever logs in next;
  text typed without a connection is cleared (`main.rs:769-772`).
- Delivery. Frames carry the name the connection began with, so whoever logs in after a
  rename of the sender cannot read them. Whoever takes that name is left out when the
  room is written to (`net.rs:149`), and when it announces its key the others overwrite the
  one they read the sender's frames with. `MembersRead` excepts these. A text whose request timed
  out is shown as sent (`net.rs:518`); a cached key outlives the name's change of hands.
- Saved accounts. Fields edited while a login is under way are what is saved (`main.rs:608`);
  an unticked box, or `/login` typed in a chat, erases the account (`main.rs:612-618`); the
  cross is armed for a position in the list and never disarmed (`main.rs:990`), so that
  after the list changed one click removes another account; a kill inside the write
  empties the list.
- Console. An announced key is stored before it is checked on one path (`rust_client/src/main.rs:407`),
  so that a text may be shown before the warning, although nothing is encrypted before
  it; the first server announces an empty key at login, which becomes the first one met
  and the real one a reported change; a torn `tofu.json` is no file, and all pins are gone.

## 7. Not modelled

Cryptography, byte formats, drawing, statistics and help, the dashboard, the tools and
`libmesh`: no state that the properties are about. Within the modelled parts: errors of
the disk and of SQLite, the renaming of an old-format `accounts.json` at start, requests
that the server drops because the client is not logged in, texts and reactions as the
chats show them, the GUI's list of users, and commands that only pass a line on. Flood
control depends on five seconds of real time and nothing depends on it. The CLI servers
and the Python and Go clients are variants of what is modelled; what their protocol sends
is the environment of `ConsoleClient`, and their own lock sections are left to the plan.
Races of the Go code on fields that are written without the lock are one atomic step each.
