---------------------------- MODULE MeshPresence ----------------------------
(***************************************************************************)
(* Presence and public-key announcements of the Go GUI server              *)
(* (server_v2/main.go): what activate, the R frame, /setusername, /profile *)
(* set and the exit of handleClient tell the other clients, on top of the  *)
(* Directory of addresses that MeshAccounts implements.                    *)
(*                                                                         *)
(* A handler computes what it announces in one clientsMutex section and    *)
(* writes it in later ones, so announcements of different handlers         *)
(* interleave.  TCP keeps the order of the frames written to a connection, *)
(* so what a client believes once it has read them all is the fold of the  *)
(* writes; ann and known keep that fold for the connections in Viewer.     *)
(* The views feed nothing back, so following a few viewers loses nothing.  *)
(***************************************************************************)
EXTENDS Directory, Naturals, FiniteSets

CONSTANTS Viewer,   \* the sessions whose view is followed
          Key,      \* X25519 public keys
          NoKey     \* the empty pubkey

ASSUME ViewerAssumption == Viewer \subseteq Session
ASSUME NobodyAssumption == Nobody \notin Address

VARIABLES pc,          \* where each handler stands between its lock sections
          local,       \* handleClient's local `username'
          pubkey,      \* Client.pubkey
          hide,        \* Account.HideStatus
          legacy,      \* the accounts whose Alg is still ""
          login,       \* the name and HideStatus a /login copied to upgrade it
          draft,       \* the key table a handler computed and has not sent
          ann,         \* last [PRESENCE] frame per viewer and name
          known,       \* last key told per viewer and name
          blurred,     \* history: names a rename or an overlap touched
          restored     \* history: members whose HideStatus a stale copy put
                       \* back since their last /profile set

views == <<ann, known>>
upgrades == <<legacy, login, restored>>
pvars == <<holds, members, registered, pc, local, pubkey, hide,
           legacy, login, draft, ann, known, blurred, restored>>

NoLogin == [name |-> Nobody, hide |-> FALSE]

Connected(c) == holds[c] # Nobody
Goto(c, l) == pc' = [pc EXCEPT ![c] = l]

NoTable == [n \in Address |-> NoKey]

\* pubKeysTable: the keys of the authorised clients.
PubKeys == [n \in Address |->
              LET holders == {d \in members : holds[d] = n /\ pubkey[d] # NoKey}
              IN  IF holders = {} THEN NoKey ELSE pubkey[CHOOSE d \in holders : TRUE]]

\* broadcastFrame writes to every client of `clients' but the sender,
\* authorised or not.
Tell(view, to, n, v) ==
  [w \in Viewer |-> IF Connected(w) /\ w \in to THEN [view[w] EXCEPT ![n] = v]
                                                ELSE view[w]]

\* presenceBroadcast reaches the subject's own connection too.
Announce(n, v) == /\ ann' = Tell(ann, Session, n, v)
                  /\ UNCHANGED known

-----------------------------------------------------------------------------

PInit == /\ DirInit
         /\ pc = [c \in Session |-> "idle"]
         /\ local = [c \in Session |-> Nobody]
         /\ pubkey = [c \in Session |-> NoKey]
         /\ hide \in [Address -> BOOLEAN]
         /\ \A n \in Address \ registered : ~hide[n]
         /\ legacy \in SUBSET registered
         /\ login = [c \in Session |-> NoLogin]
         /\ draft = [c \in Session |-> NoTable]
         /\ ann = [v \in Viewer |-> [n \in Address |-> "none"]]
         /\ known = [v \in Viewer |-> NoTable]
         /\ blurred = {}
         /\ restored = {}

\* The first frame: the client enters `clients' and has heard nothing yet.
Connect(c, n) ==
  /\ pc[c] = "idle"
  /\ Claim(c, n)
  /\ local' = [local EXCEPT ![c] = n]
  /\ pubkey' = [pubkey EXCEPT ![c] = NoKey]
  /\ ann' = [v \in Viewer |-> IF v = c THEN [m \in Address |-> "none"] ELSE ann[v]]
  /\ known' = [v \in Viewer |-> IF v = c THEN NoTable ELSE known[v]]
  /\ Goto(c, "ready")
  /\ UNCHANGED <<hide, upgrades, draft, blurred>>

\* /register stores the account; authed follows after the unlock.
SignUp(c) ==
  /\ pc[c] = "ready"
  /\ holds[c] \notin registered
  /\ Register(holds[c])
  /\ Goto(c, "registered")
  /\ UNCHANGED <<local, pubkey, hide, draft, views, blurred, upgrades>>

\* authed = true, at the end of /register or of an accepted /login, and the
\* entry of activate, which sets activated: the two flags are one.
LogIn(c) ==
  /\ pc[c] \in {"ready", "registered"}
  /\ c \notin members
  /\ Admit(c)
  /\ Goto(c, "activate")
  /\ UNCHANGED <<local, pubkey, hide, draft, views, blurred, upgrades>>

\* Fault: the key is announced only by activate, as if R frames always
\* preceded the login.
PublishKeySilently(c, k) ==
  /\ pc[c] = "ready"
  /\ pubkey[c] \in {NoKey, k}
  /\ pubkey' = [pubkey EXCEPT ![c] = k]
  /\ UNCHANGED <<dvars, pc, local, hide, draft, views, blurred, upgrades>>

\* An R frame, before or after the login.  A client sends the key of its
\* one identity file each time, so a published key does not change while
\* the connection lasts.  Announced at once only if the client is already
\* active and had no key.
PublishKey(c, k) ==
  /\ pc[c] = "ready"
  /\ pubkey[c] \in {NoKey, k}
  /\ pubkey' = [pubkey EXCEPT ![c] = k]
  /\ Goto(c, IF c \in members /\ pubkey[c] = NoKey THEN "republish" ELSE "ready")
  /\ UNCHANGED <<dvars, local, hide, draft, views, blurred, upgrades>>

\* pubKeysTable under the lock ...
ReadTable(c) ==
  /\ pc[c] \in {"activate", "republish"}
  /\ draft' = [draft EXCEPT ![c] = PubKeys]
  /\ Goto(c, IF pc[c] = "activate" THEN "table" ELSE "retable")
  /\ UNCHANGED <<dvars, local, pubkey, hide, views, blurred, upgrades>>

\* ... and its frame after the unlock: the client stores every pair of it.
SendTable(c) ==
  /\ pc[c] \in {"table", "retable"}
  /\ known' = [v \in Viewer |->
                 IF v = c THEN [n \in Address |-> IF draft[c][n] # NoKey THEN draft[c][n]
                                                                         ELSE known[c][n]]
                          ELSE known[v]]
  /\ draft' = [draft EXCEPT ![c] = NoTable]
  /\ Goto(c, IF pc[c] = "table" THEN "new" ELSE "renew")
  /\ UNCHANGED <<dvars, local, pubkey, hide, ann, blurred, upgrades>>

\* [NEW]name:key to the others; the key is empty when no R frame came yet.
AnnounceKey(c) ==
  /\ pc[c] \in {"new", "renew"}
  /\ known' = Tell(known, Session \ {c}, holds[c], pubkey[c])
  /\ Goto(c, IF pc[c] = "new" THEN "greet" ELSE "ready")
  /\ UNCHANGED <<dvars, local, pubkey, hide, draft, ann, blurred, upgrades>>

\* The end of activate, and of /setusername: online, whatever hide says.
AnnounceOnline(c) ==
  /\ pc[c] = "greet"
  /\ Announce(holds[c], "on")
  /\ Goto(c, "ready")
  /\ UNCHANGED <<dvars, local, pubkey, hide, draft, blurred, upgrades>>

\* /setusername n: the lock section.  The handler's local username and the
\* key announced under the old name stay what they were.
SetUsername(c, n) ==
  /\ pc[c] = "ready"
  /\ n # holds[c]
  /\ Move(c, n)
  /\ hide' = [hide EXCEPT ![n] = hide[holds[c]], ![holds[c]] = FALSE]
  /\ legacy' = IF holds[c] \in legacy THEN (legacy \ {holds[c]}) \cup {n} ELSE legacy
  /\ blurred' = blurred \cup {n, holds[c]}
  /\ Goto(c, "greet")
  /\ UNCHANGED <<local, pubkey, login, draft, views, restored>>

\* /setpassword: the new hash is argon2, the profile stays.
SetPassword(c) ==
  /\ pc[c] = "ready"
  /\ c \in members
  /\ legacy' = legacy \ {holds[c]}
  /\ UNCHANGED <<dvars, pc, local, pubkey, hide, login, draft, views, blurred, restored>>

\* /login n by whoever knows n's password, on any connection: an account of
\* before argon2 is copied under one lock ...
CopyLegacy(c, n) ==
  /\ pc[c] = "ready"
  /\ n \in legacy
  /\ login' = [login EXCEPT ![c] = [name |-> n, hide |-> hide[n]]]
  /\ Goto(c, "upgrade")
  /\ UNCHANGED <<dvars, local, pubkey, hide, legacy, draft, views, blurred, restored>>

\* ... and written back with its new hash under another, HideStatus as it was
\* at the copy.  Nobody is told.  The login goes on if n is the connection's
\* own name.
UpgradeHash(c) ==
  LET n == login[c].name
  IN  /\ pc[c] = "upgrade"
      /\ Register(n)
      /\ hide' = [hide EXCEPT ![n] = login[c].hide]
      /\ legacy' = legacy \ {n}
      /\ restored' = IF hide[n] = login[c].hide
                     THEN restored ELSE restored \cup {d \in members : holds[d] = n}
      /\ login' = [login EXCEPT ![c] = NoLogin]
      /\ Goto(c, IF n = holds[c] /\ c \notin members THEN "registered" ELSE "ready")
      /\ UNCHANGED <<local, pubkey, draft, views, blurred>>

\* /profile set hide=h: the lock section.
SetHide(c, h) ==
  /\ pc[c] = "ready"
  /\ c \in members
  /\ hide' = [hide EXCEPT ![holds[c]] = h]
  /\ restored' = restored \ {c}
  /\ Goto(c, "profile")
  /\ UNCHANGED <<dvars, local, pubkey, legacy, login, draft, views, blurred>>

\* isOnline(self) under the lock: a connected member is online unless its
\* account hides, which the upgrade of another connection may have undone.
IsOnline(c) ==
  /\ pc[c] = "profile"
  /\ Goto(c, IF hide[holds[c]] THEN "sayoff" ELSE "sayon")
  /\ UNCHANGED <<dvars, local, pubkey, hide, draft, views, blurred, upgrades>>

\* presenceBroadcast of the answer, after the unlock.
AnnounceProfile(c) ==
  /\ pc[c] \in {"sayoff", "sayon"}
  /\ Announce(holds[c], IF pc[c] = "sayoff" THEN "off" ELSE "on")
  /\ Goto(c, "ready")
  /\ UNCHANGED <<dvars, local, pubkey, hide, draft, blurred, upgrades>>

\* Fault: the client is not taken out of `clients'.
LeaveStale(c) ==
  /\ pc[c] = "ready"
  /\ Goto(c, "gone")
  /\ UNCHANGED <<dvars, local, pubkey, hide, draft, views, blurred, upgrades>>

\* The read loop ends: the client leaves `clients'.
Leave(c) ==
  /\ pc[c] = "ready"
  /\ Release(c)
  /\ restored' = restored \ {c}
  /\ Goto(c, "gone")
  /\ UNCHANGED <<local, pubkey, hide, legacy, login, draft, views, blurred>>

\* Fault: the exit announces nothing.
FarewellSilently(c) ==
  /\ pc[c] = "gone"
  /\ Goto(c, "idle")
  /\ UNCHANGED <<dvars, local, pubkey, hide, draft, views, blurred, upgrades>>

\* After the unlock: offline, for the name the connection began with, which
\* another connection may hold by now.
Farewell(c) ==
  /\ pc[c] = "gone"
  /\ Announce(local[c], "off")
  /\ blurred' = IF Free(local[c]) THEN blurred ELSE blurred \cup {local[c]}
  /\ Goto(c, "idle")
  /\ UNCHANGED <<dvars, local, pubkey, hide, draft, upgrades>>

PNext == \E c \in Session :
  \/ \E n \in Address : Connect(c, n)
  \/ SignUp(c)
  \/ LogIn(c)
  \/ \E k \in Key : PublishKey(c, k)
  \/ ReadTable(c)
  \/ SendTable(c)
  \/ AnnounceKey(c)
  \/ AnnounceOnline(c)
  \/ \E n \in Address : SetUsername(c, n)
  \/ SetPassword(c)
  \/ \E n \in Address : CopyLegacy(c, n)
  \/ UpgradeHash(c)
  \/ \E h \in BOOLEAN : SetHide(c, h)
  \/ IsOnline(c)
  \/ AnnounceProfile(c)
  \/ Leave(c)
  \/ Farewell(c)

PSpec == PInit /\ [][PNext]_pvars

-----------------------------------------------------------------------------

Handler == {"idle", "ready", "registered", "activate", "republish", "table",
            "retable", "new", "renew", "greet", "profile", "sayoff", "sayon",
            "upgrade", "gone"}

\* Types, and that a slot is in `clients' exactly while its handler's read
\* loop runs.
PTypeOK ==
  /\ holds \in [Session -> Address \cup {Nobody}]
  /\ members \in SUBSET {c \in Session : Connected(c)}
  /\ registered \in SUBSET Address
  /\ pc \in [Session -> Handler]
  /\ \A c \in Session : Connected(c) <=> pc[c] \notin {"idle", "gone"}
  /\ local \in [Session -> Address \cup {Nobody}]
  /\ pubkey \in [Session -> Key \cup {NoKey}]
  /\ hide \in [Address -> BOOLEAN]
  /\ legacy \in SUBSET registered
  /\ login \in [Session -> [name : Address \cup {Nobody}, hide : BOOLEAN]]
  /\ \A c \in Session : pc[c] = "upgrade" => login[c].name # Nobody
  /\ draft \in [Session -> [Address -> Key \cup {NoKey}]]
  /\ ann \in [Viewer -> [Address -> {"none", "on", "off"}]]
  /\ known \in [Viewer -> [Address -> Key \cup {NoKey}]]
  /\ blurred \in SUBSET Address
  /\ restored \in SUBSET members

\* A handler still has something to announce about n.
Unsettled(n) ==
  \E c \in Session :
    \/ pc[c] = "gone" /\ local[c] = n
    \/ pc[c] # "ready" /\ holds[c] = n

\* What clients are told of a name is right once its handlers have said all
\* they will, whatever exits, logins, upgrades and profile changes
\* interleave.  Excepted are names that a /setusername took or gave up and
\* names whose farewell came after somebody else had connected under them;
\* and a name may still be shown offline, after its owner hid it, when the
\* copy of a legacy login has put its former HideStatus back without a word
\* (main.go:697).
PresenceIsExact ==
  \A v \in Viewer, n \in Address :
    Connected(v) /\ n \notin blurred /\ ~Unsettled(n) =>
      /\ ann[v][n] = "on" => \E d \in members : holds[d] = n
      /\ ann[v][n] = "off" => \A d \in members : holds[d] = n => hide[n] \/ d \in restored

\* An active client has been told a key of every authorised client whose R
\* frame has been handled, so that it can write to it (main.go:561): also
\* when the R frame came after the login, and when both logged in at once.
EveryKeyReaches ==
  \A v \in Viewer, d \in members :
    /\ v # d
    /\ v \in members
    /\ pc[v] \notin {"activate", "table"}
    /\ pubkey[d] # NoKey
    /\ pc[d] \notin {"activate", "table", "new", "republish", "retable", "renew"}
    /\ holds[d] \notin blurred
    => known[v][holds[d]] # NoKey

\* The three properties that follow are promised and not kept.

\* A client that hides its status is not shown online (main.go:73, :414).
HiddenStaysHidden ==
  \A v \in Viewer, d \in members :
    v # d /\ Connected(v) /\ pc[d] = "ready" /\ hide[holds[d]] =>
      ann[v][holds[d]] # "on"

\* Everyone is told of every change of presence (main.go:429): when all the
\* others have left and their handlers have ended, nobody else is shown
\* online to a client that kept its own name.
NoGhosts ==
  \A v \in Viewer, n \in Address :
    /\ Connected(v)
    /\ \A c \in Session \ {v} : pc[c] = "idle"
    /\ holds[v] = local[v]
    /\ n # holds[v]
    => ann[v][n] # "on"

\* The same, the other way round: a client that is logged in, does not hide
\* and has announced itself is not shown offline.
OnlineIsShown ==
  \A v \in Viewer, d \in members :
    v # d /\ Connected(v) /\ ~Unsettled(holds[d]) /\ ~hide[holds[d]] =>
      ann[v][holds[d]] # "off"

=============================================================================
