---------------------------- MODULE MeshAccounts ----------------------------
(***************************************************************************)
(* Accounts and sessions of the Go GUI server (server_v2/main.go): the     *)
(* connection's first frame, /register, /login with its upgrade of a       *)
(* legacy hash, /profile set, /setusername, /setpassword and the exit of   *)
(* handleClient.  Every connection is served by one goroutine; pc[c] says  *)
(* between which of its clientsMutex sections it stands, so the steps of   *)
(* different connections interleave exactly where the code unlocks.        *)
(*                                                                         *)
(* Data: a password is known by its identity, and nick, bio and            *)
(* hide_status, which travel together, are the one field `hide'.           *)
(***************************************************************************)
EXTENDS Naturals, FiniteSets

CONSTANTS Conn,         \* connection slots, each reused after its exit
          Name,         \* valid @usernames
          Password,
          LegacyName,   \* accounts.json entries with alg = "" at start
          MaxAttempts,  \* failed logins that close the connection
          NoName,       \* username of a slot outside `clients'
          NoAccount     \* accounts[n] of a name without an account

ASSUME NoNameAssumption == NoName \notin Name
ASSUME LegacyAssumption == LegacyName \subseteq Name
ASSUME AttemptsAssumption == MaxAttempts \in Nat \ {0}

Account == [pw : Password, legacy : BOOLEAN, hide : BOOLEAN]

ASSUME NoAccountAssumption == NoAccount \notin Account

VARIABLES accounts,   \* the map `accounts': name -> account
          pc,         \* where each handler goroutine stands
          uname,      \* Client.username, NoName outside `clients'
          authed,     \* Client.authed
          attempts,   \* Client.loginAttempts
          login       \* the /login in progress: target, password, copy

vars == <<accounts, pc, uname, authed, attempts, login>>

NoLogin == [user |-> NoName, pw |-> NoName, copy |-> NoAccount]

Exists(n) == accounts[n] # NoAccount

\* The scan of `clients' for a username, as the first frame and
\* /setusername do it.
Taken(n) == \E c \in Conn : uname[c] = n

\* newArgon2Account: the alg field is set, the profile is empty.
Argon2Account(p) == [pw |-> p, legacy |-> FALSE, hide |-> FALSE]

\* verifyLegacy and verifyArgon2: equality of password and stored hash.
Verifies(acc, p) == acc # NoAccount /\ acc.pw = p

Goto(c, l) == pc' = [pc EXCEPT ![c] = l]

-----------------------------------------------------------------------------

Init == /\ accounts \in [Name -> Account \cup {NoAccount}]
        /\ \A n \in Name : IF n \in LegacyName
                             THEN accounts[n] # NoAccount /\ accounts[n].legacy
                             ELSE accounts[n] = NoAccount
        /\ pc = [c \in Conn |-> "idle"]
        /\ uname = [c \in Conn |-> NoName]
        /\ authed = [c \in Conn |-> FALSE]
        /\ attempts = [c \in Conn |-> 0]
        /\ login = [c \in Conn |-> NoLogin]

\* Fault: the name is not looked for among the connected clients.
ConnectUnchecked(c, n) ==
  /\ pc[c] = "idle"
  /\ uname' = [uname EXCEPT ![c] = n]
  /\ authed' = [authed EXCEPT ![c] = FALSE]
  /\ attempts' = [attempts EXCEPT ![c] = 0]
  /\ Goto(c, "ready")
  /\ UNCHANGED <<accounts, login>>

\* The first frame names the connection; a name in use is refused.
Connect(c, n) ==
  /\ pc[c] = "idle"
  /\ ~Taken(n)
  /\ uname' = [uname EXCEPT ![c] = n]
  /\ authed' = [authed EXCEPT ![c] = FALSE]
  /\ attempts' = [attempts EXCEPT ![c] = 0]
  /\ Goto(c, "ready")
  /\ UNCHANGED <<accounts, login>>

\* Fault: /register does not look for an existing account.
RegisterOver(c, p) ==
  /\ pc[c] = "ready"
  /\ accounts' = [accounts EXCEPT ![uname[c]] = Argon2Account(p)]
  /\ Goto(c, "registered")
  /\ UNCHANGED <<uname, authed, attempts, login>>

\* /register p p: the account is stored under the lock; authed is set after
\* the unlock, by Registered.
Register(c, p) ==
  /\ pc[c] = "ready"
  /\ ~Exists(uname[c])
  /\ accounts' = [accounts EXCEPT ![uname[c]] = Argon2Account(p)]
  /\ Goto(c, "registered")
  /\ UNCHANGED <<uname, authed, attempts, login>>

Registered(c) ==
  /\ pc[c] = "registered"
  /\ authed' = [authed EXCEPT ![c] = TRUE]
  /\ Goto(c, "ready")
  /\ UNCHANGED <<accounts, uname, attempts, login>>

\* /login u p, right password: the account is copied under the lock and
\* verified after it.  u may be any name, not only the connection's.
LoginLookup(c, u, p) ==
  /\ pc[c] = "ready"
  /\ Verifies(accounts[u], p)
  /\ login' = [login EXCEPT ![c] = [user |-> u, pw |-> p, copy |-> accounts[u]]]
  /\ Goto(c, IF accounts[u].legacy THEN "upgrade" ELSE "accept")
  /\ UNCHANGED <<accounts, uname, authed, attempts>>

\* Fault: the limit is compared with > instead of >=.
LoginRejectedLate(c, u, p) ==
  /\ pc[c] = "ready"
  /\ ~Verifies(accounts[u], p)
  /\ attempts' = [attempts EXCEPT ![c] = @ + 1]
  /\ Goto(c, IF attempts[c] + 1 > MaxAttempts THEN "closing" ELSE "ready")
  /\ UNCHANGED <<accounts, uname, authed, login>>

\* /login u p, wrong password or no account: at the limit the connection
\* is closed.
LoginRejected(c, u, p) ==
  /\ pc[c] = "ready"
  /\ ~Verifies(accounts[u], p)
  /\ attempts' = [attempts EXCEPT ![c] = @ + 1]
  /\ Goto(c, IF attempts[c] + 1 >= MaxAttempts THEN "closing" ELSE "ready")
  /\ UNCHANGED <<accounts, uname, authed, login>>

\* A legacy hash that verified is replaced under a second lock by an
\* argon2id one, with the profile of the copy read under the first.
UpgradeHash(c) ==
  /\ pc[c] = "upgrade"
  /\ accounts' = [accounts EXCEPT ![login[c].user] =
                    [Argon2Account(login[c].pw) EXCEPT !.hide = login[c].copy.hide]]
  /\ Goto(c, "accept")
  /\ UNCHANGED <<uname, authed, attempts, login>>

\* Fault: the name logged into is not compared with the connection's.
LoginFinishAnyName(c) ==
  /\ pc[c] = "accept"
  /\ authed' = [authed EXCEPT ![c] = TRUE]
  /\ attempts' = [attempts EXCEPT ![c] = 0]
  /\ login' = [login EXCEPT ![c] = NoLogin]
  /\ Goto(c, "ready")
  /\ UNCHANGED <<accounts, uname>>

\* The end of /login: only the connection's own name is let in.
LoginFinish(c) ==
  /\ pc[c] = "accept"
  /\ IF login[c].user = uname[c]
       THEN /\ authed' = [authed EXCEPT ![c] = TRUE]
            /\ attempts' = [attempts EXCEPT ![c] = 0]
       ELSE UNCHANGED <<authed, attempts>>
  /\ login' = [login EXCEPT ![c] = NoLogin]
  /\ Goto(c, "ready")
  /\ UNCHANGED <<accounts, uname>>

\* /profile set: one critical section.
SetProfile(c, h) ==
  /\ pc[c] = "ready"
  /\ authed[c]
  /\ Exists(uname[c])
  /\ accounts' = [accounts EXCEPT ![uname[c]].hide = h]
  /\ UNCHANGED <<pc, uname, authed, attempts, login>>

\* Faults: /setusername skips the scan of `clients', or the look into
\* `accounts'.
SetUsernameNotBusy(c, n) ==
  /\ pc[c] = "ready"
  /\ authed[c]
  /\ n # uname[c]
  /\ ~Exists(n)
  /\ Exists(uname[c])
  /\ accounts' = [accounts EXCEPT ![uname[c]] = NoAccount, ![n] = accounts[uname[c]]]
  /\ uname' = [uname EXCEPT ![c] = n]
  /\ UNCHANGED <<pc, authed, attempts, login>>

SetUsernameOver(c, n) ==
  /\ pc[c] = "ready"
  /\ authed[c]
  /\ n # uname[c]
  /\ ~Taken(n)
  /\ Exists(uname[c])
  /\ accounts' = [accounts EXCEPT ![uname[c]] = NoAccount, ![n] = accounts[uname[c]]]
  /\ uname' = [uname EXCEPT ![c] = n]
  /\ UNCHANGED <<pc, authed, attempts, login>>

\* /setusername n: the account moves to n in one critical section.
SetUsername(c, n) ==
  /\ pc[c] = "ready"
  /\ authed[c]
  /\ n # uname[c]
  /\ ~Exists(n)
  /\ ~Taken(n)
  /\ Exists(uname[c])
  /\ accounts' = [accounts EXCEPT ![uname[c]] = NoAccount, ![n] = accounts[uname[c]]]
  /\ uname' = [uname EXCEPT ![c] = n]
  /\ UNCHANGED <<pc, authed, attempts, login>>

\* /setpassword old new: one critical section; a legacy account leaves it
\* as an argon2id one.
SetPassword(c, old, new) ==
  /\ pc[c] = "ready"
  /\ authed[c]
  /\ Verifies(accounts[uname[c]], old)
  /\ accounts' = [accounts EXCEPT ![uname[c]] =
                    [Argon2Account(new) EXCEPT !.hide = accounts[uname[c]].hide]]
  /\ UNCHANGED <<pc, uname, authed, attempts, login>>

\* The read loop ends (peer gone, ten silent minutes, flood, /exit, the
\* login limit) and the client leaves `clients'.
Disconnect(c) ==
  /\ pc[c] \in {"ready", "closing"}
  /\ uname' = [uname EXCEPT ![c] = NoName]
  /\ authed' = [authed EXCEPT ![c] = FALSE]
  /\ attempts' = [attempts EXCEPT ![c] = 0]
  /\ Goto(c, "idle")
  /\ UNCHANGED <<accounts, login>>

Next == \E c \in Conn :
  \/ \E n \in Name : Connect(c, n)
  \/ \E p \in Password : Register(c, p)
  \/ Registered(c)
  \/ \E n \in Name, p \in Password : LoginLookup(c, n, p)
  \/ \E n \in Name, p \in Password : LoginRejected(c, n, p)
  \/ UpgradeHash(c)
  \/ LoginFinish(c)
  \/ \E h \in BOOLEAN : SetProfile(c, h)
  \/ \E n \in Name : SetUsername(c, n)
  \/ \E p, q \in Password : SetPassword(c, p, q)
  \/ Disconnect(c)

Spec == Init /\ [][Next]_vars

-----------------------------------------------------------------------------

Stage == {"idle", "ready", "registered", "upgrade", "accept", "closing"}

LoginRecord == [user : Name, pw : Password, copy : Account]

\* The values the server's state ranges over; in particular loginAttempts
\* never passes the limit.
TypeOK ==
  /\ accounts \in [Name -> Account \cup {NoAccount}]
  /\ pc \in [Conn -> Stage]
  /\ uname \in [Conn -> Name \cup {NoName}]
  /\ authed \in [Conn -> BOOLEAN]
  /\ attempts \in [Conn -> 0..MaxAttempts]
  /\ login \in [Conn -> LoginRecord \cup {NoLogin}]

\* A @username is a unique address (main.go:41): no two clients of
\* `clients' ever have the same one, although three places write it.
UniqueNames ==
  \A c, d \in Conn : uname[c] = uname[d] /\ uname[c] # NoName => c = d

\* An authorised client's name has an account: the look-up of /login and
\* the setting of authed are apart, and in between other connections
\* rename accounts away and register new ones.
AuthedHasAccount ==
  \A c \in Conn : authed[c] => uname[c] \in Name /\ Exists(uname[c])

\* No command loses an account: one that leaves a name is found, unchanged,
\* under a name that had none (/setusername).
NoAccountLost ==
  [][\A n \in Name : Exists(n) /\ accounts'[n] = NoAccount =>
       \E m \in Name : ~Exists(m) /\ accounts'[m] = accounts[n]]_vars

\* Who may be writing the account of n: the client authorised under n that
\* waits for a command, or a legacy upgrade of n between its two locks.
OwnerReady(n) == \E c \in Conn : uname[c] = n /\ authed[c] /\ pc[c] = "ready"

Upgrading(n) == \E c \in Conn : login[c].user = n /\ pc[c] = "upgrade"

\* An account's password and profile change in place only by its owner or by
\* a legacy upgrade of that name, the one path on which a connection writes
\* an account that need not be its own.
ChangedByOwner ==
  [][\A n \in Name :
       Exists(n) /\ accounts'[n] \notin {accounts[n], NoAccount} =>
         OwnerReady(n) \/ Upgrading(n)]_vars

\* The server implements the directory of unique addresses.
Dir == INSTANCE Directory
         WITH Session <- Conn, Address <- Name, Nobody <- NoName,
              holds <- uname,
              members <- {c \in Conn : authed[c]},
              registered <- {n \in Name : Exists(n)}

ImplementsDirectory == Dir!DirSpec

=============================================================================
