------------------------- MODULE MeshAccountsProofs -------------------------
(***************************************************************************)
(* Proofs about MeshAccounts for every set of connections, names and       *)
(* passwords: type correctness, unique names, accounts behind every        *)
(* authorised client, the two action properties, and that the server       *)
(* implements Directory.                                                   *)
(***************************************************************************)
EXTENDS MeshAccounts, TLAPS

\* What holds between the lock sections of each handler: the slot has a name
\* exactly while it is in `clients'; a handler past its look-up still has
\* the account it found, when that account is its own; below the limit
\* until closed.
StageOK ==
  \A c \in Conn :
    /\ pc[c] = "idle" <=> uname[c] = NoName
    /\ pc[c] = "registered" => Exists(uname[c])
    /\ pc[c] \in {"upgrade", "accept"} => /\ login[c] \in LoginRecord
                                          /\ login[c].user = uname[c] => Exists(uname[c])
    /\ pc[c] # "closing" => attempts[c] < MaxAttempts

IInv == TypeOK /\ UniqueNames /\ AuthedHasAccount /\ StageOK

-----------------------------------------------------------------------------

\* The records the server stores are accounts.
LEMMA NewAccountType ==
  /\ \A p \in Password : Argon2Account(p) \in Account
  /\ \A p \in Password, h \in BOOLEAN :
       [Argon2Account(p) EXCEPT !.hide = h] \in Account
  /\ \A a \in Account, h \in BOOLEAN : [a EXCEPT !.hide = h] \in Account
BY DEF Argon2Account, Account

LEMMA InitIInv == Init => IInv
BY NoNameAssumption, AttemptsAssumption
   DEF Init, IInv, TypeOK, UniqueNames, AuthedHasAccount, StageOK, Stage, NoLogin

LEMMA StepIInv == IInv /\ [Next]_vars => IInv'
<1> USE NoNameAssumption, NoAccountAssumption
    DEF IInv, TypeOK, UniqueNames, AuthedHasAccount, StageOK, Exists, Stage, Goto
<1> SUFFICES ASSUME IInv, [Next]_vars PROVE IInv'
  OBVIOUS
<1>1. ASSUME NEW c \in Conn, NEW n \in Name, Connect(c, n) PROVE IInv'
  BY <1>1, AttemptsAssumption DEF Connect, Taken
<1>2. ASSUME NEW c \in Conn, NEW p \in Password, Register(c, p) PROVE IInv'
  BY <1>2, NewAccountType DEF Register
<1>3. ASSUME NEW c \in Conn, Registered(c) PROVE IInv'
  BY <1>3 DEF Registered
<1>4. ASSUME NEW c \in Conn, NEW n \in Name, NEW p \in Password, LoginLookup(c, n, p)
      PROVE IInv'
  BY <1>4 DEF LoginLookup, Verifies, LoginRecord
<1>5. ASSUME NEW c \in Conn, NEW n \in Name, NEW p \in Password, LoginRejected(c, n, p)
      PROVE IInv'
  BY <1>5, AttemptsAssumption DEF LoginRejected
<1>6. ASSUME NEW c \in Conn, UpgradeHash(c) PROVE IInv'
  BY <1>6, NewAccountType DEF UpgradeHash, LoginRecord, Account
<1>7. ASSUME NEW c \in Conn, LoginFinish(c) PROVE IInv'
  <2>1. CASE login[c].user = uname[c]
    <3>1. uname[c] \in Name /\ Exists(uname[c])
      BY <1>7, <2>1 DEF LoginFinish, LoginRecord
    <3>2. /\ authed' = [authed EXCEPT ![c] = TRUE]
          /\ attempts' = [attempts EXCEPT ![c] = 0]
          /\ login' = [login EXCEPT ![c] = NoLogin]
          /\ pc' = [pc EXCEPT ![c] = "ready"]
          /\ UNCHANGED <<accounts, uname>>
      BY <1>7, <2>1 DEF LoginFinish
    <3>3. TypeOK'
      BY <3>2, AttemptsAssumption
    <3>4. UniqueNames' /\ AuthedHasAccount'
      BY <3>1, <3>2
    <3>5. StageOK'
      BY <3>1, <3>2, AttemptsAssumption
    <3>6. QED
      BY <3>3, <3>4, <3>5
  <2>2. CASE login[c].user # uname[c]
    BY <1>7, <2>2 DEF LoginFinish
  <2>3. QED
    BY <2>1, <2>2
<1>8. ASSUME NEW c \in Conn, NEW h \in BOOLEAN, SetProfile(c, h) PROVE IInv'
  BY <1>8, NewAccountType DEF SetProfile
<1>9. ASSUME NEW c \in Conn, NEW n \in Name, SetUsername(c, n) PROVE IInv'
  BY <1>9 DEF SetUsername, Taken
<1>10. ASSUME NEW c \in Conn, NEW p \in Password, NEW q \in Password, SetPassword(c, p, q)
       PROVE IInv'
  BY <1>10, NewAccountType DEF SetPassword, Verifies, Account
<1>11. ASSUME NEW c \in Conn, Disconnect(c) PROVE IInv'
  BY <1>11, AttemptsAssumption DEF Disconnect
<1>12. CASE UNCHANGED vars
  BY <1>12 DEF vars
<1>13. QED
  BY <1>1, <1>2, <1>3, <1>4, <1>5, <1>6, <1>7, <1>8, <1>9, <1>10, <1>11, <1>12 DEF Next

\* The inductive invariant holds in every reachable state.
THEOREM Invariant == Spec => []IInv
BY InitIInv, StepIInv, PTL DEF Spec

\* TypeOK, UniqueNames and AuthedHasAccount, for every server: the names
\* of the connected clients are unique addresses, and whoever is authorised
\* has an account under its present name.
THEOREM Safety == Spec => [](TypeOK /\ UniqueNames /\ AuthedHasAccount)
<1>1. IInv => TypeOK /\ UniqueNames /\ AuthedHasAccount
  BY DEF IInv
<1>2. QED
  BY <1>1, Invariant, PTL

-----------------------------------------------------------------------------

\* Only /setusername takes an account from a name, and it puts it,
\* unchanged, under one that had none.
LEMMA StepNoAccountLost ==
  ASSUME IInv, [Next]_vars, NEW n \in Name, Exists(n), accounts'[n] = NoAccount
  PROVE  \E m \in Name : ~Exists(m) /\ accounts'[m] = accounts[n]
<1> USE NoAccountAssumption DEF IInv, TypeOK, AuthedHasAccount, Exists
<1>1. CASE \E c \in Conn, m \in Name : SetUsername(c, m)
  <2>1. PICK c \in Conn, m \in Name : SetUsername(c, m)
    BY <1>1
  <2>2. n = uname[c]
    BY <2>1 DEF SetUsername
  <2>3. ~Exists(m) /\ accounts'[m] = accounts[n]
    BY <2>1, <2>2 DEF SetUsername
  <2>4. QED
    BY <2>3
<1>2. CASE ~\E c \in Conn, m \in Name : SetUsername(c, m)
  <2>1. accounts' \in [Name -> Account \cup {NoAccount}]
    BY StepIInv
  <2>2. ASSUME NEW c \in Conn, NEW p \in Password, Register(c, p) PROVE FALSE
    BY <2>2, NewAccountType DEF Register
  <2>3. ASSUME NEW c \in Conn, UpgradeHash(c) PROVE FALSE
    BY <2>3, NewAccountType DEF UpgradeHash, StageOK, LoginRecord, Account
  <2>4. ASSUME NEW c \in Conn, NEW h \in BOOLEAN, SetProfile(c, h) PROVE FALSE
    BY <2>4, NewAccountType DEF SetProfile
  <2>5. ASSUME NEW c \in Conn, NEW p \in Password, NEW q \in Password,
               SetPassword(c, p, q)
        PROVE  FALSE
    BY <2>5, NewAccountType DEF SetPassword, Verifies, Account
  <2>6. accounts' = accounts
    BY <1>2, <2>2, <2>3, <2>4, <2>5
       DEF Next, vars, Connect, Registered, LoginLookup, LoginRejected,
           LoginFinish, Disconnect
  <2>7. QED
    BY <2>6
<1>3. QED
  BY <1>1, <1>2

\* The action property of the same name, for every server.
THEOREM AccountsAreKept == Spec => NoAccountLost
<1>1. IInv /\ [Next]_vars =>
        [\A n \in Name : Exists(n) /\ accounts'[n] = NoAccount =>
           \E m \in Name : ~Exists(m) /\ accounts'[m] = accounts[n]]_vars
  BY StepNoAccountLost
<1>2. QED
  BY <1>1, Invariant, PTL DEF Spec, NoAccountLost

\* An account that changes in place does so in a command of its owner or in
\* the upgrade of its legacy hash.
LEMMA StepChangedByOwner ==
  ASSUME IInv, [Next]_vars, NEW n \in Name, Exists(n),
         accounts'[n] \notin {accounts[n], NoAccount}
  PROVE  OwnerReady(n) \/ Upgrading(n)
<1> USE NoAccountAssumption DEF IInv, TypeOK, Exists, OwnerReady, Upgrading
<1>1. ASSUME NEW c \in Conn, NEW p \in Password, Register(c, p) PROVE FALSE
  BY <1>1 DEF Register
<1>2. ASSUME NEW c \in Conn, UpgradeHash(c)
      PROVE  Upgrading(n)
  BY <1>2 DEF UpgradeHash
<1>3. ASSUME NEW c \in Conn, NEW h \in BOOLEAN, SetProfile(c, h)
      PROVE  OwnerReady(n)
  BY <1>3 DEF SetProfile
<1>4. ASSUME NEW c \in Conn, NEW m \in Name, SetUsername(c, m) PROVE FALSE
  BY <1>4 DEF SetUsername
<1>5. ASSUME NEW c \in Conn, NEW p \in Password, NEW q \in Password,
             SetPassword(c, p, q)
      PROVE  OwnerReady(n)
  BY <1>5 DEF SetPassword
<1>6. QED
  BY <1>1, <1>2, <1>3, <1>4, <1>5
     DEF Next, vars, Connect, Registered, LoginLookup, LoginRejected,
         LoginFinish, Disconnect

\* The action property of the same name, for every server.
THEOREM AccountsChangeByOwner == Spec => ChangedByOwner
<1>1. IInv /\ [Next]_vars =>
        [\A n \in Name :
           Exists(n) /\ accounts'[n] \notin {accounts[n], NoAccount} =>
             OwnerReady(n) \/ Upgrading(n)]_vars
  BY StepChangedByOwner
<1>2. QED
  BY <1>1, Invariant, PTL DEF Spec, ChangedByOwner

-----------------------------------------------------------------------------

\* Each step of the server is a step of the directory or leaves it alone.
LEMMA StepDirectory == IInv /\ [Next]_vars => [Dir!DirNext]_(Dir!dvars)
<1> SUFFICES ASSUME IInv, [Next]_vars PROVE [Dir!DirNext]_(Dir!dvars)
  OBVIOUS
<1> USE NoNameAssumption, NoAccountAssumption
<1>1. ASSUME NEW c \in Conn, NEW n \in Name, Connect(c, n) PROVE [Dir!DirNext]_(Dir!dvars)
  <2>1. Dir!Claim(c, n)
    BY <1>1 DEF IInv, TypeOK, AuthedHasAccount, StageOK, Exists, Connect, Taken,
       Dir!Claim, Dir!Free
  <2>2. QED
    BY <2>1 DEF Dir!DirNext
<1>2. ASSUME NEW c \in Conn, NEW p \in Password, Register(c, p) PROVE [Dir!DirNext]_(Dir!dvars)
  <2>1. uname[c] \in Name /\ Dir!Register(uname[c])
    BY <1>2, NewAccountType DEF IInv, TypeOK, AuthedHasAccount, StageOK, Exists, Register,
       Dir!Register
  <2>2. QED
    BY <2>1 DEF Dir!DirNext
<1>3. ASSUME NEW c \in Conn, Registered(c) PROVE [Dir!DirNext]_(Dir!dvars)
  <2>1. Dir!Admit(c)
    BY <1>3 DEF IInv, TypeOK, AuthedHasAccount, StageOK, Exists, Registered, Dir!Admit
  <2>2. QED
    BY <2>1 DEF Dir!DirNext
<1>4. ASSUME NEW c \in Conn, UpgradeHash(c) PROVE [Dir!DirNext]_(Dir!dvars)
  <2>1. login[c].user \in Name /\ Dir!Register(login[c].user)
    BY <1>4, NewAccountType DEF IInv, TypeOK, AuthedHasAccount, StageOK, Exists, UpgradeHash,
       LoginRecord, Account, Dir!Register
  <2>2. QED
    BY <2>1 DEF Dir!DirNext
<1>5. ASSUME NEW c \in Conn, LoginFinish(c), login[c].user = uname[c] PROVE [Dir!DirNext]_(Dir!dvars)
  <2>1. Dir!Admit(c)
    BY <1>5 DEF IInv, TypeOK, AuthedHasAccount, StageOK, Exists, LoginFinish,
       LoginRecord, Dir!Admit
  <2>2. QED
    BY <2>1 DEF Dir!DirNext
<1>6. ASSUME NEW c \in Conn, NEW n \in Name, SetUsername(c, n) PROVE [Dir!DirNext]_(Dir!dvars)
  <2>1. Dir!Move(c, n)
    BY <1>6 DEF IInv, TypeOK, AuthedHasAccount, StageOK, Exists, SetUsername, Taken,
       Dir!Move, Dir!Free
  <2>2. QED
    BY <2>1 DEF Dir!DirNext
<1>7. ASSUME NEW c \in Conn, Disconnect(c) PROVE [Dir!DirNext]_(Dir!dvars)
  <2>1. Dir!Release(c)
    BY <1>7 DEF IInv, TypeOK, AuthedHasAccount, StageOK, Exists, Disconnect, Dir!Release
  <2>2. QED
    BY <2>1 DEF Dir!DirNext
<1>8. ASSUME NEW c \in Conn, NEW h \in BOOLEAN, SetProfile(c, h) PROVE [Dir!DirNext]_(Dir!dvars)
  <2>1. UNCHANGED Dir!dvars
    BY <1>8, NewAccountType DEF IInv, TypeOK, AuthedHasAccount, StageOK, Exists, SetProfile, Dir!dvars
  <2>2. QED
    BY <2>1
<1>9. ASSUME NEW c \in Conn, NEW p \in Password, NEW q \in Password,
             SetPassword(c, p, q)
      PROVE  [Dir!DirNext]_(Dir!dvars)
  <2>1. UNCHANGED Dir!dvars
    BY <1>9, NewAccountType DEF IInv, TypeOK, AuthedHasAccount, StageOK, Exists, SetPassword, Verifies,
       Account, Dir!dvars
  <2>2. QED
    BY <2>1
<1>10. ASSUME NEW c \in Conn, LoginFinish(c), login[c].user # uname[c]
       PROVE  [Dir!DirNext]_(Dir!dvars)
  BY <1>10 DEF LoginFinish, Dir!dvars, Exists
<1>11. ASSUME NEW c \in Conn, NEW n \in Name, NEW p \in Password,
              LoginLookup(c, n, p) \/ LoginRejected(c, n, p)
       PROVE  [Dir!DirNext]_(Dir!dvars)
  BY <1>11 DEF LoginLookup, LoginRejected, Dir!dvars, Exists
<1>12. CASE UNCHANGED vars
  BY <1>12 DEF vars, Dir!dvars, Exists
<1>13. QED
  BY <1>1, <1>2, <1>3, <1>4, <1>5, <1>6, <1>7, <1>8, <1>9, <1>10, <1>11, <1>12
     DEF Next

\* The server implements the directory of unique addresses.
THEOREM ServerImplementsDirectory == Spec => ImplementsDirectory
<1>1. Init => Dir!DirInit
  BY DEF Init, Dir!DirInit
<1>2. QED
  BY <1>1, StepDirectory, Invariant, PTL DEF Spec, ImplementsDirectory, Dir!DirSpec

=============================================================================
