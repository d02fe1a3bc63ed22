---------------------------- MODULE AccountStore ----------------------------
(***************************************************************************)
(* Where the accounts of the Go GUI server live: the map in memory, the    *)
(* file accounts.json and the SQLite table (server_v2/main.go, db.go),     *)
(* with crashes and restarts of the server, and the admin panel            *)
(* (admin/main.py), a second process that rewrites the same file.          *)
(*                                                                         *)
(* The server changes accounts under one mutex, one change at a time:      *)
(* memory, the file (truncated, then written), the row, and for a rename   *)
(* the deletion of the old row.  A file that is truncated or mixed of two  *)
(* writes does not parse.  An account's data are a value; renaming the     *)
(* keys of an old-format file at start is not modelled.                    *)
(***************************************************************************)
CONSTANTS Name,      \* usernames
          Value,     \* what an account holds: hash, nick, bio, hide_status
          NoAccount, \* no entry under a name
          Broken,    \* a file that does not parse
          NoOne      \* no change in progress

ASSUME NoAccountAssumption == NoAccount \notin Value

Map == [Name -> Value \cup {NoAccount}]
Contents == [acc : Map, banned : SUBSET Name]

ASSUME BrokenAssumption == Broken \notin Contents
ASSUME NoOneAssumption == NoOne \notin Name

Empty == [n \in Name |-> NoAccount]

VARIABLES mem,        \* the server's map `accounts'
          file,       \* accounts.json
          db,         \* the accounts table
          pc,         \* where the server stands
          job,        \* the change in progress: name written, name deleted
          admin,      \* the panel's request in progress
          edited,     \* history: the panel wrote since the server's last save or start
          excused,    \* history: the server started from a torn or edited file
          confirmed,  \* history: accounts as their owners were told
          cut,        \* history: names whose last change a crash cut short
          decided     \* history: the panel's deletions and bans that stand

volatile == <<mem, pc, job>>
history == <<excused, confirmed, cut>>
svars == <<mem, file, db, pc, job, admin, edited, excused, confirmed, cut, decided>>

NoJob == [put |-> NoOne, del |-> NoOne]
NoRequest == [at |-> "idle"]
NoDecision == [deleted |-> {}, banned |-> {}]

Has(m, n) == m[n] # NoAccount

\* What a write at offset 0 leaves: itself, or, over data that another
\* writer put there since both truncated the file, possibly a mixture.
Written(c) == IF file = Broken THEN {c} ELSE {c, Broken}

-----------------------------------------------------------------------------
(* The server *)

\* Fault: the change is not saved to the file.
ChangeUnsaved(n, v) ==
  /\ pc = "up"
  /\ mem' = [mem EXCEPT ![n] = v]
  /\ job' = [put |-> n, del |-> NoOne]
  /\ pc' = "row"
  /\ UNCHANGED <<file, db, admin, edited, history, decided>>

\* /register, /profile set, /setpassword and the legacy upgrade: the map and
\* the start of saveAccounts, os.WriteFile's truncation.  A crash between
\* the two is one before the command.
Change(n, v) ==
  /\ pc = "up"
  /\ mem' = [mem EXCEPT ![n] = v]
  /\ job' = [put |-> n, del |-> NoOne]
  /\ file' = Broken
  /\ pc' = "write"
  /\ decided' = IF Has(mem, n) THEN decided
                ELSE [deleted |-> decided.deleted \ {n}, banned |-> decided.banned \ {n}]
  /\ UNCHANGED <<db, admin, edited, history>>

\* Fault: a rename is not saved to the file.
RenameUnsaved(old, new) ==
  /\ pc = "up"
  /\ Has(mem, old)
  /\ ~Has(mem, new)
  /\ mem' = [mem EXCEPT ![old] = NoAccount, ![new] = mem[old]]
  /\ job' = [put |-> new, del |-> old]
  /\ pc' = "row"
  /\ UNCHANGED <<file, db, admin, edited, history, decided>>

\* /setusername.
Rename(old, new) ==
  /\ pc = "up"
  /\ Has(mem, old)
  /\ ~Has(mem, new)
  /\ mem' = [mem EXCEPT ![old] = NoAccount, ![new] = mem[old]]
  /\ job' = [put |-> new, del |-> old]
  /\ file' = Broken
  /\ pc' = "write"
  /\ decided' = [deleted |-> decided.deleted \ {old, new},
                 banned |-> decided.banned \ {old, new}]
  /\ UNCHANGED <<db, admin, edited, history>>

\* The rest of saveAccounts: the whole map, without fields that Account
\* does not have, `banned' among them.
WriteFile ==
  /\ pc = "write"
  /\ file' \in Written([acc |-> mem, banned |-> {}])
  /\ pc' = "row"
  /\ edited' = (admin.at = "write" \/ file # Broken)
  /\ UNCHANGED <<mem, db, job, admin, history, decided>>

\* The end of a change: the lock is released and the client told.
Done == /\ pc' = "up"
        /\ job' = NoJob
        /\ confirmed' = [n \in Name |-> IF n \in {job.put, job.del} THEN mem[n] ELSE confirmed[n]]
        /\ cut' = cut \ {job.put, job.del}

\* Fault: the lock is released before the old row is deleted.
SaveRowUnlocked ==
  /\ pc = "row"
  /\ db' = [db EXCEPT ![job.put] = mem[job.put]]
  /\ pc' = "up"
  /\ UNCHANGED <<mem, file, job, admin, edited, history, decided>>

\* dbSaveAccount: INSERT OR REPLACE.
SaveRow ==
  /\ pc = "row"
  /\ db' = [db EXCEPT ![job.put] = mem[job.put]]
  /\ IF job.del = NoOne THEN Done
     ELSE /\ pc' = "drop"
          /\ UNCHANGED <<job, confirmed, cut>>
  /\ UNCHANGED <<mem, file, admin, edited, excused, decided>>

\* Fault: the old row is left.
DropNothing ==
  /\ pc = "drop"
  /\ Done
  /\ UNCHANGED <<mem, file, db, admin, edited, excused, decided>>

\* dbDeleteAccount.
DropRow ==
  /\ pc = "drop"
  /\ db' = [db EXCEPT ![job.del] = NoAccount]
  /\ Done
  /\ UNCHANGED <<mem, file, admin, edited, excused, decided>>

\* The process dies: the memory is gone, the files are as they are.
Crash ==
  /\ pc # "down"
  /\ mem' = Empty
  /\ pc' = "down"
  /\ job' = NoJob
  /\ cut' = cut \cup ({job.put, job.del} \cap Name)
  /\ UNCHANGED <<file, db, admin, edited, excused, confirmed, decided>>

\* loadAccounts: a file that does not parse is an empty map.
Load == IF file = Broken THEN Empty ELSE file.acc

\* Fault: rows are not added at start.
RestartUnmigrated ==
  /\ pc = "down"
  /\ mem' = Load
  /\ pc' = "up"
  /\ excused' = (excused \/ file = Broken \/ edited)
  /\ edited' = FALSE
  /\ UNCHANGED <<file, db, job, admin, confirmed, cut, decided>>

\* main: loadAccounts, initDB, and migrateAccountsToDB's INSERT OR IGNORE.
Restart ==
  /\ pc = "down"
  /\ mem' = Load
  /\ db' = [n \in Name |-> IF Has(db, n) THEN db[n] ELSE Load[n]]
  /\ pc' = "up"
  /\ excused' = (excused \/ file = Broken \/ edited)
  /\ edited' = FALSE
  /\ UNCHANGED <<file, job, admin, confirmed, cut, decided>>

-----------------------------------------------------------------------------
(* The admin panel *)

\* load_accounts; a name that is not in the file, or a file that does not
\* parse, ends the request.
AdminRead(op, n) ==
  /\ admin.at = "idle"
  /\ file # Broken
  /\ Has(file.acc, n)
  /\ admin' = [at |-> "read", op |-> op, name |-> n, copy |-> file]
  /\ UNCHANGED <<volatile, file, db, edited, history, decided>>

\* open(ACCOUNTS_FILE, "w").
AdminTruncate ==
  /\ admin.at = "read"
  /\ admin' = [admin EXCEPT !.at = "write"]
  /\ file' = Broken
  /\ edited' = TRUE
  /\ UNCHANGED <<volatile, db, history, decided>>

\* The contents of the panel's copy after its change.
AdminResult ==
  LET n == admin.name
      c == admin.copy
  IN  CASE admin.op = "delete" -> [acc |-> [c.acc EXCEPT ![n] = NoAccount],
                                   banned |-> c.banned \ {n}]
        [] admin.op = "ban"    -> [c EXCEPT !.banned = @ \cup {n}]
        [] admin.op = "unban"  -> [c EXCEPT !.banned = @ \ {n}]

\* json.dump and the answer to the administrator.
AdminWrite ==
  /\ admin.at = "write"
  /\ file' \in Written(AdminResult)
  /\ admin' = NoRequest
  /\ edited' = TRUE
  /\ decided' = CASE admin.op = "delete" ->
                       [deleted |-> decided.deleted \cup {admin.name},
                        banned |-> decided.banned \ {admin.name}]
                  [] admin.op = "ban"    -> [decided EXCEPT !.banned = @ \cup {admin.name}]
                  [] admin.op = "unban"  -> [decided EXCEPT !.banned = @ \ {admin.name}]
  /\ UNCHANGED <<volatile, db, history>>

-----------------------------------------------------------------------------

SInit == /\ mem \in Map
         /\ file = [acc |-> mem, banned |-> {}]
         /\ db = mem
         /\ pc = "up"
         /\ job = NoJob
         /\ admin = NoRequest
         /\ edited = FALSE
         /\ excused = FALSE
         /\ confirmed = mem
         /\ cut = {}
         /\ decided = NoDecision

ServerNext ==
  \/ \E n \in Name, v \in Value : Change(n, v)
  \/ \E o, n \in Name : Rename(o, n)
  \/ WriteFile
  \/ SaveRow
  \/ DropRow
  \/ Crash
  \/ Restart

AdminNext ==
  \/ \E op \in {"delete", "ban", "unban"}, n \in Name : AdminRead(op, n)
  \/ AdminTruncate
  \/ AdminWrite

SNext == ServerNext \/ AdminNext

SSpec == SInit /\ [][SNext]_svars

-----------------------------------------------------------------------------

Request == {NoRequest} \cup
  [at : {"read", "write"}, op : {"delete", "ban", "unban"}, name : Name, copy : Contents]

\* Types, and that a change is in progress exactly inside the mutex.
STypeOK ==
  /\ mem \in Map
  /\ file \in Contents \cup {Broken}
  /\ db \in Map
  /\ pc \in {"up", "write", "row", "drop", "down"}
  /\ job \in [put : Name \cup {NoOne}, del : Name \cup {NoOne}]
  /\ pc \in {"up", "down"} <=> job = NoJob
  /\ admin \in Request
  /\ edited \in BOOLEAN /\ excused \in BOOLEAN
  /\ confirmed \in Map
  /\ cut \in SUBSET Name
  /\ decided \in [deleted : SUBSET Name, banned : SUBSET Name]

\* An account is as its owner was last told, through crashes and restarts at
\* any moment, unless a crash cut a change of it short; for a server that
\* never started from a file torn by a crash or written by the panel.  A
\* crash within os.WriteFile is outside it: the next start has lost all
\* accounts, as main.go:109 and 79 allow.
ConfirmedIsKept ==
  pc = "up" /\ ~excused => \A n \in Name \ cut : mem[n] = confirmed[n]

\* Between commands a start would load the accounts that memory holds, unless
\* the panel has written since the last save or start (main.go:109).  It holds
\* after every crash: a start from a file torn by one has an empty memory, and
\* the file stays torn, and is loaded as empty, until the first save.
FileFollowsMemory ==
  pc = "up" /\ ~edited => /\ Load = mem
                          /\ file = Broken => excused

\* Between commands every account has a row (CHANGELOG.md:44), also after a
\* crash between the file and the row and after any edit of the file.
EveryAccountHasRow ==
  pc = "up" => \A n \in Name : Has(mem, n) => Has(db, n)

\* A name given up by a confirmed rename leaves no row behind.
NoRowLeftBehind ==
  pc = "up" /\ ~excused => \A n \in Name \ cut : Has(db, n) => Has(mem, n)

\* A deletion or a ban by the administrator stands until the panel undoes
\* it or the name is given to a new account (CHANGELOG.md:56).  Promised, not
\* kept: the next save of the server undoes both.  No run checks it.
DecisionsStand ==
  pc = "up" /\ admin.at = "idle" /\ file # Broken =>
    /\ \A n \in decided.deleted : ~Has(file.acc, n)
    /\ decided.banned \subseteq file.banned

=============================================================================
