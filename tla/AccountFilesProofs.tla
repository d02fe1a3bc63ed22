------------------------- MODULE AccountFilesProofs -------------------------
(***************************************************************************)
(* Proofs about the two account files, the server's and the GUI's.         *)
(*                                                                         *)
(* AccountStore, for every set of names and values, with crashes and panel *)
(* requests at any moment: type correctness and the four relations between *)
(* memory, file and database.                                              *)
(*                                                                         *)
(* QuickLogin, for every set of users, servers and passwords and every     *)
(* length of the list: the list is the file's, holds no account twice, and *)
(* its accounts open.  Its proofs follow those of AccountStore.            *)
(***************************************************************************)
EXTENDS AccountStore, QuickLogin, FiniteSetTheorems, TLAPS

Busy == pc \in {"write", "row", "drop"}

\* The names of the change in progress.
InJob == {job.put, job.del}

\* A change in progress has put an account under its first name and taken
\* the one under its second.
JobOK == Busy => /\ job.put \in Name
                 /\ Has(mem, job.put)
                 /\ job.del # NoOne => job.del \in Name /\ ~Has(mem, job.del)
                 /\ pc = "drop" => job.del # NoOne

\* The file is what the server wrote last or started from, or the panel has
\* been at it.
FileOK ==
  /\ pc \in {"up", "row", "drop"} /\ ~edited => Load = mem /\ (file = Broken => excused)
  /\ pc = "write" /\ ~edited => file = Broken

\* While no server started from a bad file, memory holds what was confirmed
\* and has an account for every row, but for the names of the change in
\* progress and of changes cut short; while the server is down, the file
\* it will start from does.
MemoryOK ==
  pc # "down" /\ ~excused =>
    \A n \in Name \ (cut \cup InJob) :
      mem[n] = confirmed[n] /\ (Has(db, n) => Has(mem, n))

DownOK ==
  pc = "down" /\ ~excused /\ ~edited /\ file # Broken =>
    \A n \in Name \ cut :
      file.acc[n] = confirmed[n] /\ (Has(db, n) => Has(file.acc, n))

\* Every account but the one being changed has a row.
RowsOK ==
  /\ pc \in {"up", "drop"} => \A n \in Name : Has(mem, n) => Has(db, n)
  /\ Busy => \A n \in Name \ {job.put} : Has(mem, n) => Has(db, n)

SInv == STypeOK /\ JobOK /\ FileOK /\ MemoryOK /\ DownOK /\ RowsOK

-----------------------------------------------------------------------------

LEMMA InitSInv == SInit => SInv
<1> SUFFICES ASSUME SInit PROVE SInv
  OBVIOUS
<1>1. mem \in Map /\ file \in Contents /\ file # Broken /\ file.acc = mem
  BY BrokenAssumption DEF SInit, Contents
<1>2. STypeOK
  BY <1>1 DEF SInit, STypeOK, NoJob, NoRequest, Request, NoDecision
<1> QED
  BY <1>1, <1>2 DEF SInit, SInv, JobOK, FileOK, Load, MemoryOK, DownOK, RowsOK, Busy, InJob, Has

\* The contents the server writes.
LEMMA WrittenType ==
  ASSUME STypeOK, NEW c \in Contents, file' \in Written(c)
  PROVE  /\ file' \in Contents \cup {Broken}
         /\ file = Broken => file' = c
BY DEF Written

LEMMA ChangeSInv ==
  ASSUME SInv, NEW n \in Name, NEW v \in Value, Change(n, v) PROVE SInv'
<1> USE DEF SInv, Change
<1>1. mem' \in Map /\ Has(mem', n) /\ \A m \in Name \ {n} : mem'[m] = mem[m]
  BY NoAccountAssumption DEF STypeOK, Map, Has
<1>2. job' = [put |-> n, del |-> NoOne] /\ pc' = "write" /\ file' = Broken
  OBVIOUS
<1>3. STypeOK'
  BY <1>1, <1>2, NoOneAssumption DEF STypeOK, history, NoJob
<1>4. JobOK' /\ FileOK' /\ DownOK'
  BY <1>1, <1>2 DEF JobOK, FileOK, Load, DownOK, Busy
<1>5. MemoryOK' /\ RowsOK'
  BY <1>1, <1>2, NoOneAssumption DEF MemoryOK, RowsOK, InJob, Busy, Has, history, STypeOK, NoJob
<1> QED
  BY <1>3, <1>4, <1>5

LEMMA RenameSInv ==
  ASSUME SInv, NEW old \in Name, NEW new \in Name, Rename(old, new) PROVE SInv'
<1> USE DEF SInv, Rename
<1>1. /\ old # new
      /\ mem' \in Map
      /\ Has(mem', new) /\ ~Has(mem', old)
      /\ \A m \in Name \ {old, new} : mem'[m] = mem[m]
  BY DEF STypeOK, Map, Has
<1>2. job' = [put |-> new, del |-> old] /\ pc' = "write" /\ file' = Broken
  OBVIOUS
<1>3. STypeOK'
  BY <1>1, <1>2, NoOneAssumption DEF STypeOK, history, NoJob
<1>4. JobOK' /\ FileOK' /\ DownOK'
  BY <1>1, <1>2 DEF JobOK, FileOK, Load, DownOK, Busy
<1>5. InJob = {NoOne} /\ InJob' = {new, old}
  BY <1>2 DEF InJob, STypeOK, NoJob
<1>6. MemoryOK'
  <2> SUFFICES ASSUME ~excused, NEW n \in Name \ (cut \cup {new, old})
               PROVE  mem'[n] = confirmed[n] /\ (Has(db, n) => Has(mem', n))
    BY <1>5 DEF MemoryOK, history, Has
  <2>1. mem[n] = confirmed[n] /\ (Has(db, n) => Has(mem, n))
    BY <1>5, NoOneAssumption DEF MemoryOK
  <2> QED
    BY <1>1, <2>1 DEF Has
<1>7. RowsOK'
  <2>1. \A m \in Name : Has(mem, m) => Has(db, m)
    BY DEF RowsOK
  <2>2. pc' = "write" /\ job'.put = new /\ db' = db
    BY <1>2
  <2> HIDE DEF Rename, SInv
  <2> QED
    BY <1>1, <2>1, <2>2 DEF RowsOK, Has
<1> QED
  BY <1>3, <1>4, <1>6, <1>7

LEMMA WriteFileSInv ==
  ASSUME SInv, WriteFile PROVE SInv'
<1> USE DEF SInv, WriteFile
<1> DEFINE c == [acc |-> mem, banned |-> {}]
<1>1. c \in Contents /\ c # Broken
  BY BrokenAssumption DEF STypeOK, Contents
<1>2. file' \in Contents \cup {Broken} /\ (file = Broken => file' = c)
  BY <1>1, WrittenType
<1>3. STypeOK'
  BY <1>2 DEF STypeOK, history, NoJob
<1>4. FileOK'
  <2>1. ~edited' => file' = c
    BY <1>2
  <2> QED
    BY <1>1, <2>1 DEF FileOK, Load, history
<1>5. JobOK' /\ MemoryOK' /\ DownOK' /\ RowsOK'
  BY DEF JobOK, MemoryOK, DownOK, RowsOK, InJob, Busy, history, Has
<1> QED
  BY <1>3, <1>4, <1>5

\* The end of a change confirms what memory holds for its names.
LEMMA DoneSInv ==
  ASSUME SInv, pc \in {"row", "drop"}, Done,
         UNCHANGED <<mem, file, admin, edited, excused, decided>>,
         db' \in Map,
         \A n \in Name : Has(mem, n) => Has(db', n),
         \A n \in Name : Has(db', n) => Has(db, n) \/ Has(mem, n),
         job.del # NoOne => ~Has(db', job.del)
  PROVE  SInv'
<1> USE DEF SInv, Done
<1>1. confirmed' \in Map
  BY DEF STypeOK, Map
<1>2. STypeOK'
  BY <1>1 DEF STypeOK, NoJob
<1>3. InJob' = {NoOne}
  BY DEF InJob, NoJob
<1>4. MemoryOK'
  <2> SUFFICES ASSUME ~excused, NEW n \in Name \ cut'
               PROVE  mem[n] = confirmed'[n] /\ (Has(db', n) => Has(mem, n))
    BY <1>3 DEF MemoryOK, Has
  <2>1. CASE n \in InJob
    <3>1. confirmed'[n] = mem[n]
      BY <2>1 DEF InJob
    <3>2. Has(db', n) => Has(mem, n)
      BY <2>1, NoOneAssumption DEF InJob, JobOK, Busy
    <3> QED
      BY <3>1, <3>2
  <2>2. CASE n \notin InJob
    <3>1. n \notin cut /\ confirmed'[n] = confirmed[n]
      BY <2>2 DEF InJob
    <3> QED
      BY <2>2, <3>1 DEF MemoryOK
  <2> QED
    BY <2>1, <2>2
<1>5. JobOK' /\ FileOK' /\ DownOK' /\ RowsOK'
  BY DEF JobOK, FileOK, Load, DownOK, RowsOK, Busy, Has
<1> QED
  BY <1>2, <1>4, <1>5

LEMMA SaveRowSInv ==
  ASSUME SInv, SaveRow PROVE SInv'
<1> USE DEF SInv, SaveRow
<1>1. /\ job.put \in Name /\ Has(mem, job.put)
      /\ job.del # NoOne => job.del \in Name /\ ~Has(mem, job.del)
  BY DEF JobOK, Busy
<1>2. /\ db' \in Map
      /\ Has(db', job.put)
      /\ \A n \in Name \ {job.put} : db'[n] = db[n]
  BY <1>1 DEF STypeOK, Map, Has
<1>3. \A n \in Name : Has(mem, n) => Has(db', n)
  BY <1>1, <1>2 DEF RowsOK, Busy, Has
<1>4. \A n \in Name : Has(db', n) => Has(db, n) \/ Has(mem, n)
  BY <1>1, <1>2 DEF Has
<1>5. CASE job.del = NoOne
  BY <1>2, <1>3, <1>4, <1>5, DoneSInv
<1>6. CASE job.del # NoOne
  <2>1. pc' = "drop" /\ UNCHANGED <<mem, file, job, admin, edited, excused, confirmed, cut, decided>>
    BY <1>6
  <2>2. STypeOK'
    BY <1>2, <2>1 DEF STypeOK, NoJob
  <2>3. JobOK' /\ FileOK' /\ DownOK'
    BY <1>1, <1>6, <2>1 DEF JobOK, FileOK, Load, DownOK, Busy, Has
  <2>4. MemoryOK'
    BY <1>1, <1>2, <2>1 DEF MemoryOK, InJob, Has
  <2>5. RowsOK'
    BY <1>3, <2>1 DEF RowsOK, Busy, Has
  <2> QED
    BY <2>2, <2>3, <2>4, <2>5
<1> QED
  BY <1>5, <1>6

LEMMA DropRowSInv ==
  ASSUME SInv, DropRow PROVE SInv'
<1> USE DEF SInv, DropRow
<1>1. job.del \in Name /\ ~Has(mem, job.del)
  BY DEF JobOK, Busy
<1>2. /\ db' \in Map
      /\ ~Has(db', job.del)
      /\ \A n \in Name \ {job.del} : db'[n] = db[n]
  BY <1>1 DEF STypeOK, Map, Has
<1>3. \A n \in Name : Has(mem, n) => Has(db', n)
  BY <1>1, <1>2 DEF RowsOK, Has
<1>4. \A n \in Name : Has(db', n) => Has(db, n) \/ Has(mem, n)
  BY <1>2 DEF Has
<1> QED
  BY <1>2, <1>3, <1>4, DoneSInv

\* A crash leaves the names of the change in progress to chance.
LEMMA CrashSInv ==
  ASSUME SInv, Crash PROVE SInv'
<1> USE DEF SInv, Crash
<1>1. STypeOK'
  BY DEF STypeOK, Empty, Map, NoJob
<1>2. DownOK'
  <2> SUFFICES ASSUME ~excused, ~edited, file # Broken, NEW n \in Name \ cut'
               PROVE  file.acc[n] = confirmed[n] /\ (Has(db, n) => Has(file.acc, n))
    BY DEF DownOK, Has
  <2>1. pc # "write"
    BY DEF FileOK, Load
  <2>2. file.acc = mem
    BY <2>1 DEF FileOK, Load, STypeOK
  <2>3. n \notin cut \cup InJob
    BY DEF InJob
  <2> QED
    BY <2>2, <2>3 DEF MemoryOK
<1>3. JobOK' /\ FileOK' /\ MemoryOK' /\ RowsOK'
  BY DEF JobOK, FileOK, Load, MemoryOK, RowsOK, Busy
<1> QED
  BY <1>1, <1>2, <1>3

LEMMA RestartSInv ==
  ASSUME SInv, Restart PROVE SInv'
<1> USE DEF SInv, Restart
<1>1. Load \in Map
  BY DEF Load, Empty, Map, STypeOK, Contents
<1>2. db' \in Map
  BY <1>1 DEF STypeOK, Map
<1>3. job = NoJob
  BY DEF STypeOK
<1>4. STypeOK'
  BY <1>1, <1>2, <1>3 DEF STypeOK
<1>5. FileOK'
  BY DEF FileOK, Load
<1>6. MemoryOK'
  <2> SUFFICES ASSUME ~excused', NEW n \in Name \ cut
               PROVE  mem'[n] = confirmed[n] /\ (Has(db', n) => Has(mem', n))
    BY DEF MemoryOK, Has
  <2>1. ~excused /\ ~edited /\ file # Broken /\ mem' = file.acc
    BY DEF Load, STypeOK
  <2>2. Has(db', n) => Has(db, n) \/ Has(mem', n)
    BY DEF Has
  <2> QED
    BY <2>1, <2>2 DEF DownOK
<1>7. RowsOK'
  BY DEF RowsOK, Busy, Has
<1> QED
  BY <1>4, <1>5, <1>6, <1>7 DEF JobOK, DownOK, Busy

-----------------------------------------------------------------------------

\* The panel touches only the file, and marks it edited.
LEMMA AdminSInv ==
  ASSUME SInv, UNCHANGED <<volatile, db, history>>, STypeOK',
         edited' \/ (edited' = edited /\ file' = file)
  PROVE  SInv'
<1> USE DEF SInv, volatile, history
<1>1. FileOK' /\ DownOK'
  BY DEF FileOK, Load, DownOK, STypeOK
<1> QED
  BY <1>1 DEF JobOK, MemoryOK, RowsOK, Busy, InJob

LEMMA AdminReadSInv ==
  ASSUME SInv, NEW op \in {"delete", "ban", "unban"}, NEW n \in Name, AdminRead(op, n)
  PROVE  SInv'
<1>1. admin' \in Request
  BY DEF AdminRead, SInv, STypeOK, Request
<1>2. STypeOK'
  BY <1>1 DEF AdminRead, SInv, STypeOK, volatile, history, NoJob
<1> QED
  BY <1>2, AdminSInv DEF AdminRead

LEMMA AdminTruncateSInv ==
  ASSUME SInv, AdminTruncate PROVE SInv'
<1>1. admin' \in Request
  BY DEF AdminTruncate, SInv, STypeOK, Request, NoRequest
<1>2. STypeOK'
  BY <1>1 DEF AdminTruncate, SInv, STypeOK, volatile, history, NoJob
<1> QED
  BY <1>2, AdminSInv DEF AdminTruncate

LEMMA AdminWriteSInv ==
  ASSUME SInv, AdminWrite PROVE SInv'
<1> USE DEF AdminWrite, SInv
<1>1. /\ admin.op \in {"delete", "ban", "unban"} /\ admin.name \in Name
      /\ admin.copy \in Contents
  BY DEF STypeOK, Request, NoRequest
<1>2. AdminResult \in Contents
  <2>1. CASE admin.op = "delete"
    BY <1>1, <2>1 DEF AdminResult, Contents, Map
  <2>2. CASE admin.op = "ban"
    BY <1>1, <2>2 DEF AdminResult, Contents
  <2>3. CASE admin.op = "unban"
    BY <1>1, <2>3 DEF AdminResult, Contents
  <2> QED
    BY <1>1, <2>1, <2>2, <2>3
<1>3. file' \in Contents \cup {Broken}
  BY <1>2, WrittenType
<1>4. decided' \in [deleted : SUBSET Name, banned : SUBSET Name]
  BY <1>1 DEF STypeOK
<1>5. STypeOK'
  BY <1>3, <1>4 DEF STypeOK, volatile, history, NoJob, Request
<1> QED
  BY <1>5, AdminSInv

LEMMA StepSInv == SInv /\ [SNext]_svars => SInv'
<1> SUFFICES ASSUME SInv, [SNext]_svars PROVE SInv'
  OBVIOUS
<1>1. CASE UNCHANGED svars
  BY <1>1 DEF svars, SInv, STypeOK, NoJob, JobOK, FileOK, Load, MemoryOK, DownOK, RowsOK, Busy, InJob
<1>2. CASE ServerNext
  BY <1>2, ChangeSInv, RenameSInv, WriteFileSInv, SaveRowSInv, DropRowSInv, CrashSInv,
     RestartSInv DEF ServerNext
<1>3. CASE AdminNext
  BY <1>3, AdminReadSInv, AdminTruncateSInv, AdminWriteSInv DEF AdminNext
<1> QED
  BY <1>1, <1>2, <1>3 DEF SNext

\* Every variable has its type and a change is in progress exactly inside
\* the mutex.
THEOREM StoreTypes == SSpec => []STypeOK
<1>1. SInv => STypeOK
  BY DEF SInv
<1> QED
  BY <1>1, InitSInv, StepSInv, PTL DEF SSpec

\* What owners were told survives crashes and restarts, but for changes cut
\* short and files torn or edited (main.go:109, 78).
THEOREM ConfirmedSurvives == SSpec => []ConfirmedIsKept
<1>1. ASSUME SInv, pc = "up", ~excused, NEW n \in Name \ cut
      PROVE  mem[n] = confirmed[n]
  <2>1. InJob = {NoOne}
    BY <1>1 DEF SInv, STypeOK, InJob, NoJob
  <2> QED
    BY <1>1, <2>1, NoOneAssumption DEF SInv, MemoryOK
<1>2. SInv => ConfirmedIsKept
  BY <1>1 DEF ConfirmedIsKept
<1> QED
  BY <1>2, InitSInv, StepSInv, PTL DEF SSpec

\* Between commands a start would load what memory holds, after any crash and
\* unless the panel wrote since the last save or start (main.go:109, 78).
THEOREM FileAgrees == SSpec => []FileFollowsMemory
<1>1. SInv => FileFollowsMemory
  BY DEF SInv, FileOK, Load, FileFollowsMemory
<1> QED
  BY <1>1, InitSInv, StepSInv, PTL DEF SSpec

\* Every account has a row and no renamed one leaves its row (db.go:51, 73, 88).
THEOREM RowsMatchAccounts == SSpec => [](EveryAccountHasRow /\ NoRowLeftBehind)
<1>1. SInv => EveryAccountHasRow /\ NoRowLeftBehind
  BY NoOneAssumption DEF SInv, STypeOK, RowsOK, MemoryOK, EveryAccountHasRow, NoRowLeftBehind,
     InJob, NoJob
<1> QED
  BY <1>1, InitSInv, StepSInv, PTL DEF SSpec

-----------------------------------------------------------------------------

\* No account twice.
Unique(s) == \A i, j \in 1 .. Len(s) : Of(s[i]) = Of(s[j]) => i = j

\* q is s but for place m.
Skips(s, m, q) ==
  /\ q \in Seq(Entry) /\ Len(q) = Len(s) - 1
  /\ \A k \in 1 .. Len(q) : q[k] = s[IF k < m THEN k ELSE k + 1]

LEMMA SkipsUnique ==
  ASSUME NEW s \in Seq(Entry), Unique(s), NEW m \in 1 .. Len(s), NEW q, Skips(s, m, q)
  PROVE  /\ Unique(q)
         /\ \A k \in 1 .. Len(q) : /\ \E i \in 1 .. Len(s) : q[k] = s[i]
                                   /\ Of(q[k]) # Of(s[m])
<1>1. Len(s) \in Nat /\ Len(q) = Len(s) - 1 /\ m \in 1 .. Len(s)
  BY DEF Skips
<1>2. ASSUME NEW k \in 1 .. Len(q)
      PROVE  \E i \in 1 .. Len(s) : q[k] = s[i] /\ i = (IF k < m THEN k ELSE k + 1) /\ i # m
  <2>1. PICK i : i = IF k < m THEN k ELSE k + 1
    OBVIOUS
  <2>2. i \in 1 .. Len(s) /\ i # m
    BY <1>1, <2>1
  <2> QED
    BY <2>1, <2>2 DEF Skips
<1>3. ASSUME NEW k \in 1 .. Len(q), NEW l \in 1 .. Len(q), Of(q[k]) = Of(q[l])
      PROVE  k = l
  <2>1. PICK i \in 1 .. Len(s) : q[k] = s[i] /\ i = (IF k < m THEN k ELSE k + 1) /\ i # m
    BY <1>2
  <2>2. PICK j \in 1 .. Len(s) : q[l] = s[j] /\ j = (IF l < m THEN l ELSE l + 1) /\ j # m
    BY <1>2
  <2>3. i = j
    BY <1>3, <2>1, <2>2 DEF Unique
  <2> QED
    BY <1>1, <2>1, <2>2, <2>3
<1>4. ASSUME NEW k \in 1 .. Len(q)
      PROVE  (\E i \in 1 .. Len(s) : q[k] = s[i]) /\ Of(q[k]) # Of(s[m])
  BY <1>2 DEF Unique
<1> QED
  BY <1>3, <1>4 DEF Unique

\* Two lists, one after the other.
LEMMA Joined ==
  ASSUME NEW S, NEW a \in Seq(S), NEW b \in Seq(S)
  PROVE  /\ a \o b \in Seq(S) /\ Len(a \o b) = Len(a) + Len(b)
         /\ \A k \in 1 .. Len(a \o b) : k <= Len(a) => (a \o b)[k] = a[k]
         /\ \A k \in 1 .. Len(a \o b) : ~(k <= Len(a)) => (a \o b)[k] = b[k - Len(a)]
  OBVIOUS

LEMMA RemoveAtSkips ==
  ASSUME NEW s \in Seq(Entry), NEW m \in 1 .. Len(s)
  PROVE  Skips(s, m, RemoveAt(s, m))
<1>1. PICK a, b, q, n : /\ a = SubSeq(s, 1, m - 1) /\ b = SubSeq(s, m + 1, Len(s))
                       /\ q = RemoveAt(s, m) /\ n = Len(s)
  OBVIOUS
<1>2. n \in Nat /\ m \in 1 .. n
  BY <1>1
<1>3. /\ a \in Seq(Entry) /\ Len(a) = m - 1
      /\ \A k \in 1 .. m - 1 : a[k] = s[k]
  BY <1>1, <1>2
<1>4. /\ b \in Seq(Entry) /\ Len(b) = n - m
      /\ \A k \in 1 .. n - m : b[k] = s[m + k]
  BY <1>1, <1>2
<1>5. q = a \o b
  BY <1>1 DEF RemoveAt
<1>6. /\ q \in Seq(Entry) /\ Len(q) = Len(a) + Len(b)
      /\ \A k \in 1 .. Len(q) : k <= Len(a) => q[k] = a[k]
      /\ \A k \in 1 .. Len(q) : ~(k <= Len(a)) => q[k] = b[k - Len(a)]
  <2>1. a \in Seq(Entry) /\ b \in Seq(Entry)
    BY <1>3, <1>4
  <2> QED
    BY <1>5, <2>1, Joined
<1>7. Len(q) = n - 1
  BY <1>2, <1>3, <1>4, <1>6
<1>8. ASSUME NEW k \in 1 .. Len(q)
      PROVE  q[k] = s[IF k < m THEN k ELSE k + 1]
  <2>1. CASE k < m
    <3>1. k \in 1 .. m - 1 /\ k <= Len(a)
      BY <1>2, <1>3, <1>7, <2>1
    <3>2. q[k] = a[k]
      BY <1>6, <3>1
    <3> QED
      BY <1>3, <2>1, <3>1, <3>2
  <2>2. CASE ~(k < m)
    <3>1. k - (m - 1) \in 1 .. n - m /\ m + (k - (m - 1)) = k + 1 /\ ~(k <= Len(a))
      BY <1>2, <1>3, <1>7, <2>2
    <3>2. b[k - (m - 1)] = s[m + (k - (m - 1))]
      BY <1>4, <3>1
    <3>3. q[k] = b[k - (m - 1)]
      BY <1>3, <1>6, <3>1
    <3> QED
      BY <2>2, <3>1, <3>2, <3>3
  <2> QED
    BY <2>1, <2>2
<1> QED
  BY <1>1, <1>6, <1>7, <1>8 DEF Skips

\* The places below i in 1 .. n, and those but m.
LEMMA Below ==
  ASSUME NEW n \in Nat, NEW i \in 1 .. n
  PROVE  /\ {j \in 1 .. n : j < i} = 1 .. i - 1
         /\ IsFiniteSet(1 .. i - 1) /\ Cardinality(1 .. i - 1) = i - 1
<1>1. {j \in 1 .. n : j < i} = 1 .. i - 1
  OBVIOUS
<1>2. 1 \in Int /\ i - 1 \in Int
  OBVIOUS
<1>3. /\ IsFiniteSet(1 .. i - 1)
      /\ Cardinality(1 .. i - 1) = IF 1 > i - 1 THEN 0 ELSE i - 1 - 1 + 1
  BY <1>2, FS_Interval
<1> QED
  BY <1>1, <1>3

LEMMA BelowBut ==
  ASSUME NEW n \in Nat, NEW m \in 1 .. n, NEW i \in (1 .. n) \ {m}
  PROVE  Cardinality({j \in (1 .. n) \ {m} : j < i}) = IF i < m THEN i - 1 ELSE i - 2
<1>1. /\ {j \in (1 .. n) \ {m} : j < i} = (1 .. i - 1) \ {m}
      /\ m \in 1 .. i - 1 <=> ~(i < m)
  OBVIOUS
<1>2. IsFiniteSet(1 .. i - 1) /\ Cardinality(1 .. i - 1) = i - 1
  BY Below
<1>3. Cardinality((1 .. i - 1) \ {m}) =
        IF m \in 1 .. i - 1 THEN Cardinality(1 .. i - 1) - 1 ELSE Cardinality(1 .. i - 1)
  BY <1>2, FS_RemoveElement
<1>4. i \in Int /\ i - 1 - 1 = i - 2
  OBVIOUS
<1>5. CASE i < m
  BY <1>1, <1>2, <1>3, <1>5
<1>6. CASE ~(i < m)
  BY <1>1, <1>2, <1>3, <1>4, <1>6
<1> QED
  BY <1>5, <1>6

LEMMA WithoutNone ==
  ASSUME NEW s \in Seq(Entry), NEW a, \A i \in 1 .. Len(s) : Of(s[i]) # a
  PROVE  Without(s, a) = s
<1>1. PICK n, rest : n = Len(s) /\ rest = {i \in DOMAIN s : Of(s[i]) # a}
  OBVIOUS
<1>2. n \in Nat /\ rest = 1 .. n /\ DOMAIN s = 1 .. n
  BY <1>1
<1>3. Cardinality(rest) = n
  <2>1. Cardinality(1 .. n) = IF 1 > n THEN 0 ELSE n - 1 + 1
    BY <1>2, FS_Interval
  <2> QED
    BY <1>2, <2>1
<1>4. ASSUME NEW k \in 1 .. n
      PROVE  (CHOOSE i \in rest : Cardinality({j \in rest : j < i}) = k - 1) = k
  <2>1. \A i \in rest : Cardinality({j \in rest : j < i}) = i - 1
    BY <1>2, Below
  <2>2. \A i \in rest : Cardinality({j \in rest : j < i}) = k - 1 <=> i = k
    BY <1>2, <2>1
  <2>3. k \in rest
    BY <1>2
  <2> QED
    BY <2>2, <2>3
<1>5. Without(s, a) = [k \in 1 .. Cardinality(rest) |->
                         s[CHOOSE i \in rest : Cardinality({j \in rest : j < i}) = k - 1]]
  BY <1>1 DEF Without
<1>6. Without(s, a) = [k \in 1 .. n |-> s[k]]
  BY <1>3, <1>4, <1>5
<1> QED
  BY <1>2, <1>6

LEMMA WithoutOne ==
  ASSUME NEW s \in Seq(Entry), NEW a, NEW m \in 1 .. Len(s),
         \A i \in 1 .. Len(s) : Of(s[i]) = a <=> i = m
  PROVE  Skips(s, m, Without(s, a))
<1>1. PICK n, rest : n = Len(s) /\ rest = {i \in DOMAIN s : Of(s[i]) # a}
  OBVIOUS
<1>2. n \in Nat /\ m \in 1 .. n /\ rest = (1 .. n) \ {m} /\ DOMAIN s = 1 .. n
  BY <1>1
<1>3. Cardinality(rest) = n - 1
  <2>1. IsFiniteSet(1 .. n) /\ Cardinality(1 .. n) = IF 1 > n THEN 0 ELSE n - 1 + 1
    BY <1>2, FS_Interval
  <2>2. Cardinality((1 .. n) \ {m}) = IF m \in 1 .. n THEN Cardinality(1 .. n) - 1 ELSE Cardinality(1 .. n)
    BY <2>1, FS_RemoveElement
  <2> QED
    BY <1>2, <2>1, <2>2
<1>4. ASSUME NEW k \in 1 .. n - 1
      PROVE  (CHOOSE i \in rest : Cardinality({j \in rest : j < i}) = k - 1)
               = IF k < m THEN k ELSE k + 1
  <2>1. \A i \in rest : Cardinality({j \in rest : j < i}) = IF i < m THEN i - 1 ELSE i - 2
    BY <1>2, BelowBut, SMTT(30)
  <2>2. PICK h : h = IF k < m THEN k ELSE k + 1
    OBVIOUS
  <2>3. h \in rest
    BY <1>2, <2>2
  <2>4. \A i \in rest : (IF i < m THEN i - 1 ELSE i - 2) = k - 1 <=> i = h
    BY <1>2, <2>2
  <2>5. \A i \in rest : Cardinality({j \in rest : j < i}) = k - 1 <=> i = h
    BY <2>1, <2>4
  <2> QED
    BY <2>2, <2>3, <2>5
<1>5. Without(s, a) = [k \in 1 .. Cardinality(rest) |->
                         s[CHOOSE i \in rest : Cardinality({j \in rest : j < i}) = k - 1]]
  BY <1>1 DEF Without
<1>6. Without(s, a) = [k \in 1 .. n - 1 |-> s[IF k < m THEN k ELSE k + 1]]
  BY <1>3, <1>4, <1>5
<1>7. \A k \in 1 .. n - 1 : s[IF k < m THEN k ELSE k + 1] \in Entry
  BY <1>1, <1>2
<1>8. PICK q : q = Without(s, a)
  OBVIOUS
<1>9. q \in Seq(Entry) /\ Len(q) = n - 1
  BY <1>2, <1>6, <1>7, <1>8
<1> QED
  BY <1>1, <1>6, <1>8, <1>9 DEF Skips

\* q is s without the account a; q is s with e instead of its account.
LeftOf(s, a, q) ==
  /\ q \in Seq(Entry) /\ Len(q) <= Len(s) /\ Unique(q)
  /\ \A k \in 1 .. Len(q) : /\ \E i \in 1 .. Len(s) : q[k] = s[i]
                            /\ Of(q[k]) # a

PutInto(s, e, q) ==
  /\ q \in Seq(Entry) /\ Len(q) <= MaxSaved /\ Unique(q)
  /\ \A k \in 1 .. Len(q) : \/ q[k] = e
                            \/ /\ \E i \in 1 .. Len(s) : q[k] = s[i]
                               /\ Of(q[k]) # Of(e)

LEMMA WithoutIs ==
  ASSUME NEW s \in Seq(Entry), Unique(s), NEW a
  PROVE  LeftOf(s, a, Without(s, a))
<1> DEFINE q == Without(s, a)
<1>1. CASE \A i \in 1 .. Len(s) : Of(s[i]) # a
  BY <1>1, WithoutNone DEF LeftOf
<1>2. CASE \E i \in 1 .. Len(s) : Of(s[i]) = a
  <2>1. PICK m \in 1 .. Len(s) : Of(s[m]) = a
    BY <1>2
  <2>2. \A i \in 1 .. Len(s) : Of(s[i]) = a <=> i = m
    BY <2>1 DEF Unique
  <2>3. Skips(s, m, q)
    BY <2>2, WithoutOne
  <2>4. /\ Unique(q)
        /\ \A k \in 1 .. Len(q) : /\ \E i \in 1 .. Len(s) : q[k] = s[i]
                                  /\ Of(q[k]) # Of(s[m])
    BY <2>3, SkipsUnique
  <2>5. q \in Seq(Entry) /\ Len(q) = Len(s) - 1
    BY <2>3 DEF Skips
  <2>6. Len(q) <= Len(s)
    BY <2>5
  <2> QED
    BY <2>1, <2>4, <2>5, <2>6 DEF LeftOf
<1> QED
  BY <1>1, <1>2

LEMMA KeptIs ==
  ASSUME NEW s \in Seq(Entry), NEW q, q = Kept(s)
  PROVE  /\ q \in Seq(Entry) /\ Len(q) <= MaxSaved /\ Len(q) <= Len(s)
         /\ \A k \in 1 .. Len(q) : q[k] = s[k]
<1>1. PICK n : n = IF Len(s) > MaxSaved THEN MaxSaved ELSE Len(s)
  OBVIOUS
<1>2. n \in Nat /\ n <= Len(s) /\ n <= MaxSaved
  BY <1>1, MaxSavedAssumption
<1>3. q = SubSeq(s, 1, n)
  BY <1>1 DEF Kept
<1> QED
  BY <1>2, <1>3

LEMMA SavedWithIs ==
  ASSUME NEW s \in Seq(Entry), Unique(s), NEW e \in Entry
  PROVE  PutInto(s, e, SavedWith(s, e))
<1>1. PICK q, w, l : q = SavedWith(s, e) /\ w = Without(s, Of(e)) /\ l = <<e>> \o w
  OBVIOUS
<1>2. /\ w \in Seq(Entry) /\ Unique(w)
      /\ \A k \in 1 .. Len(w) : /\ \E i \in 1 .. Len(s) : w[k] = s[i]
                                /\ Of(w[k]) # Of(e)
  BY <1>1, WithoutIs DEF LeftOf
<1>3. /\ l \in Seq(Entry) /\ Len(l) = Len(w) + 1 /\ Len(w) \in Nat /\ l[1] = e
      /\ \A k \in 1 .. Len(l) : k # 1 => k - 1 \in 1 .. Len(w) /\ l[k] = w[k - 1]
  BY <1>1, <1>2
<1>4. /\ q \in Seq(Entry) /\ Len(q) <= MaxSaved /\ Len(q) <= Len(l)
      /\ \A k \in 1 .. Len(q) : q[k] = l[k]
  BY <1>1, <1>3, KeptIs, ZenonT(60) DEF SavedWith
<1>5. Len(q) \in Nat /\ Len(l) \in Nat
  BY <1>3, <1>4
<1>6. ASSUME NEW k \in 1 .. Len(q)
      PROVE  \/ k = 1 /\ q[k] = e
             \/ k # 1 /\ k - 1 \in 1 .. Len(w) /\ q[k] = w[k - 1]
  <2>1. k \in 1 .. Len(l)
    BY <1>4, <1>5
  <2> QED
    BY <1>3, <1>4, <2>1
<1>7. ASSUME NEW k \in 1 .. Len(q), NEW j \in 1 .. Len(q), Of(q[k]) = Of(q[j])
      PROVE  k = j
  <2>1. CASE k = 1 /\ j # 1
    BY <1>2, <1>6, <1>7, <2>1
  <2>2. CASE k # 1 /\ j = 1
    BY <1>2, <1>6, <1>7, <2>2
  <2>3. CASE k # 1 /\ j # 1
    <3>1. k - 1 = j - 1
      BY <1>2, <1>6, <1>7, <2>3, SMTT(30) DEF Unique
    <3> QED
      BY <3>1
  <2> QED
    BY <2>1, <2>2, <2>3
<1>8. Unique(q)
  BY <1>7 DEF Unique
<1> QED
  BY <1>1, <1>2, <1>4, <1>6, <1>8 DEF PutInto

-----------------------------------------------------------------------------

\* A list the program may show.
ListOK(s) == s \in Seq(Entry) /\ Len(s) <= MaxSaved /\ Unique(s)

\* Each account of s is one of t, or given up in given.
Opens(s, given, passOf) ==
  \A i \in 1 .. Len(s) : Of(s[i]) \in given \/ passOf[Of(s[i])] = s[i].pass

\* In a chat the field of the password is empty and no password is being
\* tried.  While nothing was changed since the attempt was made, the fields
\* are the attempt's, and when it was accepted, the password is the account's.
LoginOK ==
  /\ screen = "chat" => pass = NoPass /\ login \in {"none", "accepted"}
  /\ login # "none" /\ ~stale /\ pass # NoPass => server = at
  /\ login \in {"login", "register"} /\ ~stale => pass = sent
  /\ login = "accepted" /\ ~stale /\ pass # NoPass => real[<<me, at>>] = pass

QInv == QuickOK /\ SavedOpens /\ LoginOK

\* What QuickOK says of everything but the list.
RestOK ==
  /\ server \in Server /\ pass \in Pass \cup {NoPass}
  /\ remember \in BOOLEAN /\ armed \in Nat
  /\ screen \in {"connect", "chat"}
  /\ login \in {"none", "login", "register", "accepted"}
  /\ me \in User /\ at \in Server /\ sent \in Pass \cup {NoPass}
  /\ real \in [User \X Server -> Pass \cup {NoPass}]
  /\ stale \in BOOLEAN /\ spoilt \subseteq User \X Server

LEMMA UniqueIs ==
  ASSUME NEW s \in Seq(Entry)
  PROVE  Unique(s) <=> \A i, j \in DOMAIN s : Of(s[i]) = Of(s[j]) => i = j
  BY DEF Unique

LEMMA QuickParts == QuickOK <=> ListOK(saved) /\ stored = saved /\ RestOK
<1>1. saved \in Seq(Entry) =>
        (Unique(saved) <=> \A i, j \in DOMAIN saved : Of(saved[i]) = Of(saved[j]) => i = j)
  BY UniqueIs
<1> QED
  BY <1>1 DEF QuickOK, ListOK, RestOK

LEMMA OpensIs ==
  ASSUME NEW s \in Seq(Entry), NEW given, NEW passOf
  PROVE  Opens(s, given, passOf) <=>
           \A i \in DOMAIN s : Of(s[i]) \in given \/ passOf[Of(s[i])] = s[i].pass
  BY DEF Opens

LEMMA InvParts == QInv <=> /\ ListOK(saved) /\ stored = saved /\ RestOK
                           /\ Opens(saved, spoilt, real) /\ LoginOK
<1>1. saved \in Seq(Entry) => (Opens(saved, spoilt, real) <=> SavedOpens)
  BY OpensIs DEF SavedOpens
<1> QED
  BY <1>1, QuickParts DEF QInv, ListOK

LEMMA InvPartsNext ==
  ASSUME ListOK(saved'), stored' = saved', RestOK', Opens(saved', spoilt', real'), LoginOK'
  PROVE  QInv'
<1>1. saved' \in Seq(Entry)
  BY DEF ListOK
<1>2. SavedOpens'
  BY <1>1, OpensIs DEF SavedOpens
<1>3. \A i, j \in DOMAIN saved' : Of(saved'[i]) = Of(saved'[j]) => i = j
  BY <1>1, UniqueIs DEF ListOK
<1>4. QuickOK'
  BY <1>3 DEF QuickOK, ListOK, RestOK
<1> QED
  BY <1>2, <1>4 DEF QInv

LEMMA EntryOf ==
  ASSUME NEW e \in Entry
  PROVE  Of(e) \in User \X Server /\ e.user \in User /\ e.server \in Server
         /\ e.pass \in Pass /\ e.pass # NoPass /\ Of(e) = <<e.user, e.server>>
  BY NoPassAssumption DEF Entry, Of

\* What is left of a list opens as it did.
LEMMA OpensLess ==
  ASSUME NEW s, NEW q, NEW given, NEW passOf, Opens(s, given, passOf),
         NEW more, q \in Seq(Entry),
         \A k \in 1 .. Len(q) : \/ /\ \E i \in 1 .. Len(s) : q[k] = s[i]
                                   /\ Of(q[k]) \in given => Of(q[k]) \in more
                                \/ Of(q[k]) \in more
                                \/ passOf[Of(q[k])] = q[k].pass
  PROVE  Opens(q, SavedOf(q) \cap more, passOf)
<1> SUFFICES ASSUME NEW k \in 1 .. Len(q)
             PROVE  Of(q[k]) \in SavedOf(q) \cap more \/ passOf[Of(q[k])] = q[k].pass
  BY DEF Opens
<1>1. Of(q[k]) \in SavedOf(q)
  <2>1. k \in DOMAIN q
    OBVIOUS
  <2> QED
    BY <2>1 DEF SavedOf
<1>2. Of(q[k]) \in more \/ passOf[Of(q[k])] = q[k].pass
  BY DEF Opens
<1> QED
  BY <1>1, <1>2

LEMMA EmptyList ==
  /\ ListOK(<<>>)
  /\ \A given, passOf : Opens(<<>>, given, passOf)
<1>1. <<>> \in Seq(Entry) /\ Len(<<>>) = 0 /\ 1 .. 0 = {}
  OBVIOUS
<1> QED
  BY <1>1, MaxSavedAssumption DEF ListOK, Opens, Unique

-----------------------------------------------------------------------------

LEMMA InitQInv == QInit => QInv
<1> SUFFICES ASSUME QInit PROVE QInv
  OBVIOUS
<1>1. ListOK(saved) /\ stored = saved /\ Opens(saved, spoilt, real)
  BY EmptyList DEF QInit
<1>2. RestOK
  BY DEF QInit, RestOK
<1>3. LoginOK
  BY DEF QInit, LoginOK
<1> QED
  BY <1>1, <1>2, <1>3, InvParts

LEMMA EditStep ==
  ASSUME QInv, Edit PROVE QInv'
<1>1. ListOK(saved) /\ stored = saved /\ RestOK /\ Opens(saved, spoilt, real) /\ LoginOK
  BY InvParts
<1>2. UNCHANGED <<saved, stored, real, spoilt, armed, screen, login, me, at, sent>>
  BY DEF Edit, way
<1>3. (ListOK(saved) /\ stored = saved /\ Opens(saved, spoilt, real))'
  BY <1>1, <1>2
<1>4. RestOK'
  BY <1>1, <1>2 DEF Edit, RestOK
<1>5. LoginOK'
  BY <1>1, <1>2 DEF Edit, LoginOK, RestOK
<1> QED
  BY <1>3, <1>4, <1>5, InvPartsNext

LEMMA PressButtonStep ==
  ASSUME QInv, NEW u \in User, PressButton(u) PROVE QInv'
<1>1. ListOK(saved) /\ stored = saved /\ RestOK /\ Opens(saved, spoilt, real) /\ LoginOK
  BY InvParts
<1>2. UNCHANGED <<saved, stored, real, spoilt, armed, screen, server, pass, remember>>
  BY DEF PressButton, fields
<1>3. (ListOK(saved) /\ stored = saved /\ Opens(saved, spoilt, real))'
  BY <1>1, <1>2
<1>4. /\ login' \in {"login", "register"} /\ me' = u /\ at' = server /\ sent' = pass
      /\ stale' = FALSE /\ screen = "connect"
  BY DEF PressButton, Connect
<1>5. RestOK'
  BY <1>1, <1>2, <1>4 DEF RestOK
<1>6. LoginOK'
  BY <1>1, <1>2, <1>4 DEF LoginOK
<1> QED
  BY <1>3, <1>5, <1>6, InvPartsNext

LEMMA ClickSavedStep ==
  ASSUME QInv, NEW i \in DOMAIN saved, ClickSaved(i) PROVE QInv'
<1>1. ListOK(saved) /\ stored = saved /\ RestOK /\ Opens(saved, spoilt, real) /\ LoginOK
  BY InvParts
<1>2. UNCHANGED <<saved, stored, real, spoilt, armed, screen, remember>>
  BY DEF ClickSaved
<1>3. (ListOK(saved) /\ stored = saved /\ Opens(saved, spoilt, real))'
  BY <1>1, <1>2
<1>4. saved[i] \in Entry
  BY <1>1 DEF ListOK
<1>5. /\ login' = "login" /\ me' = saved[i].user /\ at' = saved[i].server /\ sent' = saved[i].pass
      /\ stale' = FALSE /\ screen = "connect"
      /\ server' = saved[i].server /\ pass' = saved[i].pass
  BY DEF ClickSaved, Connect
<1>6. RestOK'
  BY <1>1, <1>2, <1>4, <1>5, EntryOf DEF RestOK
<1>7. LoginOK'
  BY <1>1, <1>2, <1>5 DEF LoginOK
<1> QED
  BY <1>3, <1>6, <1>7, InvPartsNext

LEMMA ClickCrossStep ==
  ASSUME QInv, NEW i \in DOMAIN saved, ClickCross(i) PROVE QInv'
<1>1. ListOK(saved) /\ stored = saved /\ RestOK /\ Opens(saved, spoilt, real) /\ LoginOK
  BY InvParts
<1>2. UNCHANGED <<server, pass, remember, screen, login, me, at, sent, real, stale>>
  BY DEF ClickCross, fields, way
<1>3. LoginOK'
  BY <1>1, <1>2 DEF LoginOK
<1>4. i \in 1 .. Len(saved) /\ saved \in Seq(Entry) /\ Len(saved) \in Nat
  BY <1>1 DEF ListOK
<1>5. armed' \in Nat /\ spoilt' = spoilt \cap SavedOf(saved')
  BY <1>4 DEF ClickCross
<1>6. RestOK'
  BY <1>1, <1>2, <1>5 DEF RestOK
<1>7. PICK s, q : s = saved /\ q = saved'
  OBVIOUS
<1>8. ListOK(q) /\ \A k \in 1 .. Len(q) : \E j \in 1 .. Len(s) : q[k] = s[j]
  <2>1. CASE armed = i
    <3>1. q = RemoveAt(s, i)
      BY <1>7, <2>1 DEF ClickCross
    <3>2. Skips(s, i, q)
      BY <1>4, <1>7, <3>1, RemoveAtSkips
    <3>3. /\ Unique(q)
          /\ \A k \in 1 .. Len(q) : \E j \in 1 .. Len(s) : q[k] = s[j]
      BY <1>1, <1>4, <1>7, <3>2, SkipsUnique DEF ListOK
    <3>4. q \in Seq(Entry) /\ Len(q) = Len(s) - 1 /\ Len(s) <= MaxSaved /\ Len(s) \in Nat
      BY <1>1, <1>4, <1>7, <3>2 DEF ListOK, Skips
    <3>5. Len(q) <= MaxSaved
      BY <3>4, MaxSavedAssumption
    <3> QED
      BY <3>3, <3>4, <3>5 DEF ListOK
  <2>2. CASE armed # i
    BY <1>1, <1>7, <2>2 DEF ClickCross
  <2> QED
    BY <2>1, <2>2
<1>9. stored' = saved'
  BY <1>1 DEF ClickCross
<1>10. Opens(q, SavedOf(q) \cap spoilt, real)
  <2>1. Opens(s, spoilt, real) /\ q \in Seq(Entry)
    BY <1>1, <1>7, <1>8 DEF ListOK
  <2> QED
    BY <1>8, <2>1, OpensLess
<1>11. spoilt' = SavedOf(q) \cap spoilt
  BY <1>5, <1>7
<1>12. Opens(saved', spoilt', real')
  BY <1>2, <1>7, <1>10, <1>11
<1> QED
  BY <1>3, <1>6, <1>7, <1>8, <1>9, <1>12, InvPartsNext

LEMMA AcceptStep ==
  ASSUME QInv, Accept PROVE QInv'
<1>1. ListOK(saved) /\ stored = saved /\ RestOK /\ Opens(saved, spoilt, real) /\ LoginOK
  BY InvParts
<1>2. UNCHANGED <<saved, stored, server, pass, remember, armed, screen, me, at, stale, spoilt>>
  BY DEF Accept, fields, hist
<1>3. login' = "accepted" /\ sent' = NoPass /\ login \in {"login", "register"}
  BY DEF Accept
<1>4. <<me, at>> \in User \X Server /\ real \in [User \X Server -> Pass \cup {NoPass}]
  BY <1>1 DEF RestOK
<1>5. /\ real' \in [User \X Server -> Pass \cup {NoPass}]
      /\ real'[<<me, at>>] = sent
      /\ \A a \in User \X Server : real[a] # NoPass => real'[a] = real[a]
  BY <1>1, <1>4 DEF Accept, RestOK
<1>6. RestOK'
  BY <1>1, <1>2, <1>3, <1>5 DEF RestOK
<1>7. LoginOK'
  <2>1. screen # "chat"
    BY <1>1, <1>3 DEF LoginOK
  <2>2. ~stale => pass = sent
    BY <1>1, <1>3 DEF LoginOK
  <2>3. ~stale /\ pass # NoPass => server = at
    BY <1>1, <1>3 DEF LoginOK
  <2>4. me' = me /\ at' = at
    BY <1>2
  <2> QED
    BY <1>2, <1>3, <1>5, <2>1, <2>2, <2>3, <2>4 DEF LoginOK
<1>8. Opens(saved, spoilt, real')
  <2>1. ASSUME NEW k \in 1 .. Len(saved)
        PROVE  Of(saved[k]) \in spoilt \/ real'[Of(saved[k])] = saved[k].pass
    <3>1. saved[k] \in Entry
      BY <1>1 DEF ListOK
    <3>2. Of(saved[k]) \in User \X Server /\ saved[k].pass # NoPass
      BY <3>1, EntryOf
    <3>3. Of(saved[k]) \in spoilt \/ real[Of(saved[k])] = saved[k].pass
      BY <1>1 DEF Opens
    <3> QED
      BY <1>5, <3>2, <3>3
  <2> QED
    BY <2>1 DEF Opens
<1>9. (ListOK(saved) /\ stored = saved /\ Opens(saved, spoilt, real))'
  BY <1>1, <1>2, <1>8
<1> QED
  BY <1>6, <1>7, <1>9, InvPartsNext

LEMMA RefuseStep ==
  ASSUME QInv, Refuse PROVE QInv'
<1>1. ListOK(saved) /\ stored = saved /\ RestOK /\ Opens(saved, spoilt, real) /\ LoginOK
  BY InvParts
<1>2. /\ UNCHANGED <<saved, stored, server, pass, remember, armed, screen, me, at, real, spoilt>>
      /\ login' = "none" /\ sent' = NoPass /\ stale' = FALSE
  BY DEF Refuse, NoAttempt, fields
<1>3. (ListOK(saved) /\ stored = saved /\ Opens(saved, spoilt, real))'
  BY <1>1, <1>2
<1>4. RestOK'
  BY <1>1, <1>2 DEF RestOK
<1>5. LoginOK'
  BY <1>1, <1>2 DEF LoginOK
<1> QED
  BY <1>3, <1>4, <1>5, InvPartsNext

LEMMA PollAuthedStep ==
  ASSUME QInv, PollAuthed PROVE QInv'
<1>1. ListOK(saved) /\ stored = saved /\ RestOK /\ Opens(saved, spoilt, real) /\ LoginOK
  BY InvParts
<1>2. /\ UNCHANGED <<server, remember, armed, me, at, real>>
      /\ screen' = "chat" /\ login' = "none" /\ sent' = NoPass /\ stale' = FALSE /\ pass' = NoPass
      /\ saved' = stored' /\ login = "accepted"
  BY DEF PollAuthed, Save, NoAttempt
<1>3. LoginOK'
  BY <1>2 DEF LoginOK
<1>4. PICK s, q, a, more :
        /\ s = saved /\ q = saved' /\ a = <<me, server>>
        /\ more = IF stale THEN spoilt \cup {a} ELSE spoilt \ {a}
  OBVIOUS
<1>5. /\ s \in Seq(Entry) /\ Unique(s) /\ Len(s) <= MaxSaved /\ Len(s) \in Nat
      /\ a \in User \X Server
  BY <1>1, <1>4 DEF ListOK, RestOK
<1>6. spoilt' = SavedOf(q) \cap more
  BY <1>4 DEF PollAuthed, Save
<1>7. /\ ListOK(q)
      /\ \A k \in 1 .. Len(q) :
           \/ /\ \E i \in 1 .. Len(s) : q[k] = s[i]
              /\ Of(q[k]) # a
           \/ Of(q[k]) = a /\ q[k].pass = pass /\ pass # NoPass
  <2>1. CASE remember /\ pass # NoPass
    <3>1. PICK e : e = [user |-> me, server |-> server, pass |-> pass]
      OBVIOUS
    <3>2. e \in Entry /\ Of(e) = a /\ e.pass = pass
      BY <1>1, <1>4, <2>1, <3>1 DEF Entry, Of, RestOK
    <3>3. q = SavedWith(s, e)
      BY <1>1, <1>4, <2>1, <3>1 DEF PollAuthed, Save
    <3>4. /\ q \in Seq(Entry) /\ Len(q) <= MaxSaved /\ Unique(q)
          /\ \A k \in 1 .. Len(q) : \/ q[k] = e
                                    \/ /\ \E i \in 1 .. Len(s) : q[k] = s[i]
                                       /\ Of(q[k]) # Of(e)
      <4>1. s \in Seq(Entry) /\ Unique(s) /\ e \in Entry
        BY <1>5, <3>2
      <4>2. PutInto(s, e, SavedWith(s, e))
        BY <4>1, SavedWithIs
      <4>3. PutInto(s, e, q)
        BY <3>3, <4>2
      <4> QED
        BY <4>3 DEF PutInto
    <3> QED
      BY <2>1, <3>2, <3>4 DEF ListOK
  <2>2. CASE ~(remember /\ pass # NoPass)
    <3>1. q = Without(s, a)
      BY <1>1, <1>4, <2>2 DEF PollAuthed, Save
    <3>2. /\ q \in Seq(Entry) /\ Len(q) <= Len(s) /\ Unique(q)
          /\ \A k \in 1 .. Len(q) : /\ \E i \in 1 .. Len(s) : q[k] = s[i]
                                    /\ Of(q[k]) # a
      <4>1. s \in Seq(Entry) /\ Unique(s)
        BY <1>5
      <4> QED
        BY <3>1, <4>1, WithoutIs DEF LeftOf
    <3>3. Len(q) <= MaxSaved
      <4>1. Len(q) \in Nat
        BY <3>2
      <4> QED
        BY <1>5, <3>2, <4>1, MaxSavedAssumption
    <3> QED
      BY <3>2, <3>3 DEF ListOK
  <2> QED
    BY <2>1, <2>2
<1>8. Opens(q, SavedOf(q) \cap more, real)
  <2>1. Opens(s, spoilt, real) /\ q \in Seq(Entry)
    BY <1>1, <1>4, <1>7 DEF ListOK
  <2>2. ASSUME NEW k \in 1 .. Len(q)
        PROVE  \/ /\ \E i \in 1 .. Len(s) : q[k] = s[i]
                  /\ Of(q[k]) \in spoilt => Of(q[k]) \in more
               \/ Of(q[k]) \in more
               \/ real[Of(q[k])] = q[k].pass
    <3>1. CASE \E i \in 1 .. Len(s) : q[k] = s[i] /\ Of(q[k]) # a
      BY <1>4, <3>1
    <3>2. CASE Of(q[k]) = a /\ q[k].pass = pass /\ pass # NoPass
      <4>1. CASE stale
        BY <1>4, <3>2, <4>1
      <4>2. CASE ~stale
        <5>1. server = at /\ real[<<me, at>>] = pass
          BY <1>1, <1>2, <3>2, <4>2 DEF LoginOK
        <5> QED
          BY <1>4, <3>2, <5>1
      <4> QED
        BY <4>1, <4>2
    <3> QED
      BY <1>7, <3>1, <3>2
  <2> QED
    BY <2>1, <2>2, OpensLess
<1>9. ListOK(saved') /\ stored' = saved' /\ Opens(saved', spoilt', real')
  BY <1>2, <1>4, <1>6, <1>7, <1>8
<1>10. spoilt' \subseteq User \X Server
  BY <1>1, <1>4, <1>5, <1>6 DEF RestOK
<1>11. RestOK'
  BY <1>1, <1>2, <1>10 DEF RestOK
<1> QED
  BY <1>3, <1>9, <1>11, InvPartsNext

LEMMA LoginAgainStep ==
  ASSUME QInv, LoginAgain PROVE QInv'
<1>1. ListOK(saved) /\ stored = saved /\ RestOK /\ Opens(saved, spoilt, real) /\ LoginOK
  BY InvParts
<1>2. /\ UNCHANGED <<saved, stored, server, pass, remember, armed, screen, me, at, sent, real>>
      /\ UNCHANGED <<stale, spoilt>>
      /\ login' = "accepted" /\ screen = "chat"
  BY DEF LoginAgain, fields, hist
<1>3. (ListOK(saved) /\ stored = saved /\ Opens(saved, spoilt, real))'
  BY <1>1, <1>2
<1>4. RestOK'
  BY <1>1, <1>2 DEF RestOK
<1>5. LoginOK'
  BY <1>1, <1>2 DEF LoginOK
<1> QED
  BY <1>3, <1>4, <1>5, InvPartsNext

\* The accounts of a changed on the server, and no other.
LEMMA ChangedOpens ==
  ASSUME QInv, NEW a, a \subseteq User \X Server, Changed(a), UNCHANGED <<saved, stored>>,
         real' \in [User \X Server -> Pass \cup {NoPass}],
         \A b \in (User \X Server) \ a : real'[b] = real[b]
  PROVE  /\ (ListOK(saved) /\ stored = saved /\ Opens(saved, spoilt, real))'
         /\ spoilt' \subseteq User \X Server /\ stale' \in BOOLEAN
         /\ login # "none" /\ ~stale' => ~stale /\ real'[<<me, at>>] = real[<<me, at>>]
<1>1. ListOK(saved) /\ stored = saved /\ RestOK /\ Opens(saved, spoilt, real) /\ LoginOK
  BY InvParts
<1>2. spoilt' = SavedOf(saved) \cap (spoilt \cup a)
  BY DEF Changed
<1>3. stale' = (login # "none" /\ (stale \/ <<me, at>> \in a))
  BY DEF Changed
<1>4. Opens(saved, spoilt', real')
  <2>1. ASSUME NEW k \in 1 .. Len(saved)
        PROVE  Of(saved[k]) \in spoilt' \/ real'[Of(saved[k])] = saved[k].pass
    <3>1. saved[k] \in Entry /\ k \in DOMAIN saved
      BY <1>1 DEF ListOK
    <3>2. Of(saved[k]) \in User \X Server
      BY <3>1, EntryOf
    <3>3. Of(saved[k]) \in spoilt \/ real[Of(saved[k])] = saved[k].pass
      BY <1>1 DEF Opens
    <3>4. Of(saved[k]) \in SavedOf(saved)
      BY <3>1 DEF SavedOf
    <3> QED
      BY <1>2, <3>2, <3>3, <3>4
  <2> QED
    BY <2>1 DEF Opens
<1>5. (ListOK(saved) /\ stored = saved /\ Opens(saved, spoilt, real))'
  BY <1>1, <1>4
<1>6. spoilt' \subseteq User \X Server
  BY <1>1, <1>2 DEF RestOK
<1>7. stale' \in BOOLEAN
  BY <1>3
<1>8. <<me, at>> \in User \X Server
  BY <1>1 DEF RestOK
<1>9. ASSUME login # "none", ~stale'
      PROVE  ~stale /\ real'[<<me, at>>] = real[<<me, at>>]
  BY <1>3, <1>8, <1>9
<1> QED
  BY <1>5, <1>6, <1>7, <1>9

LEMMA SetPasswordStep ==
  ASSUME QInv, NEW u \in User, NEW v \in Server, NEW p \in Pass, SetPassword(u, v, p)
  PROVE  QInv'
<1>1. ListOK(saved) /\ stored = saved /\ RestOK /\ Opens(saved, spoilt, real) /\ LoginOK
  BY InvParts
<1>2. UNCHANGED <<saved, stored, server, pass, remember, armed, screen, login, me, at, sent>>
  BY DEF SetPassword, fields, way
<1>3. PICK a : a = {<<u, v>>}
  OBVIOUS
<1>4. /\ a \subseteq User \X Server /\ Changed(a)
      /\ real' \in [User \X Server -> Pass \cup {NoPass}]
      /\ \A b \in (User \X Server) \ a : real'[b] = real[b]
  BY <1>1, <1>3 DEF SetPassword, RestOK
<1>5. /\ (ListOK(saved) /\ stored = saved /\ Opens(saved, spoilt, real))'
      /\ spoilt' \subseteq User \X Server /\ stale' \in BOOLEAN
      /\ login # "none" /\ ~stale' => ~stale /\ real'[<<me, at>>] = real[<<me, at>>]
  BY <1>2, <1>4, ChangedOpens
<1>6. RestOK'
  BY <1>1, <1>2, <1>4, <1>5 DEF RestOK
<1>7. LoginOK'
  BY <1>1, <1>2, <1>5 DEF LoginOK
<1> QED
  BY <1>5, <1>6, <1>7, InvPartsNext

LEMMA SetUsernameStep ==
  ASSUME QInv, NEW u \in User, NEW n \in User, NEW v \in Server, SetUsername(u, n, v)
  PROVE  QInv'
<1>1. ListOK(saved) /\ stored = saved /\ RestOK /\ Opens(saved, spoilt, real) /\ LoginOK
  BY InvParts
<1>2. /\ UNCHANGED <<saved, stored, server, pass, remember, armed, screen, login, at, sent>>
      /\ me' \in {me, n}
      /\ me' # me => screen = "chat"
  BY DEF SetUsername, fields
<1>3. PICK a : a = {<<u, v>>, <<n, v>>}
  OBVIOUS
<1>4. /\ a \subseteq User \X Server /\ Changed(a)
      /\ real' \in [User \X Server -> Pass \cup {NoPass}]
      /\ \A b \in (User \X Server) \ a : real'[b] = real[b]
  BY <1>1, <1>3 DEF SetUsername, RestOK
<1>5. /\ (ListOK(saved) /\ stored = saved /\ Opens(saved, spoilt, real))'
      /\ spoilt' \subseteq User \X Server /\ stale' \in BOOLEAN
      /\ login # "none" /\ ~stale' => ~stale /\ real'[<<me, at>>] = real[<<me, at>>]
  BY <1>2, <1>4, ChangedOpens
<1>6. RestOK'
  BY <1>1, <1>2, <1>4, <1>5 DEF RestOK
<1>7. LoginOK'
  <2>1. CASE screen = "chat"
    BY <1>1, <1>2, <2>1 DEF LoginOK
  <2>2. CASE screen # "chat"
    <3>1. me' = me
      BY <1>2, <2>2
    <3> QED
      BY <1>1, <1>2, <1>5, <2>2, <3>1 DEF LoginOK
  <2> QED
    BY <2>1, <2>2
<1> QED
  BY <1>5, <1>6, <1>7, InvPartsNext

LEMMA LogoutStep ==
  ASSUME QInv, Logout PROVE QInv'
<1>1. ListOK(saved) /\ stored = saved /\ RestOK /\ Opens(saved, spoilt, real) /\ LoginOK
  BY InvParts
<1>2. /\ UNCHANGED <<saved, stored, server, remember, armed, me, at, real, spoilt>>
      /\ login' = "none" /\ sent' = NoPass /\ stale' = FALSE /\ pass' = NoPass
      /\ screen' = "connect"
  BY DEF Logout, NoAttempt
<1>3. (ListOK(saved) /\ stored = saved /\ Opens(saved, spoilt, real))'
  BY <1>1, <1>2
<1>4. RestOK'
  BY <1>1, <1>2 DEF RestOK
<1>5. LoginOK'
  BY <1>2 DEF LoginOK
<1> QED
  BY <1>3, <1>4, <1>5, InvPartsNext

LEMMA ReopenStep ==
  ASSUME QInv, Reopen PROVE QInv'
<1>1. ListOK(saved) /\ stored = saved /\ RestOK /\ Opens(saved, spoilt, real) /\ LoginOK
  BY InvParts
<1>2. /\ UNCHANGED <<me, at, real>>
      /\ server' \in Server /\ remember' = FALSE /\ armed' = 0
      /\ login' = "none" /\ sent' = NoPass /\ stale' = FALSE /\ pass' = NoPass
      /\ screen' = "connect" /\ saved' = stored'
      /\ spoilt' = spoilt \cap SavedOf(saved')
  BY DEF Reopen, NoAttempt
<1>3. RestOK'
  BY <1>1, <1>2 DEF RestOK
<1>4. LoginOK'
  BY <1>2 DEF LoginOK
<1>5. ListOK(saved') /\ Opens(saved', spoilt', real')
  <2>1. CASE stored' = stored
    <3>1. saved' = saved
      BY <1>1, <1>2, <2>1
    <3>2. PICK s : s = saved
      OBVIOUS
    <3>3. Opens(s, SavedOf(s) \cap spoilt, real)
      <4>1. \A k \in 1 .. Len(s) : /\ \E i \in 1 .. Len(s) : s[k] = s[i]
                                   /\ Of(s[k]) \in spoilt => Of(s[k]) \in spoilt
        OBVIOUS
      <4>2. s \in Seq(Entry) /\ Opens(s, spoilt, real)
        BY <1>1, <3>2 DEF ListOK
      <4> QED
        BY <4>1, <4>2, OpensLess
    <3>4. spoilt' = SavedOf(s) \cap spoilt
      BY <1>2, <3>1, <3>2
    <3> QED
      BY <1>1, <1>2, <3>1, <3>2, <3>3, <3>4
  <2>2. CASE stored' = <<>>
    BY <1>2, <2>2, EmptyList
  <2> QED
    BY <2>1, <2>2 DEF Reopen
<1> QED
  BY <1>2, <1>3, <1>4, <1>5, InvPartsNext

LEMMA QuickInvariant == QSpec => []QInv
<1>1. QInv /\ [QNext]_qvars => QInv'
  <2> SUFFICES ASSUME QInv, [QNext]_qvars PROVE QInv'
    OBVIOUS
  <2>1. CASE Edit
    BY <2>1, EditStep
  <2>2. CASE Accept
    BY <2>2, AcceptStep
  <2>3. CASE Refuse
    BY <2>3, RefuseStep
  <2>4. CASE PollAuthed
    BY <2>4, PollAuthedStep
  <2>5. CASE LoginAgain
    BY <2>5, LoginAgainStep
  <2>6. CASE Logout
    BY <2>6, LogoutStep
  <2>7. CASE Reopen
    BY <2>7, ReopenStep
  <2>8. ASSUME NEW i \in DOMAIN saved, List(i) PROVE QInv'
    BY <2>8, ClickSavedStep, ClickCrossStep DEF List
  <2>9. ASSUME NEW u \in User, PressButton(u) PROVE QInv'
    BY <2>9, PressButtonStep
  <2>10. ASSUME NEW u \in User, NEW v \in Server, NEW p \in Pass, SetPassword(u, v, p) PROVE QInv'
    BY <2>10, SetPasswordStep
  <2>11. ASSUME NEW u \in User, NEW n \in User, NEW v \in Server, SetUsername(u, n, v) PROVE QInv'
    BY <2>11, SetUsernameStep
  <2>12. CASE UNCHANGED qvars
    <3>1. UNCHANGED <<saved, stored, server, pass, remember, armed, screen, login, me, at, sent, real, stale, spoilt>>
      BY <2>12 DEF qvars, fields, way, hist
    <3> QED
      BY <3>1 DEF QInv, QuickOK, SavedOpens, LoginOK
  <2> QED
    BY <2>1, <2>2, <2>3, <2>4, <2>5, <2>6, <2>7, <2>8, <2>9, <2>10, <2>11, <2>12 DEF QNext
<1> QED
  BY <1>1, InitQInv, PTL DEF QSpec

\* The list on the login screen is the one in accounts.json, holds no account
\* twice and at most ten, through crashes, edits and logins in any order.
THEOREM SavedListHolds == QSpec => []QuickOK
<1>1. QInv => QuickOK
  BY DEF QInv
<1> QED
  BY <1>1, QuickInvariant, PTL

\* A saved account opens with the password saved for it, unless it was
\* changed on the server since, or saved from fields edited meanwhile.
THEOREM SavedAccountsOpen == QSpec => []SavedOpens
<1>1. QInv => SavedOpens
  BY DEF QInv
<1> QED
  BY <1>1, QuickInvariant, PTL

=============================================================================
