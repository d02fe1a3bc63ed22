-------------------------- MODULE KeyRequestProofs --------------------------
(***************************************************************************)
(* Proofs about KeyRequest for every set of peers and identities and any   *)
(* number of requests under way: type correctness, that no wait is in      *)
(* vain, that keys belong to their names while no answer meets another     *)
(* request, and that a changed key is reported before it is used.          *)
(***************************************************************************)
EXTENDS KeyRequest, SequenceTheorems, TLAPS

Waiting == net.at \in {"waitkey", "waitlist"}

\* The key the network thread was given is for the name it asked for.
GivenBelongs == net.at \in {"gotkey", "store"} /\ net.key # NoKey =>
                  net.key # Junk /\ net.key.of = net.for

\* While nothing was given up or typed raw, what is under way beside the
\* thread's own question, the last one, are requests for profiles.
OneRequest ==
  /\ slot # "stale"
  /\ \A i \in 1 .. Len(wire) : wire[i] = AskProfile \/ (Waiting /\ i = Len(wire))

Calm == ~crossed => OneRequest /\ GivenBelongs

\* Every name with a cached key has a pinned one.
KnownIsPinned == \A p \in Peer : known[p] # NoKey => tofu[p] # NoKey

\* Between the check of a key and its use it stays pinned or reported.
CheckedBeforeStored ==
  net.at = "store" => /\ tofu[net.for] # NoKey
                      /\ net.key = tofu[net.for] \/ net.for \in warned

\* A sender whose receiver still waits is in the slot only then.
LiveWaits == slot = "live" => Waiting

KInv == /\ KTypeOK
        /\ WaitIsAnswered
        /\ LiveWaits
        /\ Calm
        /\ KeysBelong
        /\ ChangeIsReported
        /\ KnownIsPinned
        /\ CheckedBeforeStored

-----------------------------------------------------------------------------

Entry == Key \cup {Junk, Blank}

\* Pairs that may be checked and stored.
Pairs(t) == DOMAIN t \subseteq Peer /\ \A p \in DOMAIN t : t[p] \in Entry

\* The server's tables give names their own keys.
LEMMA TablePairs ==
  ASSUME NEW t \in Tables
  PROVE  Pairs(t) /\ \A p \in DOMAIN t : t[p] \in Key /\ t[p].of = p
BY DEF Tables, Pairs, Entry

\* What is announced, the empty key too, can be checked and stored, and belongs.
LEMMA AnnouncedPairs ==
  ASSUME NEW t \in Announcements
  PROVE  /\ Pairs(t)
         /\ \A p \in DOMAIN t : t[p] # Blank => t[p] # Junk /\ t[p].of = p
<1>1. CASE t \in Tables
  BY <1>1, TablePairs, JunkAssumption DEF Entry
<1>2. CASE \E p \in Peer : t = One(p, Blank)
  BY <1>2 DEF One, Pairs, Entry
<1> QED
  BY <1>1, <1>2 DEF Announcements

\* A question taken from the front leaves the others in their order, and one
\* put last is the last.
LEMMA TakenFront ==
  ASSUME NEW s \in Seq(Requests), s # <<>>
  PROVE  /\ Head(s) = s[1] /\ Head(s) \in Requests /\ Tail(s) \in Seq(Requests)
         /\ Len(Tail(s)) = Len(s) - 1 /\ Len(s) \in Nat /\ Len(s) > 0
         /\ \A i \in 1 .. Len(Tail(s)) : Tail(s)[i] = s[i + 1]
OBVIOUS

LEMMA PutLast ==
  ASSUME NEW s \in Seq(Requests), NEW r \in Requests
  PROVE  /\ Append(s, r) \in Seq(Requests) /\ Append(s, r) # <<>>
         /\ Len(Append(s, r)) = Len(s) + 1 /\ Len(s) \in Nat
         /\ \A i \in 1 .. Len(s) : Append(s, r)[i] = s[i]
         /\ Append(s, r)[Len(s) + 1] = r
OBVIOUS

LEMMA NoPairsTable == NoPairs \in Tables
<1>1. NoPairs \in [{} -> Key]
  BY DEF NoPairs
<1> QED
  BY <1>1 DEF Tables

LEMMA OnePairs ==
  ASSUME NEW p \in Peer, NEW k \in Entry
  PROVE  /\ Pairs(One(p, k))
         /\ DOMAIN One(p, k) = {p}
         /\ One(p, k)[p] = k
BY DEF One, Pairs

\* Tables are maps of stored values, before and after.
LEMMA MapTypes ==
  ASSUME NEW t, Pairs(t), NEW m \in [Peer -> Stored]
  PROVE  /\ Entered(t, m) \in [Peer -> Stored]
         /\ Pinned(t, m) \in [Peer -> Stored]
BY DEF Pairs, Entered, Pinned, Stored, Entry

\* A check pins or reports every pair and unpins none.
LEMMA CheckPins ==
  ASSUME KTypeOK, NEW t, Pairs(t), CheckTofu(t)
  PROVE  /\ \A p \in Peer : tofu[p] # NoKey => tofu'[p] = tofu[p]
         /\ \A p \in DOMAIN t : /\ tofu'[p] # NoKey
                                /\ t[p] = tofu'[p] \/ p \in warned'
         /\ warned \subseteq warned' /\ warned' \in SUBSET Peer
         /\ tofu' \in [Peer -> Stored]
<1>1. tofu' \in [Peer -> Stored]
  BY MapTypes DEF KTypeOK, CheckTofu
<1>2. NoKey \notin Entry
  BY NoKeyAssumption, JunkAssumption, BlankAssumption DEF Entry
<1>3. \A p \in Peer : tofu'[p] = IF p \in DOMAIN t /\ tofu[p] = NoKey THEN t[p] ELSE tofu[p]
  BY DEF CheckTofu, Pinned
<1>4. warned' = warned \cup {p \in DOMAIN t : tofu[p] \notin {NoKey, t[p]}}
  BY DEF CheckTofu
<1> QED
  BY <1>1, <1>2, <1>3, <1>4 DEF Pairs, KTypeOK

\* Storing pairs that are pinned or reported keeps the cache reported.
LEMMA StoreReported ==
  ASSUME KTypeOK, KnownIsPinned, ChangeIsReported,
         NEW t, Pairs(t), Insert(t),
         \A p \in Peer : tofu[p] # NoKey => tofu'[p] = tofu[p],
         warned \subseteq warned',
         \A p \in DOMAIN t : tofu'[p] # NoKey /\ (t[p] = tofu'[p] \/ p \in warned')
  PROVE  KnownIsPinned' /\ ChangeIsReported' /\ known' \in [Peer -> Stored]
<1>1. known' \in [Peer -> Stored]
  BY MapTypes DEF KTypeOK, Insert
<1>2. \A p \in Peer : known'[p] = IF p \in DOMAIN t THEN t[p] ELSE known[p]
  BY DEF Insert, Entered
<1> QED
  BY <1>1, <1>2 DEF KnownIsPinned, ChangeIsReported, Pairs

\* What the server's tables and a belonging key leave in the cache belongs.
LEMMA StoreBelongs ==
  ASSUME KTypeOK, KeysBelong, NEW t, Pairs(t), Insert(t), crossed' = crossed,
         ~crossed => \A p \in DOMAIN t : t[p] # Blank => t[p] # Junk /\ t[p].of = p
  PROVE  KeysBelong'
BY DEF Insert, Entered, KeysBelong, Pairs, KTypeOK

-----------------------------------------------------------------------------

LEMMA InitKInv == KInit => KInv
<1> SUFFICES ASSUME KInit PROVE KInv
  OBVIOUS
<1>1. KTypeOK
  <2>1. NetOK
    BY NoPairsTable DEF KInit, NetOK, Idle, Stored
  <2>2. Nobody \in [Peer -> Stored]
    BY DEF Nobody, Stored
  <2>3. <<>> \in Seq(Requests)
    BY EmptySeq
  <2> QED
    BY <2>1, <2>2, <2>3 DEF KInit, KTypeOK
<1> QED
  BY <1>1 DEF KInit, KInv, WaitIsAnswered, LiveWaits, Calm, OneRequest, GivenBelongs, Waiting, Idle,
     KeysBelong, ChangeIsReported, KnownIsPinned, CheckedBeforeStored, Nobody

-----------------------------------------------------------------------------

\* No record of the network thread is touched by the reader's announcements.
LEMMA AnnouncedKInv ==
  ASSUME KInv, NEW t \in Announcements, Announced(t) PROVE KInv'
<1> USE DEF KInv, Announced
<1>1. Pairs(t) /\ \A p \in DOMAIN t : t[p] # Blank => t[p] # Junk /\ t[p].of = p
  BY AnnouncedPairs
<1>2. /\ \A p \in Peer : tofu[p] # NoKey => tofu'[p] = tofu[p]
      /\ \A p \in DOMAIN t : tofu'[p] # NoKey /\ (t[p] = tofu'[p] \/ p \in warned')
      /\ warned \subseteq warned' /\ warned' \in SUBSET Peer
      /\ tofu' \in [Peer -> Stored]
  BY <1>1, CheckPins
<1>3. KnownIsPinned' /\ ChangeIsReported' /\ known' \in [Peer -> Stored]
  BY <1>1, <1>2, StoreReported
<1>4. KeysBelong'
  BY <1>1, StoreBelongs
<1>5. KTypeOK'
  BY <1>2, <1>3 DEF KTypeOK, NetOK
<1>6. CheckedBeforeStored'
  BY <1>2 DEF CheckedBeforeStored, KTypeOK, NetOK
<1>7. (WaitIsAnswered /\ LiveWaits /\ Calm)'
  BY DEF WaitIsAnswered, LiveWaits, Calm, OneRequest, GivenBelongs, Waiting
<1> QED
  BY <1>3, <1>4, <1>5, <1>6, <1>7

\* Without the question at the front, the last one is the last, and what is
\* said of the others still holds.
LEMMA FrontGone ==
  ASSUME KInv, wire # <<>>, wire' = Tail(wire)
  PROVE  /\ wire' \in Seq(Requests) /\ Head(wire) \in Requests
         /\ wire' # <<>> => wire'[Len(wire')] = wire[Len(wire)]
         /\ wire' = <<>> => Head(wire) = wire[Len(wire)]
         /\ OneRequest => \A i \in 1 .. Len(wire') :
                            wire'[i] = AskProfile \/ (Waiting /\ i = Len(wire'))
         /\ OneRequest /\ wire' # <<>> => Head(wire) = AskProfile
<1>1. wire \in Seq(Requests)
  BY DEF KInv, KTypeOK
<1>2. /\ Head(wire) = wire[1] /\ Head(wire) \in Requests /\ wire' \in Seq(Requests)
      /\ Len(wire') = Len(wire) - 1 /\ Len(wire) \in Nat /\ Len(wire) > 0
      /\ \A i \in 1 .. Len(wire') : wire'[i] = wire[i + 1]
  BY <1>1, TakenFront
<1>3. wire' # <<>> <=> Len(wire) # 1
  BY <1>2
<1>4. wire' # <<>> => wire'[Len(wire')] = wire[Len(wire)]
  BY <1>2, <1>3
<1>5. wire' = <<>> => Head(wire) = wire[Len(wire)]
  BY <1>2, <1>3
<1>6. ASSUME OneRequest
      PROVE  /\ \A i \in 1 .. Len(wire') : wire'[i] = AskProfile \/ (Waiting /\ i = Len(wire'))
             /\ wire' # <<>> => Head(wire) = AskProfile
  <2>1. \A i \in 1 .. Len(wire) : wire[i] = AskProfile \/ (Waiting /\ i = Len(wire))
    BY <1>6 DEF OneRequest
  <2>2. ASSUME NEW i \in 1 .. Len(wire')
        PROVE  wire'[i] = AskProfile \/ (Waiting /\ i = Len(wire'))
    <3>1. Len(wire') = Len(wire) - 1 /\ Len(wire) \in Nat
      BY <1>2
    <3>2. i \in 1 .. Len(wire) - 1
      BY <3>1
    <3>3. i + 1 \in 1 .. Len(wire)
      BY <3>1, <3>2
    <3>4. i + 1 = Len(wire) => i = Len(wire')
      <4>1. i \in Int
        BY <3>1, <3>2
      <4>2. \A n \in Nat : i + 1 = n => i = n - 1
        BY <4>1
      <4> QED
        BY <3>1, <4>2
    <3>5. wire'[i] = wire[i + 1]
      BY <1>2
    <3> QED
      BY <2>1, <3>3, <3>4, <3>5
  <2>3. wire' # <<>> => Head(wire) = AskProfile
    <3>1. 1 \in 1 .. Len(wire) /\ (wire' # <<>> => 1 # Len(wire))
      BY <1>2, <1>3
    <3> QED
      BY <1>2, <2>1, <3>1
  <2> QED
    BY <2>2, <2>3
<1> QED
  BY <1>2, <1>4, <1>5, <1>6

\* The questions differ.
LEMMA Questions ==
  ASSUME NEW p \in Peer
  PROVE  AskFor(p) # AskProfile /\ AskMembers # AskProfile /\ AskFor(p) # AskMembers
BY DEF AskFor, AskMembers, AskProfile

\* An answer reaches the thread that waits, and while nothing crosses it is
\* the answer to that thread's request.
LEMMA AnsweredKInv ==
  ASSUME KInv, Answered PROVE KInv'
<1> USE DEF KInv
<1>1. /\ wire # <<>>
      /\ wire' = Tail(wire)
      /\ slot' = "free"
      /\ UNCHANGED <<known, tofu, disk, warned>>
      /\ crossed' = (crossed \/ (slot = "live" /\ Head(wire) = AskProfile))
  BY DEF Answered
<1>2. PICK body \in AnswersTo(Head(wire)) :
        IF slot = "live" THEN Deliver(Head(wire), body) ELSE UNCHANGED net
  BY DEF Answered
<1>3. /\ wire' \in Seq(Requests) /\ Head(wire) \in Requests
      /\ wire' = <<>> => Head(wire) = wire[Len(wire)]
      /\ OneRequest => \A i \in 1 .. Len(wire') :
                         wire'[i] = AskProfile \/ (Waiting /\ i = Len(wire'))
      /\ OneRequest /\ wire' # <<>> => Head(wire) = AskProfile
  BY <1>1, FrontGone
<1>4. KeysBelong' /\ ChangeIsReported' /\ KnownIsPinned'
  BY <1>1 DEF KeysBelong, ChangeIsReported, KnownIsPinned
<1>5. crossed' \in BOOLEAN
  BY <1>1 DEF KTypeOK
<1>6. CASE slot # "live"
  <2>1. UNCHANGED net
    BY <1>2, <1>6
  <2>2. ~Waiting
    BY <1>6 DEF WaitIsAnswered, Waiting
  <2>3. Calm'
    BY <1>1, <1>3, <1>6, <2>1, <2>2 DEF Calm, OneRequest, GivenBelongs, Waiting
  <2> QED
    BY <1>1, <1>3, <1>4, <1>5, <2>1, <2>2, <2>3
       DEF KTypeOK, NetOK, WaitIsAnswered, LiveWaits, Waiting, CheckedBeforeStored
<1>7. CASE slot = "live"
  <2>1. Waiting
    BY <1>7 DEF LiveWaits
  <2>2. Deliver(Head(wire), body)
    BY <1>2, <1>7
  <2>3. ~crossed' => ~crossed /\ Head(wire) # AskProfile
    BY <1>1, <1>7
  <2>4. ~crossed' => wire' = <<>> /\ Head(wire) = wire[Len(wire)]
    BY <1>3, <2>3 DEF Calm
  <2>5. CASE net.at = "waitkey"
    <3>1. net' = [net EXCEPT !.at = "gotkey",
                             !.key = IF Head(wire).q = "members" THEN Junk ELSE body]
      BY <2>2, <2>5 DEF Deliver
    <3>2. Head(wire).q # "members" => body \in Key \cup {NoKey}
      BY <1>2, <1>3 DEF AnswersTo, Requests, AskFor, AskMembers, AskProfile
    <3>3. NetOK' /\ net'.at = "gotkey" /\ net'.for = net.for /\ net.for \in Peer
      BY <2>5, <3>1, <3>2 DEF KTypeOK, NetOK, Stored
    <3>4. ~crossed' => Head(wire) = AskFor(net.for)
      BY <2>4, <2>5 DEF WaitIsAnswered
    <3>5. ~crossed' => body \in {NoKey} \cup {k \in Key : k.of = net.for}
      BY <1>2, <3>4 DEF AnswersTo, AskFor
    <3>6. ~crossed' => net'.key = body
      BY <3>1, <3>4 DEF KTypeOK, NetOK, AskFor
    <3>7. Calm'
      <4>1. ~crossed' => OneRequest'
        BY <1>1, <2>4 DEF OneRequest
      <4>2. ~crossed' => GivenBelongs'
        BY <3>3, <3>5, <3>6, JunkAssumption DEF GivenBelongs
      <4> QED
        BY <4>1, <4>2 DEF Calm
    <3> QED
      BY <1>1, <1>3, <1>4, <1>5, <3>3, <3>7
         DEF KTypeOK, WaitIsAnswered, LiveWaits, CheckedBeforeStored
  <2>6. CASE net.at = "waitlist"
    <3>1. net' = [net EXCEPT !.at = "gotlist",
                             !.list = IF Head(wire).q = "members" THEN body ELSE NoPairs]
      BY <2>2, <2>6 DEF Deliver
    <3>2. Head(wire).q = "members" => body \in Tables
      BY <1>2, <1>3 DEF AnswersTo, Requests, AskFor, AskMembers, AskProfile
    <3>3. NetOK'
      BY <2>6, <3>1, <3>2, NoPairsTable DEF KTypeOK, NetOK
    <3>4. net'.at = "gotlist"
      BY <3>1 DEF KTypeOK, NetOK
    <3>5. Calm'
      BY <1>1, <2>4, <3>4 DEF Calm, OneRequest, GivenBelongs, Waiting
    <3> QED
      BY <1>1, <1>3, <1>4, <1>5, <3>3, <3>4, <3>5
         DEF KTypeOK, WaitIsAnswered, LiveWaits, CheckedBeforeStored
  <2> QED
    BY <2>1, <2>5, <2>6 DEF Waiting
<1> QED
  BY <1>6, <1>7

\* A profile is taken from the front, where a waiting thread has not its own
\* question.
LEMMA ProfiledKInv ==
  ASSUME KInv, Profiled PROVE KInv'
<1> USE DEF KInv
<1>1. /\ wire # <<>> /\ Head(wire) = AskProfile /\ wire' = Tail(wire)
      /\ UNCHANGED <<slot, net, known, tofu, disk, warned, crossed>>
  BY DEF Profiled
<1>2. /\ wire' \in Seq(Requests)
      /\ wire' # <<>> => wire'[Len(wire')] = wire[Len(wire)]
      /\ wire' = <<>> => Head(wire) = wire[Len(wire)]
      /\ OneRequest => \A i \in 1 .. Len(wire') :
                         wire'[i] = AskProfile \/ (Waiting /\ i = Len(wire'))
  BY <1>1, FrontGone
<1>3. net.at = "waitkey" => net.for \in Peer
  BY DEF KTypeOK, NetOK
<1>4. WaitIsAnswered'
  <2>1. CASE net.at = "waitkey"
    <3>1. slot = "live" /\ wire[Len(wire)] = AskFor(net.for) /\ AskFor(net.for) # AskProfile
      BY <1>3, <2>1, Questions DEF WaitIsAnswered
    <3> QED
      BY <1>1, <1>2, <2>1, <3>1 DEF WaitIsAnswered
  <2>2. CASE net.at = "waitlist"
    <3>1. slot = "live" /\ wire[Len(wire)] = AskMembers /\ AskMembers # AskProfile
      BY <2>2 DEF WaitIsAnswered, AskMembers, AskProfile
    <3> QED
      BY <1>1, <1>2, <2>2, <3>1 DEF WaitIsAnswered
  <2>3. CASE net.at \notin {"waitkey", "waitlist"}
    BY <1>1, <2>3 DEF WaitIsAnswered
  <2> QED
    BY <2>1, <2>2, <2>3
<1>5. Calm'
  BY <1>1, <1>2 DEF Calm, OneRequest, GivenBelongs, Waiting
<1> QED
  BY <1>1, <1>2, <1>4, <1>5 DEF KTypeOK, NetOK, LiveWaits, Waiting, KeysBelong, ChangeIsReported,
     KnownIsPinned, CheckedBeforeStored

\* A new request fills the slot; while nothing crosses there is no other but
\* for profiles.
LEMMA RequestKInv ==
  ASSUME KInv, net.at = "idle",
         NEW at \in {"waitkey", "waitlist"}, NEW p \in Peer \cup {NoKey}, NEW req \in Requests,
         at = "waitkey" => p \in Peer /\ req = AskFor(p),
         at = "waitlist" => req = AskMembers,
         Request(at, p, req)
  PROVE  KInv'
<1> USE DEF KInv
<1>1. /\ slot' = "live"
      /\ wire' = Append(wire, req)
      /\ net' = [Idle EXCEPT !.at = at, !.for = p]
      /\ UNCHANGED <<known, tofu, disk, warned, crossed>>
  BY DEF Request
<1>2. wire \in Seq(Requests)
  BY DEF KTypeOK
<1>3. /\ wire' \in Seq(Requests) /\ wire' # <<>>
      /\ Len(wire') = Len(wire) + 1 /\ Len(wire) \in Nat
      /\ \A i \in 1 .. Len(wire) : wire'[i] = wire[i]
      /\ wire'[Len(wire) + 1] = req
  BY <1>1, <1>2, PutLast
<1>4. net' = [at |-> at, for |-> p, key |-> NoKey, list |-> NoPairs]
  BY <1>1 DEF Idle
<1>5. NetOK'
  BY <1>4, NoPairsTable DEF NetOK, Stored
<1>6. ~Waiting /\ Waiting'
  BY <1>4 DEF Waiting
<1>7. ~crossed => \A i \in 1 .. Len(wire') : wire'[i] = AskProfile \/ i = Len(wire')
  BY <1>3, <1>6 DEF Calm, OneRequest
<1>8. Calm'
  BY <1>1, <1>4, <1>6, <1>7 DEF Calm, OneRequest, GivenBelongs
<1>9. KeysBelong' /\ ChangeIsReported' /\ KnownIsPinned'
  BY <1>1 DEF KeysBelong, ChangeIsReported, KnownIsPinned
<1>10. WaitIsAnswered'
  BY <1>1, <1>3, <1>4 DEF WaitIsAnswered
<1> QED
  BY <1>1, <1>3, <1>4, <1>5, <1>6, <1>8, <1>9, <1>10
     DEF KTypeOK, LiveWaits, CheckedBeforeStored

LEMMA TimeOutKInv ==
  ASSUME KInv, TimeOut PROVE KInv'
<1> USE DEF KInv, TimeOut
<1>1. NetOK' /\ net'.at = "idle"
  BY NoPairsTable DEF NetOK, Idle, Stored
<1>2. KTypeOK'
  BY <1>1 DEF KTypeOK
<1> QED
  BY <1>1, <1>2 DEF WaitIsAnswered, LiveWaits, Calm, Waiting, KeysBelong, ChangeIsReported,
     KnownIsPinned, CheckedBeforeStored

LEMMA CheckKeyKInv ==
  ASSUME KInv, CheckKey PROVE KInv'
<1> USE DEF KInv
<1>1. /\ net.at = "gotkey" /\ net.for \in Peer /\ net.key \in Stored
      /\ UNCHANGED <<wire, slot, known, disk, crossed>>
  BY DEF CheckKey, KTypeOK, NetOK
<1>2. CASE net.key = NoKey
  <2>1. net' = Idle /\ UNCHANGED <<tofu, warned>>
    BY <1>2 DEF CheckKey
  <2>2. NetOK' /\ net'.at = "idle"
    BY <2>1, NoPairsTable DEF NetOK, Idle, Stored
  <2> QED
    BY <1>1, <2>1, <2>2 DEF KTypeOK, WaitIsAnswered, LiveWaits, Calm, OneRequest, GivenBelongs,
       Waiting, KeysBelong, ChangeIsReported, KnownIsPinned, CheckedBeforeStored
<1>3. CASE net.key # NoKey
  <2> DEFINE t == One(net.for, net.key)
  <2>1. net' = [net EXCEPT !.at = "store"] /\ CheckTofu(t)
    BY <1>3 DEF CheckKey
  <2>2. Pairs(t) /\ DOMAIN t = {net.for} /\ t[net.for] = net.key
    BY <1>1, <1>3, OnePairs DEF Stored, Entry
  <2> HIDE DEF t
  <2>3. /\ \A p \in Peer : tofu[p] # NoKey => tofu'[p] = tofu[p]
        /\ \A p \in DOMAIN t : tofu'[p] # NoKey /\ (t[p] = tofu'[p] \/ p \in warned')
        /\ warned \subseteq warned' /\ warned' \in SUBSET Peer
        /\ tofu' \in [Peer -> Stored]
    BY <2>1, <2>2, CheckPins
  <2>4. NetOK' /\ net'.at = "store" /\ net'.for = net.for /\ net'.key = net.key
    BY <1>1, <1>3, <2>1 DEF KTypeOK, NetOK
  <2>5. KTypeOK'
    BY <1>1, <2>3, <2>4 DEF KTypeOK
  <2>6. CheckedBeforeStored'
    BY <2>2, <2>3, <2>4 DEF CheckedBeforeStored
  <2>7. KnownIsPinned' /\ ChangeIsReported'
    BY <1>1, <2>3 DEF KnownIsPinned, ChangeIsReported
  <2>8. Calm'
    BY <1>1, <2>4 DEF Calm, OneRequest, GivenBelongs, Waiting
  <2> QED
    BY <1>1, <2>4, <2>5, <2>6, <2>7, <2>8 DEF WaitIsAnswered, LiveWaits, Waiting, KeysBelong
<1> QED
  BY <1>2, <1>3

LEMMA StoreKeyKInv ==
  ASSUME KInv, StoreKey PROVE KInv'
<1> USE DEF KInv
<1> DEFINE t == One(net.for, net.key)
<1>1. /\ net.at = "store" /\ net.for \in Peer /\ net.key \in Entry
      /\ net' = Idle /\ Insert(t)
      /\ UNCHANGED <<wire, slot, tofu, disk, warned, crossed>>
  BY DEF StoreKey, KTypeOK, NetOK, Stored, Entry
<1>2. Pairs(t) /\ DOMAIN t = {net.for} /\ t[net.for] = net.key
  BY <1>1, OnePairs
<1> HIDE DEF t
<1>3. KnownIsPinned' /\ ChangeIsReported' /\ known' \in [Peer -> Stored]
  <2>1. \A p \in DOMAIN t : tofu'[p] # NoKey /\ (t[p] = tofu'[p] \/ p \in warned')
    BY <1>1, <1>2 DEF CheckedBeforeStored
  <2> QED
    BY <1>1, <1>2, <2>1, StoreReported
<1>4. KeysBelong'
  <2>1. net.key # NoKey
    BY <1>1, NoKeyAssumption, JunkAssumption, BlankAssumption DEF Entry
  <2>2. ~crossed => \A p \in DOMAIN t : t[p] # Junk /\ t[p].of = p
    BY <1>1, <1>2, <2>1 DEF Calm, GivenBelongs
  <2> QED
    BY <1>1, <1>2, <2>2, StoreBelongs
<1>5. NetOK' /\ net'.at = "idle"
  BY <1>1, NoPairsTable DEF NetOK, Idle, Stored
<1>6. KTypeOK'
  BY <1>1, <1>3, <1>5 DEF KTypeOK
<1>7. Calm'
  BY <1>1, <1>5 DEF Calm, OneRequest, GivenBelongs, Waiting
<1> QED
  BY <1>1, <1>3, <1>4, <1>5, <1>6, <1>7 DEF WaitIsAnswered, LiveWaits, Waiting, CheckedBeforeStored

LEMMA StoreListKInv ==
  ASSUME KInv, StoreList PROVE KInv'
<1> USE DEF KInv
<1> DEFINE t == net.list
<1>1. /\ net.at = "gotlist" /\ t \in Tables
      /\ net' = Idle /\ CheckTofu(t) /\ Insert(t)
      /\ UNCHANGED <<wire, slot, disk, crossed>>
  BY DEF StoreList, KTypeOK, NetOK
<1> HIDE DEF t
<1>2. Pairs(t) /\ \A p \in DOMAIN t : t[p] \in Key /\ t[p].of = p
  BY <1>1, TablePairs
<1>3. /\ \A p \in Peer : tofu[p] # NoKey => tofu'[p] = tofu[p]
      /\ \A p \in DOMAIN t : tofu'[p] # NoKey /\ (t[p] = tofu'[p] \/ p \in warned')
      /\ warned \subseteq warned' /\ warned' \in SUBSET Peer
      /\ tofu' \in [Peer -> Stored]
  BY <1>1, <1>2, CheckPins
<1>4. KnownIsPinned' /\ ChangeIsReported' /\ known' \in [Peer -> Stored]
  BY <1>1, <1>2, <1>3, StoreReported
<1>5. KeysBelong'
  BY <1>1, <1>2, StoreBelongs, JunkAssumption
<1>6. NetOK' /\ net'.at = "idle"
  BY <1>1, NoPairsTable DEF NetOK, Idle, Stored
<1>7. KTypeOK'
  BY <1>1, <1>3, <1>4, <1>6 DEF KTypeOK
<1>8. Calm'
  BY <1>1, <1>6 DEF Calm, OneRequest, GivenBelongs, Waiting
<1> QED
  BY <1>1, <1>4, <1>5, <1>6, <1>7, <1>8 DEF WaitIsAnswered, LiveWaits, Waiting, CheckedBeforeStored

LEMMA TypeRawKInv ==
  ASSUME KInv, NEW req \in Requests, TypeRaw(req) PROVE KInv'
<1> USE DEF KInv, TypeRaw
<1>1. wire' \in Seq(Requests)
  BY DEF KTypeOK
<1>2. KTypeOK'
  BY <1>1 DEF KTypeOK, NetOK
<1> QED
  BY <1>2 DEF WaitIsAnswered, LiveWaits, Calm, Waiting, KeysBelong, ChangeIsReported,
     KnownIsPinned, CheckedBeforeStored

LEMMA WhoisKInv ==
  ASSUME KInv, Whois PROVE KInv'
<1> USE DEF KInv, Whois
<1>1. AskProfile \in Requests /\ wire \in Seq(Requests)
  BY DEF Requests, KTypeOK
<1>2. /\ wire' \in Seq(Requests) /\ Len(wire') = Len(wire) + 1 /\ Len(wire) \in Nat
      /\ \A i \in 1 .. Len(wire) : wire'[i] = wire[i]
      /\ wire'[Len(wire) + 1] = AskProfile
  BY <1>1, PutLast
<1>3. KTypeOK'
  BY <1>2 DEF KTypeOK, NetOK
<1>4. ~Waiting
  BY DEF Waiting
<1>5. OneRequest => OneRequest'
  BY <1>2, <1>4 DEF OneRequest, Waiting
<1> QED
  BY <1>3, <1>4, <1>5 DEF WaitIsAnswered, LiveWaits, Calm, GivenBelongs, Waiting, KeysBelong,
     ChangeIsReported, KnownIsPinned, CheckedBeforeStored

\* Trust makes the cached key the pinned one, so there is nothing to report.
LEMMA TrustKInv ==
  ASSUME KInv, NEW p \in Peer, Trust(p) PROVE KInv'
<1> USE DEF KInv, Trust
<1>1. KTypeOK'
  BY DEF KTypeOK, NetOK
<1>2. KnownIsPinned' /\ ChangeIsReported'
  BY DEF KnownIsPinned, ChangeIsReported, KTypeOK
<1> QED
  BY <1>1, <1>2 DEF WaitIsAnswered, LiveWaits, Calm, OneRequest, GivenBelongs, Waiting,
     KeysBelong, CheckedBeforeStored

LEMMA ReconnectKInv ==
  ASSUME KInv, Reconnect, UNCHANGED disk, tofu' \in {tofu, disk} PROVE KInv'
<1> USE DEF KInv, Reconnect
<1>1. NetOK' /\ net'.at = "idle"
  BY NoPairsTable DEF NetOK, Idle, Stored
<1>2. wire' \in Seq(Requests)
  BY EmptySeq
<1>3. known' = [p \in Peer |-> NoKey] /\ known' \in [Peer -> Stored]
  BY DEF Nobody, Stored
<1>4. KTypeOK'
  BY <1>1, <1>2, <1>3 DEF KTypeOK
<1> QED
  BY <1>1, <1>3, <1>4 DEF WaitIsAnswered, LiveWaits, Calm, OneRequest, GivenBelongs, Waiting,
     KeysBelong, ChangeIsReported, KnownIsPinned, CheckedBeforeStored

-----------------------------------------------------------------------------

LEMMA StepKInv == KInv /\ [KNext]_kvars => KInv'
<1> SUFFICES ASSUME KInv, [KNext]_kvars PROVE KInv'
  OBVIOUS
<1>1. CASE UNCHANGED kvars
  BY <1>1 DEF kvars, KInv, KTypeOK, NetOK, WaitIsAnswered, LiveWaits, Calm, OneRequest,
     GivenBelongs, Waiting, KeysBelong, ChangeIsReported, KnownIsPinned, CheckedBeforeStored
<1>2. CASE Reader
  BY <1>2, AnnouncedKInv, AnsweredKInv, ProfiledKInv DEF Reader
<1>3. CASE Network
  BY <1>3, TimeOutKInv, CheckKeyKInv, StoreKeyKInv, StoreListKInv DEF Network
<1>4. CASE User
  <2>1. ASSUME NEW p \in Peer, AskKey(p) PROVE KInv'
    <3>1. AskFor(p) \in Requests
      BY DEF Requests
    <3> QED
      BY <2>1, <3>1, RequestKInv DEF AskKey
  <2>2. ASSUME AskList PROVE KInv'
    <3>1. AskMembers \in Requests
      BY DEF Requests
    <3> QED
      BY <2>2, <3>1, RequestKInv DEF AskList
  <2>3. ASSUME NEW p \in Peer, TypeRaw(AskFor(p)) PROVE KInv'
    BY <2>3, TypeRawKInv DEF Requests
  <2>4. ASSUME TypeRaw(AskMembers) PROVE KInv'
    BY <2>4, TypeRawKInv DEF Requests
  <2>5. ASSUME Relogin PROVE KInv'
    BY <2>5, ReconnectKInv DEF Relogin
  <2>6. ASSUME Restart PROVE KInv'
    BY <2>6, ReconnectKInv DEF Restart
  <2> QED
    BY <1>4, <2>1, <2>2, <2>3, <2>4, <2>5, <2>6, WhoisKInv, TrustKInv DEF User
<1> QED
  BY <1>1, <1>2, <1>3, <1>4 DEF KNext

\* Every variable has its type, and while the thread waits its own question is
\* under way and its sender in the slot (net.rs:117).
THEOREM WaitsAreAnswered == KSpec => [](KTypeOK /\ WaitIsAnswered)
<1>1. KInv => KTypeOK /\ WaitIsAnswered
  BY DEF KInv
<1> QED
  BY <1>1, InitKInv, StepKInv, PTL DEF KSpec

\* One slot is enough while no answer is late, none raw, and no ERR of a /whois
\* meets a request that waits (net.rs:117, 253, main.go:854).
THEOREM CalmKeysBelong == KSpec => []KeysBelong
<1>1. KInv => KeysBelong
  BY DEF KInv
<1> QED
  BY <1>1, InitKInv, StepKInv, PTL DEF KSpec

\* On every path a changed key is reported before it is used (net.rs:77).
THEOREM ChangesAreReported == KSpec => []ChangeIsReported
<1>1. KInv => ChangeIsReported
  BY DEF KInv
<1> QED
  BY <1>1, InitKInv, StepKInv, PTL DEF KSpec

=============================================================================
