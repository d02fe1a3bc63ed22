--------------------------- MODULE DeliveryProofs ---------------------------
(***************************************************************************)
(* Proofs about Delivery, for any people, any names and any number of      *)
(* texts and of changes: types, that only people a text was for can read   *)
(* it, that texts appear in order, and that whoever stays in the room      *)
(* reads them all.                                                         *)
(***************************************************************************)
EXTENDS Delivery, FiniteSetTheorems, TLAPS

Textual == {M(t, n, k) : t \in Text, n \in Name, k \in Person}

Once(S) == \A d, e \in S : d[2] = e[2] => d = e
Lists == {S \in SUBSET (Name \X (Person \cup {Garbage})) : IsFiniteSet(S) /\ Once(S)}
Resp == {List(S) : S \in Lists} \cup {KeyOf(k) : k \in Key} \cup {Err}
Downward == Resp \cup {New(n, p) : n \in Name, p \in Person}

-----------------------------------------------------------------------------
(* Sequences *)

LEMMA Taken ==
  ASSUME NEW S, NEW s \in Seq(S), s # <<>>
  PROVE  /\ Tail(s) \in Seq(S)
         /\ Head(s) \in S
         /\ 1 \in DOMAIN s /\ Head(s) = s[1]
         /\ \A i \in DOMAIN Tail(s) : i + 1 \in DOMAIN s /\ Tail(s)[i] = s[i + 1]
         /\ \A i \in DOMAIN Tail(s) : i \in Nat /\ i + 1 # 1
OBVIOUS

LEMMA Added ==
  ASSUME NEW S, NEW s \in Seq(S), NEW x \in S
  PROVE  /\ Append(s, x) \in Seq(S)
         /\ DOMAIN Append(s, x) = DOMAIN s \cup {Len(s) + 1}
         /\ \A i \in DOMAIN s : Append(s, x)[i] = s[i]
         /\ Append(s, x)[Len(s) + 1] = x
         /\ Len(s) + 1 \notin DOMAIN s
OBVIOUS

LEMMA Joined ==
  ASSUME NEW S, NEW s \in Seq(S), NEW r \in Seq(S)
  PROVE  /\ s \o r \in Seq(S)
         /\ \A i \in DOMAIN (s \o r) :
              \/ i \in DOMAIN s /\ (s \o r)[i] = s[i]
              \/ i - Len(s) \in DOMAIN r /\ (s \o r)[i] = r[i - Len(s)]
OBVIOUS

LEMMA FunctionAsSequence ==
  ASSUME NEW S, NEW n \in Nat, NEW f \in [1 .. n -> S]
  PROVE  f \in Seq(S) /\ Len(f) = n
OBVIOUS

LEMMA ListInOrder ==
  ASSUME NEW S, IsFiniteSet(S)
  PROVE  /\ SetToSeq(S) \in Seq(S)
         /\ \A i, j \in DOMAIN SetToSeq(S) : i # j => SetToSeq(S)[i] # SetToSeq(S)[j]
<1>1. Cardinality(S) \in Nat /\ ExistsBijection(1 .. Cardinality(S), S)
  BY FS_CardinalityType
<1>2. \E f \in [1 .. Cardinality(S) -> S] : IsInjective(f)
  BY <1>1 DEF ExistsBijection, Bijection, Injection
<1>3. SetToSeq(S) \in [1 .. Cardinality(S) -> S] /\ IsInjective(SetToSeq(S))
  BY <1>2 DEF SetToSeq
<1> QED  BY <1>1, <1>3 DEF IsInjective

LEMMA TargetsOfList ==
  ASSUME NEW list \in Lists
  PROVE  /\ IsFiniteSet(Targets(list)) /\ Once(Targets(list)) /\ Targets(list) \subseteq list
         /\ \A e \in Targets(list) : e[1] \in Name /\ e[2] \in Person
<1>1. Targets(list) \subseteq list /\ IsFiniteSet(list) /\ Once(list)
  BY DEF Targets, Lists
<1>2. list \subseteq Name \X (Person \cup {Garbage})
  BY DEF Lists
<1>3. \A e \in Targets(list) : e[1] \in Name /\ e[2] \in Person
  BY <1>1, <1>2 DEF Targets
<1> QED  BY <1>1, <1>3, FS_Subset DEF Once

LEMMA FramesOfList ==
  ASSUME NEW t \in Text, NEW list \in Lists
  PROVE  /\ Frames(t, list) \in Seq(Textual)
         /\ \A i \in DOMAIN Frames(t, list) :
              \E e \in list : e[2] \in Person /\ Frames(t, list)[i] = M(t, e[1], e[2])
         /\ \A i, j \in DOMAIN Frames(t, list) :
              i # j => Frames(t, list)[i].key # Frames(t, list)[j].key
<1> DEFINE s == SetToSeq(Targets(list))
<1>1. s \in Seq(Targets(list))
  BY TargetsOfList, ListInOrder
<1>2. Frames(t, list) = [i \in DOMAIN s |-> M(t, s[i][1], s[i][2])]
  BY DEF Frames
<1>3. ASSUME NEW i \in DOMAIN s
      PROVE  /\ s[i] \in Targets(list) /\ s[i] \in list /\ s[i][2] \in Person
             /\ M(t, s[i][1], s[i][2]) \in Textual
  <2>1. s[i] \in Targets(list)
    BY <1>1
  <2>2. s[i] \in list /\ s[i][1] \in Name /\ s[i][2] \in Person
    BY <2>1, TargetsOfList
  <2> QED  BY <2>1, <2>2 DEF Textual
<1>4. DOMAIN s = 1 .. Len(s) /\ Len(s) \in Nat
  BY <1>1
<1> HIDE DEF s
<1>5. Frames(t, list) \in Seq(Textual)
  BY <1>2, <1>3, <1>4
<1>6. \A i \in DOMAIN s : Frames(t, list)[i].key = s[i][2]
  BY <1>2 DEF M
<1>7. \A i, j \in DOMAIN s : i # j => s[i][2] # s[j][2]
  <2>1. \A i, j \in DOMAIN s : i # j => s[i] # s[j]
    BY TargetsOfList, ListInOrder DEF s
  <2> QED  BY <1>3, <2>1, TargetsOfList DEF Once
<1> QED  BY <1>2, <1>3, <1>5, <1>6, <1>7

-----------------------------------------------------------------------------
(* The invariant *)

PeopleOK == /\ name \in [Person -> Name]
            /\ \A p, q \in Person : name[p] = name[q] => p = q
            /\ mine \in Name /\ \A p \in Person : name[p] # mine
            /\ on \subseteq Person /\ in \subseteq on
            /\ knows \subseteq Person /\ news \subseteq on
            /\ changes \in 0 .. Changes

KindsOK == kind \in Seq(Name \cup {ToRoom}) /\ Len(kind) <= Texts

HistoryOK == /\ stay \in Seq(SUBSET Person) /\ Len(stay) = Len(kind)
             /\ might \in Seq(SUBSET Person) /\ Len(might) = Len(kind)

CommandsOK == cmds \in Seq(DOMAIN kind)

SenderOK == /\ told \subseteq DOMAIN kind /\ failed \subseteq DOMAIN kind
            /\ crossed \in BOOLEAN
            /\ known \in [Name -> Key]

NetOK == /\ \/ net = Idle
            \/ \E t \in DOMAIN kind : net = Asking(t)
            \/ \E t \in DOMAIN kind, r \in Resp : net = Got(t, r)
         /\ slot \in {"none", "live", "dead"}
         /\ slot = "live" <=> net.at = "ask"

UpOK == up \in Seq(Frame)

DownOK == down \in Seq(Downward)

SockOK == sock \in [Person -> Seq(Textual)]

ShownOK == shown \in [Person -> Seq(DOMAIN kind)]

TypesOK == /\ PeopleOK /\ KindsOK /\ HistoryOK /\ CommandsOK /\ SenderOK
           /\ NetOK /\ UpOK /\ DownOK /\ SockOK /\ ShownOK

\* A frame for a name carries the name, one for the room the key of a member.
Addressed(f) ==
  /\ f.text \in DOMAIN kind
  /\ IF kind[f.text] = ToRoom THEN ~crossed => f.key \in might[f.text]
                              ELSE f.to = kind[f.text]

UpAddressed == \A i \in DOMAIN up : up[i].type = "text" => Addressed(up[i])

\* Who can read a frame it was sent is one the text was for.
Readable(p, f) == /\ f.text \in DOMAIN kind
                  /\ f.key = p /\ ~crossed => p \in might[f.text]

SockReadable == \A p \in Person : \A i \in DOMAIN sock[p] : Readable(p, sock[p][i])

\* An answer that text t may get lists people it was for.
Fits(r, t) ==
  kind[t] = ToRoom /\ ~crossed => \A e \in r.list : e[2] \in Person => e[2] \in might[t]

NetFits ==
  /\ net.at = "got" => Fits(net.resp, net.text)
  /\ net.at = "ask" => \A i \in DOMAIN down : down[i].type = "resp" => Fits(down[i], net.text)

\* One request is under way at most, and none when the slot is empty.
Asks(f) == f.type \in {"members", "pubkey"}

Calm == ~crossed =>
  /\ \A i, j \in DOMAIN up : Asks(up[i]) /\ Asks(up[j]) => i = j
  /\ \A i, j \in DOMAIN down : down[i].type = "resp" /\ down[j].type = "resp" => i = j
  /\ \A i \in DOMAIN up, j \in DOMAIN down : ~(Asks(up[i]) /\ down[j].type = "resp")
  /\ slot = "none" => /\ \A i \in DOMAIN up : ~Asks(up[i])
                      /\ \A j \in DOMAIN down : down[j].type # "resp"

DInv == /\ TypesOK
        /\ UpAddressed /\ SockReadable /\ NetFits /\ Calm
        /\ ReadByRecipients

LEMMA TypesImplied ==
  TypesOK => DeliveryOK
<1> SUFFICES ASSUME TypesOK PROVE DeliveryOK
  OBVIOUS
<1>1. Textual = {f \in Frame : f.type = "text"}
  BY DEF Textual, Frame, AskMembers, AskKey, AskProfile, M
<1>2. \A i \in DOMAIN down : down[i].type \in {"resp", "err", "new"}
  BY DEF TypesOK, DownOK, Downward, Resp, List, KeyOf, Err, New
<1>3. net = Idle \/ (net.at \in {"ask", "got"} /\ net.text \in DOMAIN kind)
  BY DEF TypesOK, NetOK, Asking, Got
<1>4. sock \in [Person -> Seq({f \in Frame : f.type = "text"})]
  BY <1>1 DEF TypesOK, SockOK
<1> QED
  BY <1>2, <1>3, <1>4 DEF TypesOK, PeopleOK, KindsOK, HistoryOK, CommandsOK, SenderOK,
                          NetOK, UpOK, ShownOK, DeliveryOK

LEMMA InitDInv ==
  DInit => DInv
<1> SUFFICES ASSUME DInit PROVE DInv
  OBVIOUS
<1>1. PeopleOK
  <2>1. on = Person /\ in = Person /\ knows = Person
    BY DEF DInit
  <2>2. changes \in 0 .. Changes
    BY BoundAssumption DEF DInit
  <2>3. news = {}
    BY DEF DInit
  <2>4. /\ name \in [Person -> Name] /\ mine \in Name
        /\ \A p, q \in Person : name[p] = name[q] => p = q
        /\ \A p \in Person : name[p] # mine
    BY StartAssumption DEF DInit
  <2> QED  BY <2>1, <2>2, <2>3, <2>4 DEF PeopleOK
<1>2. known \in [Name -> Key]
  <2>1. ASSUME NEW n \in Name
        PROVE  (IF n = Me THEN Garbage
                ELSE IF \E p \in Person : First[p] = n
                 THEN CHOOSE p \in Person : First[p] = n ELSE Nobody) \in Key
    <3>1. CASE \E p \in Person : First[p] = n
      BY <3>1 DEF Key
    <3> QED  BY <3>1 DEF Key
  <2> QED  BY <2>1 DEF DInit
<1>3. KindsOK /\ HistoryOK /\ CommandsOK /\ ShownOK /\ SockOK /\ UpOK /\ DownOK
  BY BoundAssumption DEF DInit, KindsOK, HistoryOK, CommandsOK, ShownOK, SockOK, UpOK, DownOK
<1>4. SenderOK /\ NetOK
  BY <1>2 DEF DInit, SenderOK, NetOK, Idle
<1>5. UpAddressed /\ SockReadable /\ NetFits /\ Calm /\ ReadByRecipients
  BY DEF DInit, UpAddressed, SockReadable, NetFits, Calm, ReadByRecipients, Idle
<1> QED  BY <1>1, <1>3, <1>4, <1>5 DEF DInv, TypesOK

-----------------------------------------------------------------------------
(* What a step leaves alone *)

\* Texts keep their kinds, whom a text might be for only grows, and a
\* crossed answer stays crossed.
Grows == /\ DOMAIN kind \subseteq DOMAIN kind'
         /\ \A t \in DOMAIN kind : kind'[t] = kind[t] /\ might[t] \subseteq might'[t]
         /\ crossed => crossed'

LEMMA Recorded ==
  ASSUME TypesOK, PeopleOK', KindsOK', Record, crossed => crossed',
         kind' = kind \/ \E k \in Name \cup {ToRoom} : kind' = Append(kind, k)
  PROVE  /\ Grows /\ HistoryOK'
         /\ \A t \in DOMAIN kind' : For(t)' \subseteq might'[t]
<1>1. /\ Len(kind') \in Nat /\ DOMAIN kind' = 1 .. Len(kind')
      /\ DOMAIN might = DOMAIN kind /\ DOMAIN stay = DOMAIN kind
      /\ \A t \in DOMAIN kind : might[t] \subseteq Person /\ stay[t] \subseteq Person
  BY DEF KindsOK, TypesOK, HistoryOK
<1>2. /\ DOMAIN kind \subseteq DOMAIN kind'
      /\ \A t \in DOMAIN kind : kind'[t] = kind[t]
  BY DEF TypesOK, KindsOK
<1>3. \A t \in DOMAIN kind' : For(t)' \subseteq Person
  BY DEF PeopleOK, For
<1>4. /\ stay' = [t \in DOMAIN kind' |-> IF t \in DOMAIN kind
                            THEN {p \in stay[t] \cap For(t)' \cap knows' : name'[p] = name[p]}
                            ELSE For(t)' \cap knows']
      /\ might' = [t \in DOMAIN kind' |-> IF t \in DOMAIN kind THEN might[t] \cup For(t)'
                                                                ELSE For(t)']
  BY DEF Record
<1>5. \A t \in DOMAIN kind' : stay'[t] \subseteq Person /\ might'[t] \subseteq Person
  BY <1>1, <1>3, <1>4
<1>6. HistoryOK'
  <2>1. stay' \in Seq(SUBSET Person) /\ Len(stay') = Len(kind')
    <3>1. stay' \in [1 .. Len(kind') -> SUBSET Person]
      BY <1>1, <1>4, <1>5
    <3> QED  BY <1>1, <3>1, FunctionAsSequence
  <2>2. might' \in Seq(SUBSET Person) /\ Len(might') = Len(kind')
    <3>1. might' \in [1 .. Len(kind') -> SUBSET Person]
      BY <1>1, <1>4, <1>5
    <3> QED  BY <1>1, <3>1, FunctionAsSequence
  <2> QED  BY <2>1, <2>2 DEF HistoryOK
<1> QED  BY <1>2, <1>4, <1>6 DEF Grows

LEMMA TypesKept ==
  ASSUME TypesOK, Grows
  PROVE  /\ UNCHANGED others => PeopleOK'
         /\ UNCHANGED kind => KindsOK'
         /\ UNCHANGED cmds => CommandsOK'
         /\ UNCHANGED <<told, failed, crossed, known>> => SenderOK'
         /\ UNCHANGED <<net, slot>> => NetOK'
         /\ UNCHANGED up => UpOK'
         /\ UNCHANGED down => DownOK'
         /\ UNCHANGED sock => SockOK'
         /\ UNCHANGED shown => ShownOK'
<1> USE DEF TypesOK
<1>1. UNCHANGED others => PeopleOK'
  BY DEF others, PeopleOK
<1>2. UNCHANGED kind => KindsOK'
  BY DEF KindsOK
<1>3. UNCHANGED cmds => CommandsOK'
  BY DEF CommandsOK, Grows
<1>4. UNCHANGED <<told, failed, crossed, known>> => SenderOK'
  BY DEF SenderOK, Grows
<1>5. UNCHANGED <<net, slot>> => NetOK'
  BY DEF NetOK, Grows
<1>6. UNCHANGED up => UpOK'
  BY DEF UpOK
<1>7. UNCHANGED down => DownOK'
  BY DEF DownOK
<1>8. UNCHANGED sock => SockOK'
  BY DEF SockOK
<1>9. UNCHANGED shown => ShownOK'
  BY DEF ShownOK, Grows
<1> QED  BY <1>1, <1>2, <1>3, <1>4, <1>5, <1>6, <1>7, <1>8, <1>9

LEMMA SafeKept ==
  ASSUME DInv, Grows
  PROVE  /\ \A i \in DOMAIN up : up[i].type = "text" =>
              /\ up[i].text \in DOMAIN kind'
              /\ IF kind'[up[i].text] = ToRoom THEN ~crossed' => up[i].key \in might'[up[i].text]
                                               ELSE up[i].to = kind'[up[i].text]
         /\ \A p \in Person : \A i \in DOMAIN sock[p] :
              /\ sock[p][i].text \in DOMAIN kind'
              /\ sock[p][i].key = p /\ ~crossed' => p \in might'[sock[p][i].text]
         /\ UNCHANGED up => UpAddressed'
         /\ UNCHANGED sock => SockReadable'
         /\ UNCHANGED <<net, down>> => NetFits'
         /\ UNCHANGED <<up, down, slot>> => Calm'
         /\ UNCHANGED shown => ReadByRecipients'
<1>1. \A i \in DOMAIN up : up[i].type = "text" =>
        /\ up[i].text \in DOMAIN kind'
        /\ IF kind'[up[i].text] = ToRoom THEN ~crossed' => up[i].key \in might'[up[i].text]
                                         ELSE up[i].to = kind'[up[i].text]
  BY DEF DInv, Grows, UpAddressed, Addressed
<1>2. \A p \in Person : \A i \in DOMAIN sock[p] :
        /\ sock[p][i].text \in DOMAIN kind'
        /\ sock[p][i].key = p /\ ~crossed' => p \in might'[sock[p][i].text]
  BY DEF DInv, Grows, SockReadable, Readable
<1>3. UNCHANGED up => UpAddressed'
  BY <1>1 DEF UpAddressed, Addressed
<1>4. UNCHANGED sock => SockReadable'
  BY <1>2 DEF SockReadable, Readable
<1>5. UNCHANGED <<net, down>> => NetFits'
  <2>1. net.at \in {"ask", "got"} => net.text \in DOMAIN kind
    BY DEF DInv, TypesOK, NetOK, Idle, Asking, Got
  <2> QED  BY <2>1 DEF DInv, Grows, NetFits, Fits
<1>6. UNCHANGED <<up, down, slot>> => Calm'
  BY DEF DInv, Grows, Calm
<1>7. UNCHANGED shown => ReadByRecipients'
  <2>1. \A p \in Person : \A i \in DOMAIN shown[p] : shown[p][i] \in DOMAIN kind
    BY DEF DInv, TypesOK, ShownOK
  <2> QED  BY <2>1 DEF DInv, Grows, ReadByRecipients
<1> QED  BY <1>1, <1>2, <1>3, <1>4, <1>5, <1>6, <1>7

-----------------------------------------------------------------------------
(* The others *)

LEMMA MoveKeeps ==
  ASSUME DInv, Record, PeopleOK', UNCHANGED <<sender, wires, ends>>
  PROVE  DInv'
<1>1. KindsOK'
  BY DEF DInv, TypesOK, KindsOK, sender
<1>2. Grows /\ HistoryOK'
  BY <1>1, Recorded DEF DInv, sender
<1>3. TypesOK'
  BY <1>1, <1>2, TypesKept DEF DInv, TypesOK, sender, wires, ends
<1>4. UpAddressed' /\ SockReadable' /\ NetFits' /\ Calm' /\ ReadByRecipients'
  BY <1>2, SafeKept DEF sender, wires, ends
<1> QED  BY <1>3, <1>4 DEF DInv

LEMMA MoveStep ==
  ASSUME DInv, Record, NEW p \in Person,
         LeaveRoom(p) \/ EnterRoom(p) \/ AskForMe(p) \/ \E n \in Name : Rename(p, n)
  PROVE  DInv'
<1> USE DEF DInv, TypesOK
<1>1. UNCHANGED <<sender, wires, ends>>
  BY DEF LeaveRoom, EnterRoom, AskForMe, Rename
<1>2. changes' \in 0 .. Changes
  BY BoundAssumption DEF PeopleOK, LeaveRoom, EnterRoom, AskForMe, Rename, Change
<1>3. CASE LeaveRoom(p)
  BY <1>1, <1>2, <1>3, MoveKeeps DEF PeopleOK, LeaveRoom
<1>4. CASE EnterRoom(p)
  BY <1>1, <1>2, <1>4, MoveKeeps DEF PeopleOK, EnterRoom
<1>5. ASSUME NEW n \in Name, Rename(p, n)  PROVE DInv'
  BY <1>1, <1>2, <1>5, MoveKeeps DEF PeopleOK, Rename, Free
<1>6. CASE AskForMe(p)
  <2>1. /\ UNCHANGED <<name, on, in, mine>> /\ news' \subseteq news
        /\ knows' \subseteq knows \cup {p}
    BY <1>6 DEF AskForMe
  <2>2. PeopleOK'
    BY <1>2, <2>1 DEF PeopleOK
  <2> QED  BY <1>1, <2>2, MoveKeeps
<1> QED  BY <1>3, <1>4, <1>5, <1>6

LEMMA HearNewsStep ==
  ASSUME DInv, Record, NEW p \in Person, HearNews(p)
  PROVE  DInv'
<1>1. PeopleOK'
  BY DEF DInv, TypesOK, PeopleOK, HearNews
<1> QED  BY <1>1, MoveKeeps DEF HearNews

LEMMA SenderRenamesStep ==
  ASSUME DInv, Record, NEW n \in Name, SenderRenames(n)
  PROVE  DInv'
<1>1. changes' \in 0 .. Changes
  BY BoundAssumption DEF DInv, TypesOK, PeopleOK, SenderRenames, Change
<1>2. PeopleOK'
  BY <1>1 DEF DInv, TypesOK, PeopleOK, SenderRenames, Free
<1> QED  BY <1>2, MoveKeeps DEF SenderRenames

LEMMA GoOffStep ==
  ASSUME DInv, Record, NEW p \in Person, GoOff(p)
  PROVE  DInv'
<1> USE DEF DInv, TypesOK
<1>1. PeopleOK'
  <2>1. changes' \in 0 .. Changes
    BY BoundAssumption DEF PeopleOK, GoOff, Change
  <2> QED  BY <2>1 DEF PeopleOK, GoOff
<1>2. KindsOK'
  BY DEF KindsOK, GoOff, sender
<1>3. Grows /\ HistoryOK'
  BY <1>1, <1>2, Recorded DEF GoOff, sender
<1>4. SockOK'
  BY DEF SockOK, GoOff
<1>5. TypesOK'
  BY <1>1, <1>2, <1>3, <1>4, TypesKept DEF GoOff, sender, wires
<1>6. SockReadable'
  <2>1. ASSUME NEW q \in Person, NEW i \in DOMAIN sock'[q]
        PROVE  q # p /\ sock'[q] = sock[q]
    BY <2>1 DEF SockOK, GoOff
  <2> QED  BY <1>3, <2>1, SafeKept DEF SockReadable, Readable
<1>7. UpAddressed' /\ NetFits' /\ Calm' /\ ReadByRecipients'
  BY <1>3, SafeKept DEF GoOff, sender, wires
<1> QED  BY <1>5, <1>6, <1>7

LEMMA ComeBackStep ==
  ASSUME DInv, Record, NEW p \in Person, ComeBack(p)
  PROVE  DInv'
<1> USE DEF DInv, TypesOK
<1>1. PeopleOK'
  <2>1. changes' \in 0 .. Changes
    BY BoundAssumption DEF PeopleOK, ComeBack, Change
  <2>2. /\ name' = name /\ mine' = mine /\ on' = on \cup {p} /\ in' = in \cup {p}
        /\ knows' \subseteq knows \cup {p} /\ news' \subseteq on
    BY DEF ComeBack, PeopleOK
  <2> QED  BY <2>1, <2>2 DEF PeopleOK
<1>2. KindsOK'
  BY DEF KindsOK, ComeBack, sender
<1>3. Grows /\ HistoryOK'
  BY <1>1, <1>2, Recorded DEF ComeBack, sender
<1>4. down' = Append(down, New(name[p], p)) /\ New(name[p], p) \in Downward
  BY DEF ComeBack, Downward, PeopleOK
<1>5. /\ DownOK'
      /\ DOMAIN down' = DOMAIN down \cup {Len(down) + 1}
      /\ \A i \in DOMAIN down : down'[i] = down[i]
      /\ down'[Len(down) + 1].type = "new"
  BY <1>4, Added DEF DownOK, New
<1>6. TypesOK'
  BY <1>1, <1>2, <1>3, <1>5, TypesKept DEF ComeBack, sender, ends
<1>7. NetFits'
  <2>1. net.at \in {"ask", "got"} => net.text \in DOMAIN kind
    BY DEF NetOK, Idle, Asking, Got
  <2> QED  BY <1>3, <1>5, <2>1 DEF Grows, NetFits, Fits, ComeBack, sender
<1>8. Calm'
  BY <1>5 DEF Calm, ComeBack, sender
<1>9. UpAddressed' /\ SockReadable' /\ ReadByRecipients'
  BY <1>3, SafeKept DEF ComeBack, sender, ends
<1> QED  BY <1>6, <1>7, <1>8, <1>9

LEMMA SockShorter ==
  ASSUME DInv, Grows,
         \A q \in Person : \A i \in DOMAIN sock'[q] : \E j \in DOMAIN sock[q] : sock'[q][i] = sock[q][j]
  PROVE  SockReadable'
<1>1. ASSUME NEW q \in Person, NEW i \in DOMAIN sock'[q]
      PROVE  /\ sock'[q][i].text \in DOMAIN kind'
             /\ sock'[q][i].key = q /\ ~crossed' => q \in might'[sock'[q][i].text]
  <2>1. PICK j \in DOMAIN sock[q] : sock'[q][i] = sock[q][j]
    OBVIOUS
  <2>2. /\ sock[q][j].text \in DOMAIN kind'
        /\ sock[q][j].key = q /\ ~crossed' => q \in might'[sock[q][j].text]
    BY SafeKept
  <2> QED  BY <2>1, <2>2
<1> QED  BY <1>1 DEF SockReadable, Readable

LEMMA ReadStep ==
  ASSUME DInv, Record, NEW p \in Person, Read(p)
  PROVE  DInv'
<1> USE DEF DInv, TypesOK
<1>1. PeopleOK' /\ KindsOK'
  BY DEF PeopleOK, KindsOK, Read, others, sender
<1>2. Grows /\ HistoryOK'
  BY <1>1, Recorded DEF Read, sender
<1>3. /\ sock[p] \in Seq(Textual) /\ shown[p] \in Seq(DOMAIN kind)
      /\ sock[p] # <<>>
      /\ sock' = [sock EXCEPT ![p] = Tail(@)]
  BY DEF SockOK, ShownOK, Read
<1>4. /\ Tail(sock[p]) \in Seq(Textual)
      /\ 1 \in DOMAIN sock[p] /\ Head(sock[p]) = sock[p][1]
      /\ \A i \in DOMAIN Tail(sock[p]) : i + 1 \in DOMAIN sock[p] /\ Tail(sock[p])[i] = sock[p][i + 1]
  BY <1>3, Taken
<1>5. SockOK'
  BY <1>3, <1>4 DEF SockOK
<1>6. SockReadable'
  <2>1. /\ sock'[p] = Tail(sock[p])
        /\ \A q \in Person : q # p => sock'[q] = sock[q]
    BY <1>3 DEF SockOK
  <2>2. ASSUME NEW q \in Person, NEW i \in DOMAIN sock'[q]
        PROVE  \E j \in DOMAIN sock[q] : sock'[q][i] = sock[q][j]
    <3>1. CASE q = p
      <4>1. i + 1 \in DOMAIN sock[p] /\ Tail(sock[p])[i] = sock[p][i + 1]
        BY <1>4, <2>1, <2>2, <3>1
      <4> QED  BY <2>1, <3>1, <4>1
    <3>2. CASE q # p
      BY <2>1, <2>2, <3>2
    <3> QED  BY <3>1, <3>2
  <2> QED  BY <1>2, <2>2, SockShorter
<1>7. /\ ShownOK'
      /\ ReadByRecipients'
  <2>1. CASE UNCHANGED shown
    BY <1>2, <2>1, TypesKept, SafeKept
  <2>2. CASE Head(sock[p]).key = p /\ shown' = [shown EXCEPT ![p] = Append(@, Head(sock[p]).text)]
    <3> DEFINE t == Head(sock[p]).text
    <3>1. t \in DOMAIN kind /\ (~crossed => p \in might[t])
      BY <1>4, <2>2 DEF SockReadable, Readable
    <3> HIDE DEF t
    <3>2. shown' = [shown EXCEPT ![p] = Append(@, t)]
      BY <2>2 DEF t
    <3>3. /\ Append(shown[p], t) \in Seq(DOMAIN kind)
          /\ DOMAIN Append(shown[p], t) = DOMAIN shown[p] \cup {Len(shown[p]) + 1}
          /\ \A i \in DOMAIN shown[p] : Append(shown[p], t)[i] = shown[p][i]
          /\ Append(shown[p], t)[Len(shown[p]) + 1] = t
      BY <1>3, <3>1, Added
    <3>4. shown' \in [Person -> Seq(DOMAIN kind)]
      BY <3>2, <3>3 DEF ShownOK
    <3>5. /\ shown'[p] = Append(shown[p], t)
          /\ \A q \in Person : q # p => shown'[q] = shown[q]
      BY <3>2 DEF ShownOK
    <3>6. ASSUME ~crossed', NEW q \in Person, NEW i \in DOMAIN shown'[q]
          PROVE  q \in might'[shown'[q][i]]
      <4>1. ~crossed
        BY <1>2, <3>6 DEF Grows
      <4>2. shown'[q][i] \in DOMAIN kind /\ q \in might[shown'[q][i]]
        <5>1. CASE q = p
          BY <3>1, <3>3, <3>5, <3>6, <4>1, <5>1, SMTT(30) DEF ReadByRecipients, ShownOK
        <5>2. CASE q # p
          BY <3>5, <3>6, <4>1, <5>2 DEF ReadByRecipients, ShownOK
        <5> QED  BY <5>1, <5>2
      <4> QED  BY <1>2, <4>2 DEF Grows
    <3> QED  BY <3>4, <3>6 DEF ShownOK, ReadByRecipients, Read, sender
  <2> QED  BY <2>1, <2>2 DEF Read
<1>8. TypesOK'
  BY <1>1, <1>2, <1>5, <1>7, TypesKept DEF Read, sender, wires
<1>9. UpAddressed' /\ NetFits' /\ Calm'
  BY <1>2, SafeKept DEF Read, sender, wires
<1> QED  BY <1>6, <1>7, <1>8, <1>9

LEMMA SaveFailsStep ==
  ASSUME DInv, Record, NEW p \in Person, SaveFails(p)
  PROVE  DInv'
<1> USE DEF DInv, TypesOK
<1>1. PeopleOK' /\ KindsOK'
  BY DEF PeopleOK, KindsOK, SaveFails, others
<1>2. Grows /\ HistoryOK'
  BY <1>1, Recorded DEF SaveFails
<1>3. /\ sock[p] \in Seq(Textual) /\ sock[p] # <<>>
      /\ sock' = [sock EXCEPT ![p] = Tail(@)]
  BY DEF SockOK, SaveFails
<1>4. /\ Tail(sock[p]) \in Seq(Textual)
      /\ 1 \in DOMAIN sock[p] /\ Head(sock[p]) = sock[p][1]
      /\ \A i \in DOMAIN Tail(sock[p]) : i + 1 \in DOMAIN sock[p] /\ Tail(sock[p])[i] = sock[p][i + 1]
  BY <1>3, Taken
<1>5. SockOK'
  BY <1>3, <1>4 DEF SockOK
<1>6. SockReadable'
  <2>1. /\ sock'[p] = Tail(sock[p])
        /\ \A q \in Person : q # p => sock'[q] = sock[q]
    BY <1>3 DEF SockOK
  <2>2. ASSUME NEW q \in Person, NEW i \in DOMAIN sock'[q]
        PROVE  \E j \in DOMAIN sock[q] : sock'[q][i] = sock[q][j]
    <3>1. CASE q = p
      <4>1. i + 1 \in DOMAIN sock[p] /\ Tail(sock[p])[i] = sock[p][i + 1]
        BY <1>4, <2>1, <2>2, <3>1
      <4> QED  BY <2>1, <3>1, <4>1
    <3>2. CASE q # p
      BY <2>1, <2>2, <3>2
    <3> QED  BY <3>1, <3>2
  <2> QED  BY <1>2, <2>2, SockShorter
<1>7. SenderOK'
  <2>1. Head(sock[p]).text \in DOMAIN kind
    BY <1>4 DEF SockReadable, Readable
  <2> QED  BY <2>1 DEF SenderOK, SaveFails
<1>8. TypesOK'
  BY <1>1, <1>2, <1>5, <1>7, TypesKept DEF SaveFails, wires
<1>9. UpAddressed' /\ NetFits' /\ Calm' /\ ReadByRecipients'
  BY <1>2, SafeKept DEF SaveFails, wires
<1> QED  BY <1>6, <1>8, <1>9

-----------------------------------------------------------------------------
(* The handler *)

LEMMA UpShorter ==
  ASSUME DInv, Grows, up # <<>>, up' = Tail(up)
  PROVE  /\ UpOK' /\ UpAddressed'
         /\ Head(up) \in Frame /\ 1 \in DOMAIN up /\ Head(up) = up[1]
         /\ \A i \in DOMAIN up' : i + 1 \in DOMAIN up /\ up'[i] = up[i + 1] /\ i \in Nat /\ i + 1 # 1
<1>1. up \in Seq(Frame)
  BY DEF DInv, TypesOK, UpOK
<1>2. /\ up' \in Seq(Frame)
      /\ Head(up) \in Frame /\ 1 \in DOMAIN up /\ Head(up) = up[1]
      /\ \A i \in DOMAIN up' : i + 1 \in DOMAIN up /\ up'[i] = up[i + 1] /\ i \in Nat /\ i + 1 # 1
  BY <1>1, Taken
<1>3. UpAddressed'
  BY <1>2, SafeKept DEF UpAddressed, Addressed
<1> QED  BY <1>2, <1>3 DEF UpOK

\* An answer of the handler to the only request.
LEMMA AnswerKeeps ==
  ASSUME DInv, Record, UNCHANGED <<others, sender, ends>>,
         up # <<>>, Asks(Head(up)), up' = Tail(up),
         NEW r \in Resp, r.type = "resp", down' = Append(down, r),
         net.at = "ask" /\ kind[net.text] = ToRoom =>
           \A e \in r.list : e[2] \in Person => e[2] \in might'[net.text]
  PROVE  DInv'
<1> USE DEF DInv, TypesOK
<1>1. PeopleOK' /\ KindsOK'
  BY DEF PeopleOK, KindsOK, others, sender
<1>2. Grows /\ HistoryOK'
  BY <1>1, Recorded DEF sender
<1>3. /\ UpOK' /\ UpAddressed'
      /\ 1 \in DOMAIN up /\ Head(up) = up[1]
      /\ \A i \in DOMAIN up' : i + 1 \in DOMAIN up /\ up'[i] = up[i + 1] /\ i \in Nat /\ i + 1 # 1
  BY <1>2, UpShorter
<1>4. r \in Downward
  BY DEF Downward
<1>5. /\ DownOK'
      /\ DOMAIN down' = DOMAIN down \cup {Len(down) + 1}
      /\ \A i \in DOMAIN down : down'[i] = down[i]
      /\ down'[Len(down) + 1] = r
  BY <1>4, Added DEF DownOK
<1>6. TypesOK'
  BY <1>1, <1>2, <1>3, <1>5, TypesKept DEF sender, ends
<1>7. NetFits'
  <2>1. net.at \in {"ask", "got"} => net.text \in DOMAIN kind
    BY DEF NetOK, Idle, Asking, Got
  <2> QED  BY <1>2, <1>5, <2>1 DEF Grows, NetFits, Fits, sender
<1>8. Calm'
  <2> SUFFICES ASSUME ~crossed
               PROVE  /\ \A i \in DOMAIN up' : ~Asks(up'[i])
                      /\ \A j \in DOMAIN down : down[j].type # "resp"
                      /\ slot # "none"
    BY <1>3, <1>5 DEF Calm, sender
  <2> QED  BY <1>3 DEF Calm
<1>9. SockReadable' /\ ReadByRecipients'
  BY <1>2, SafeKept DEF ends
<1> QED  BY <1>3, <1>6, <1>7, <1>8, <1>9

LEMMA MembersListed ==
  ASSUME PeopleOK
  PROVE  Members \in Lists /\ \A e \in Members : e[2] \in Person => e[2] \in on \cap in
<1> DEFINE here == on \cap in
           f == [p \in here |-> <<name[p], p>>]
           theirs == {<<name[p], p>> : p \in here}
           me == <<mine, Garbage>>
<1>1. IsFiniteSet(here)
  BY PersonAssumption, FS_Subset DEF PeopleOK
<1>2. f \in Surjection(here, theirs)
  BY DEF Surjection
<1>3. IsFiniteSet(theirs)
  BY <1>1, <1>2, FS_Surjection
<1>4. /\ Members = theirs \cup {me}
      /\ me \in Name \X (Person \cup {Garbage}) /\ me[2] = Garbage /\ Garbage \notin Person
      /\ theirs \subseteq Name \X Person
      /\ \A e \in theirs : e[2] \in here /\ e = <<name[e[2]], e[2]>>
  BY KeyAssumption DEF Members, PeopleOK
<1> HIDE DEF theirs, me
<1>5. IsFiniteSet(Members)
  BY <1>3, <1>4, FS_AddElement
<1>6. \A e \in Members : e = me \/ (e[2] \in here /\ e[2] \in Person /\ e = <<name[e[2]], e[2]>>)
  BY <1>4
<1>7. Once(Members)
  BY <1>4, <1>6 DEF Once
<1>8. Members \subseteq Name \X (Person \cup {Garbage})
  BY <1>4
<1>9. \A e \in Members : e[2] \in Person => e[2] \in here
  BY <1>4, <1>6
<1> QED  BY <1>5, <1>7, <1>8, <1>9 DEF Lists

LEMMA AnswerMembersStep ==
  ASSUME DInv, Record, AnswerMembers
  PROVE  DInv'
<1>1. /\ up # <<>> /\ Asks(Head(up)) /\ up' = Tail(up)
      /\ down' = Append(down, List(Members))
      /\ UNCHANGED <<others, sender, ends>>
  BY DEF AnswerMembers, Asks
<1>2. PeopleOK' /\ KindsOK'
  BY <1>1 DEF DInv, TypesOK, PeopleOK, KindsOK, others, sender
<1>3. Grows /\ \A t \in DOMAIN kind' : For(t)' \subseteq might'[t]
  BY <1>1, <1>2, Recorded DEF DInv, sender
<1>4. Members \in Lists /\ \A e \in Members : e[2] \in Person => e[2] \in on \cap in
  BY MembersListed DEF DInv, TypesOK
<1>5. PICK r \in Resp : r = List(Members)
  BY <1>4 DEF Resp
<1>6. ASSUME net.at = "ask", kind[net.text] = ToRoom, NEW e \in r.list, e[2] \in Person
      PROVE  e[2] \in might'[net.text]
  <2>1. kind' = kind /\ on' = on /\ in' = in /\ name' = name
    BY <1>1 DEF sender, others
  <2>2. net.text \in DOMAIN kind
    BY <1>6 DEF DInv, TypesOK, NetOK, Idle, Asking, Got
  <2>3. on \cap in \subseteq might'[net.text]
    BY <1>3, <1>6, <2>1, <2>2 DEF For, DInv, TypesOK, PeopleOK
  <2>4. e \in Members
    BY <1>5 DEF List
  <2> QED  BY <1>4, <1>6, <2>3, <2>4
<1>7. down' = Append(down, r) /\ r.type = "resp"
  BY <1>1, <1>5 DEF List
<1> QED  BY <1>1, <1>6, <1>7, AnswerKeeps

LEMMA AnswerKeyStep ==
  ASSUME DInv, Record, AnswerKey
  PROVE  DInv'
<1>1. PICK k \in Key : down' = Append(down, KeyOf(k))
  BY DEF AnswerKey, Key, DInv, TypesOK, PeopleOK
<1>2. /\ up # <<>> /\ Asks(Head(up)) /\ up' = Tail(up)
      /\ UNCHANGED <<others, sender, ends>>
  BY DEF AnswerKey, Asks
<1>3. PICK r \in Resp : r = KeyOf(k)
  BY DEF Resp
<1>4. r.list = {} /\ r.type = "resp" /\ down' = Append(down, r)
  BY <1>1, <1>3 DEF KeyOf
<1> QED  BY <1>2, <1>4, AnswerKeeps

\* A profile is no answer, ERR is one to no request.
LEMMA AnswerProfileStep ==
  ASSUME DInv, Record, AnswerProfile
  PROVE  DInv'
<1> USE DEF DInv, TypesOK
<1>1. /\ up # <<>> /\ up' = Tail(up) /\ UNCHANGED <<others, sender, ends>>
      /\ down' = down \/ down' = Append(down, Err)
  BY DEF AnswerProfile
<1>2. PeopleOK' /\ KindsOK'
  BY <1>1 DEF PeopleOK, KindsOK, others, sender
<1>3. Grows /\ HistoryOK'
  BY <1>1, <1>2, Recorded DEF sender
<1>4. /\ UpOK' /\ UpAddressed'
      /\ \A i \in DOMAIN up' : i + 1 \in DOMAIN up /\ up'[i] = up[i + 1] /\ i \in Nat /\ i + 1 # 1
  BY <1>1, <1>3, UpShorter
<1>5. /\ DownOK'
      /\ \A i \in DOMAIN down' : down'[i].type = "resp" => i \in DOMAIN down /\ down'[i] = down[i]
  <2>1. CASE down' = down
    BY <2>1 DEF DownOK
  <2>2. CASE down' = Append(down, Err)
    <3>1. PICK x \in Downward : x = Err /\ x.type = "err"
      <4>1. Err \in Downward
        BY DEF Downward, Resp
      <4>2. Err.type = "err"
        BY DEF Err
      <4> QED  BY <4>1, <4>2
    <3>2. /\ down' \in Seq(Downward)
          /\ DOMAIN down' = DOMAIN down \cup {Len(down) + 1}
          /\ \A i \in DOMAIN down : down'[i] = down[i]
          /\ down'[Len(down) + 1] = x
      BY <2>2, <3>1, Added DEF DownOK
    <3> QED  BY <3>1, <3>2 DEF DownOK
  <2> QED  BY <1>1, <2>1, <2>2
<1>6. TypesOK'
  BY <1>1, <1>2, <1>3, <1>4, <1>5, TypesKept DEF sender, ends
<1>7. NetFits'
  <2>1. net.at \in {"ask", "got"} => net.text \in DOMAIN kind
    BY DEF NetOK, Idle, Asking, Got
  <2> QED  BY <1>1, <1>3, <1>5, <2>1 DEF Grows, NetFits, Fits, sender
<1>8. Calm'
  BY <1>1, <1>4, <1>5 DEF Calm, sender
<1>9. SockReadable' /\ ReadByRecipients'
  BY <1>1, <1>3, SafeKept DEF ends
<1> QED  BY <1>4, <1>6, <1>7, <1>8, <1>9

LEMMA RelayStep ==
  ASSUME DInv, Record, Relay
  PROVE  DInv'
<1> USE DEF DInv, TypesOK
<1>1. PeopleOK' /\ KindsOK'
  BY DEF PeopleOK, KindsOK, Relay, others, sender
<1>2. Grows /\ HistoryOK' /\ \A t \in DOMAIN kind' : For(t)' \subseteq might'[t]
  BY <1>1, Recorded DEF Relay, sender
<1> DEFINE f == Head(up)
<1>3. /\ UpOK' /\ UpAddressed'
      /\ f \in Frame /\ 1 \in DOMAIN up /\ f = up[1] /\ f.type = "text"
      /\ \A i \in DOMAIN up' : i + 1 \in DOMAIN up /\ up'[i] = up[i + 1] /\ i \in Nat /\ i + 1 # 1
  BY <1>2, UpShorter DEF Relay
<1>4. f \in Textual
  BY <1>3 DEF Textual, Frame, AskMembers, AskKey, AskProfile, M
<1>5. sock' = [p \in Person |-> IF p \in on /\ name[p] = f.to
                                  THEN Append(sock[p], f) ELSE sock[p]]
  BY DEF Relay
<1>6. /\ f.text \in DOMAIN kind'
      /\ \A p \in Person : p \in on /\ name[p] = f.to /\ f.key = p /\ ~crossed'
           => p \in might'[f.text]
  <2>1. /\ f.text \in DOMAIN kind'
        /\ IF kind'[f.text] = ToRoom THEN ~crossed' => f.key \in might'[f.text]
                                     ELSE f.to = kind'[f.text]
    BY <1>2, <1>3, SafeKept
  <2>2. on' = on /\ name' = name
    BY DEF Relay, others
  <2>3. ASSUME NEW p \in on, name[p] = f.to, kind'[f.text] # ToRoom
        PROVE  p \in might'[f.text]
    BY <1>2, <2>1, <2>2, <2>3 DEF For
  <2> QED  BY <2>1, <2>3
<1> HIDE DEF f
<1>7. ASSUME NEW p \in Person
      PROVE  /\ sock'[p] \in Seq(Textual)
             /\ \A i \in DOMAIN sock'[p] :
                  /\ sock'[p][i].text \in DOMAIN kind'
                  /\ sock'[p][i].key = p /\ ~crossed' => p \in might'[sock'[p][i].text]
  <2>1. /\ sock[p] \in Seq(Textual)
        /\ \A i \in DOMAIN sock[p] :
             /\ sock[p][i].text \in DOMAIN kind'
             /\ sock[p][i].key = p /\ ~crossed' => p \in might'[sock[p][i].text]
    BY <1>2, SafeKept DEF SockOK
  <2>2. CASE p \in on /\ name[p] = f.to
    <3>1. sock'[p] = Append(sock[p], f)
      BY <1>5, <2>2
    <3>2. /\ Append(sock[p], f) \in Seq(Textual)
          /\ DOMAIN Append(sock[p], f) = DOMAIN sock[p] \cup {Len(sock[p]) + 1}
          /\ \A i \in DOMAIN sock[p] : Append(sock[p], f)[i] = sock[p][i]
          /\ Append(sock[p], f)[Len(sock[p]) + 1] = f
      BY <1>4, <2>1, Added
    <3> QED  BY <1>6, <2>1, <2>2, <3>1, <3>2
  <2>3. CASE ~(p \in on /\ name[p] = f.to)
    BY <1>5, <2>1, <2>3
  <2> QED  BY <2>2, <2>3
<1>8. SockOK' /\ SockReadable'
  <2>1. sock' \in [Person -> Seq(Textual)]
    BY <1>5, <1>7
  <2> QED  BY <1>7, <2>1 DEF SockOK, SockReadable, Readable
<1>9. TypesOK'
  BY <1>1, <1>2, <1>3, <1>8, TypesKept DEF Relay, sender
<1>10. NetFits' /\ ReadByRecipients'
  BY <1>2, SafeKept DEF Relay, sender
<1>11. Calm'
  BY <1>3 DEF Calm, Relay, sender
<1> QED  BY <1>3, <1>8, <1>9, <1>10, <1>11

-----------------------------------------------------------------------------
(* The sender *)

LEMMA TypeStep ==
  ASSUME DInv, Record, NEW k \in Name \cup {ToRoom}, Type(k)
  PROVE  DInv'
<1> USE DEF DInv, TypesOK
<1>1. /\ Len(kind) \in Nat /\ Len(kind) < Texts
      /\ kind' = Append(kind, k) /\ cmds' = Append(cmds, Len(kind) + 1)
      /\ UNCHANGED <<others, net, slot, known, told, failed, crossed, wires, ends>>
  BY DEF Type, KindsOK
<1>2. /\ kind' \in Seq(Name \cup {ToRoom})
      /\ DOMAIN kind' = DOMAIN kind \cup {Len(kind) + 1}
      /\ Len(kind') = Len(kind) + 1
  BY <1>1, Added DEF KindsOK
<1>3. PeopleOK' /\ KindsOK'
  BY <1>1, <1>2, BoundAssumption DEF PeopleOK, KindsOK, others
<1>4. Grows /\ HistoryOK'
  BY <1>1, <1>3, Recorded
<1>5. CommandsOK'
  <2>1. cmds \in Seq(DOMAIN kind') /\ Len(kind) + 1 \in DOMAIN kind'
    BY <1>2 DEF CommandsOK
  <2> QED  BY <1>1, <2>1, Added DEF CommandsOK
<1>6. TypesOK'
  BY <1>1, <1>3, <1>4, <1>5, TypesKept DEF wires, ends
<1>7. UpAddressed' /\ SockReadable' /\ NetFits' /\ Calm' /\ ReadByRecipients'
  BY <1>1, <1>4, SafeKept DEF wires, ends
<1> QED  BY <1>6, <1>7

\* A text that is disposed of at once.
LEMMA RefuseStep ==
  ASSUME DInv, Record, Refuse
  PROVE  DInv'
<1> USE DEF DInv, TypesOK
<1>1. PeopleOK' /\ KindsOK'
  BY DEF PeopleOK, KindsOK, Refuse, others
<1>2. Grows /\ HistoryOK'
  BY <1>1, Recorded DEF Refuse
<1>3. Head(cmds) \in DOMAIN kind /\ Tail(cmds) \in Seq(DOMAIN kind)
  BY Taken DEF Refuse, CommandsOK
<1>4. CommandsOK' /\ SenderOK'
  BY <1>3 DEF CommandsOK, SenderOK, Refuse
<1>5. TypesOK'
  BY <1>1, <1>2, <1>4, TypesKept DEF Refuse, wires, ends
<1>6. UpAddressed' /\ SockReadable' /\ NetFits' /\ Calm' /\ ReadByRecipients'
  BY <1>2, SafeKept DEF Refuse, wires, ends
<1> QED  BY <1>5, <1>6

LEMMA TimeOutStep ==
  ASSUME DInv, Record, TimeOut
  PROVE  DInv'
<1> USE DEF DInv, TypesOK
<1>1. PeopleOK' /\ KindsOK'
  BY DEF PeopleOK, KindsOK, TimeOut, others
<1>2. Grows /\ HistoryOK'
  BY <1>1, Recorded DEF TimeOut
<1>3. net.text \in DOMAIN kind
  BY DEF TimeOut, NetOK, Idle, Asking, Got
<1>4. SenderOK' /\ NetOK'
  BY <1>3 DEF SenderOK, NetOK, TimeOut, Idle
<1>5. TypesOK'
  BY <1>1, <1>2, <1>4, TypesKept DEF TimeOut, wires, ends
<1>6. NetFits'
  BY DEF NetFits, TimeOut, Idle
<1>7. Calm'
  BY DEF Calm, TimeOut, wires
<1>8. UpAddressed' /\ SockReadable' /\ ReadByRecipients'
  BY <1>2, SafeKept DEF TimeOut, wires, ends
<1> QED  BY <1>5, <1>6, <1>7, <1>8

\* What is sent after the frames on their way.
LEMMA UpLonger ==
  ASSUME DInv, Grows, UNCHANGED <<kind, crossed>>, NEW r \in Seq(Frame), up' = up \o r,
         \A i \in DOMAIN r : r[i].type = "text" =>
           /\ r[i].text \in DOMAIN kind
           /\ IF kind[r[i].text] = ToRoom THEN ~crossed => r[i].key \in might[r[i].text]
                                          ELSE r[i].to = kind[r[i].text]
  PROVE  /\ UpOK' /\ UpAddressed'
         /\ \A i \in DOMAIN up' :
               \/ i \in DOMAIN up /\ up'[i] = up[i]
               \/ i - Len(up) \in DOMAIN r /\ up'[i] = r[i - Len(up)]
<1>1. up \in Seq(Frame)
  BY DEF DInv, TypesOK, UpOK
<1>2. /\ up' \in Seq(Frame)
      /\ \A i \in DOMAIN up' :
            \/ i \in DOMAIN up /\ up'[i] = up[i]
            \/ i - Len(up) \in DOMAIN r /\ up'[i] = r[i - Len(up)]
  BY <1>1, Joined
<1>3. ASSUME NEW i \in DOMAIN up', up'[i].type = "text"
      PROVE  /\ up'[i].text \in DOMAIN kind'
             /\ IF kind'[up'[i].text] = ToRoom THEN ~crossed' => up'[i].key \in might'[up'[i].text]
                                               ELSE up'[i].to = kind'[up'[i].text]
  <2>1. CASE i \in DOMAIN up /\ up'[i] = up[i]
    BY <1>3, <2>1, SafeKept
  <2>2. CASE i - Len(up) \in DOMAIN r /\ up'[i] = r[i - Len(up)]
    BY <1>3, <2>2 DEF Grows
  <2> QED  BY <1>2, <2>1, <2>2
<1> QED  BY <1>2, <1>3 DEF UpOK, UpAddressed, Addressed

\* Texts that are sent do not disturb the requests.
LEMMA TextsAreNoRequests ==
  ASSUME DInv, NEW r \in Seq(Textual), UNCHANGED <<slot, down, crossed>>,
         \A i \in DOMAIN up' :
            \/ i \in DOMAIN up /\ up'[i] = up[i]
            \/ i - Len(up) \in DOMAIN r /\ up'[i] = r[i - Len(up)]
  PROVE  Calm'
<1>1. \A i \in DOMAIN r : ~Asks(r[i])
  BY DEF Textual, M, Asks
<1>2. \A i \in DOMAIN up' : Asks(up'[i]) => i \in DOMAIN up /\ up'[i] = up[i]
  BY <1>1
<1> QED  BY <1>2 DEF DInv, Calm

\* A request is sent.
LEMMA RequestKeeps ==
  ASSUME DInv, Record, NEW t \in DOMAIN kind, NEW f \in Frame, f.type # "text",
         net = Idle, Request(t, f), cmds # <<>>, cmds' = Tail(cmds),
         UNCHANGED <<others, kind, known, failed, told, down, ends>>
  PROVE  DInv'
<1> USE DEF DInv, TypesOK
<1>1. PeopleOK' /\ KindsOK'
  BY DEF PeopleOK, KindsOK, others
<1>2. Grows /\ HistoryOK'
  BY <1>1, Recorded DEF Request
<1>3. /\ up' \in Seq(Frame)
      /\ DOMAIN up' = DOMAIN up \cup {Len(up) + 1}
      /\ \A i \in DOMAIN up : up'[i] = up[i]
      /\ up'[Len(up) + 1] = f
  BY Added DEF Request, UpOK
<1>4. CommandsOK'
  BY Taken DEF CommandsOK
<1>5. crossed' \in BOOLEAN
  BY DEF Request
<1>6. SenderOK' /\ NetOK' /\ UpOK'
  BY <1>3, <1>5 DEF SenderOK, NetOK, UpOK, Request, Asking
<1>7. TypesOK'
  BY <1>1, <1>2, <1>4, <1>6, TypesKept DEF ends
<1>8. UpAddressed'
  BY <1>2, <1>3, SafeKept DEF UpAddressed, Addressed
<1>9. slot # "live"
  BY DEF NetOK, Idle
<1>10. ~crossed' => ~crossed /\ slot = "none"
  BY <1>9 DEF Request, NetOK
<1>11. Calm'
  BY <1>3, <1>10 DEF Calm, Request
<1>12. NetFits'
  BY <1>10 DEF NetFits, Fits, Calm, Request, Asking
<1>13. SockReadable' /\ ReadByRecipients'
  BY <1>2, SafeKept DEF ends
<1> QED  BY <1>7, <1>8, <1>11, <1>12, <1>13

LEMMA WhoisStep ==
  ASSUME DInv, Record, NEW n \in Name, Whois(n)
  PROVE  DInv'
<1> USE DEF DInv, TypesOK
<1>1. UNCHANGED <<name, on, in, knows, news, mine, sender, down, ends>>
  BY DEF Whois
<1>2. PeopleOK' /\ KindsOK'
  <2>1. changes' \in 0 .. Changes
    BY BoundAssumption DEF PeopleOK, Whois, Change
  <2> QED  BY <1>1, <2>1 DEF PeopleOK, KindsOK, sender
<1>3. Grows /\ HistoryOK'
  BY <1>1, <1>2, Recorded DEF sender
<1>4. PICK f \in Frame : f = AskProfile(n)
  BY DEF Frame
<1>5. f.type # "text" /\ ~Asks(f)
  BY <1>4 DEF AskProfile, Asks
<1>6. /\ up' \in Seq(Frame)
      /\ DOMAIN up' = DOMAIN up \cup {Len(up) + 1}
      /\ \A i \in DOMAIN up : up'[i] = up[i]
      /\ up'[Len(up) + 1] = f
  BY <1>4, Added DEF Whois, UpOK
<1>7. TypesOK'
  BY <1>1, <1>2, <1>3, <1>6, TypesKept DEF UpOK, sender, ends
<1>8. UpAddressed'
  BY <1>3, <1>5, <1>6, SafeKept DEF UpAddressed, Addressed
<1>9. Calm'
  BY <1>1, <1>5, <1>6 DEF Calm, sender
<1>10. SockReadable' /\ NetFits' /\ ReadByRecipients'
  BY <1>1, <1>3, SafeKept DEF sender, ends
<1> QED  BY <1>7, <1>8, <1>9, <1>10

LEMMA TakeStep ==
  ASSUME DInv, Record, Take
  PROVE  DInv'
<1> USE DEF DInv, TypesOK
<1> DEFINE t == Head(cmds)
<1>1. /\ net = Idle /\ cmds # <<>> /\ cmds' = Tail(cmds)
      /\ UNCHANGED <<others, kind, known, failed, down, ends>>
  BY DEF Take
<1>2. t \in DOMAIN kind /\ Tail(cmds) \in Seq(DOMAIN kind)
  BY <1>1, Taken DEF CommandsOK
<1>3. kind[t] \in Name \cup {ToRoom} /\ t \in Text
  BY <1>2, BoundAssumption DEF KindsOK, Text
<1> HIDE DEF t
<1>4. CASE kind[t] = ToRoom
  <2>1. Request(t, AskMembers) /\ UNCHANGED told
    BY <1>4 DEF Take, t
  <2>2. AskMembers \in Frame /\ AskMembers.type # "text"
    BY DEF Frame, AskMembers
  <2> QED  BY <1>1, <1>2, <2>1, <2>2, RequestKeeps
<1>5. CASE kind[t] # ToRoom /\ known[kind[t]] = Nobody
  <2>1. Request(t, AskKey(kind[t])) /\ UNCHANGED told
    BY <1>5 DEF Take, t
  <2>2. PICK f \in Frame : f = AskKey(kind[t]) /\ f.type # "text"
    <3>1. kind[t] \in Name
      BY <1>3, <1>5
    <3>2. AskKey(kind[t]) \in Frame
      BY <3>1 DEF Frame
    <3> QED  BY <3>2 DEF AskKey
  <2> QED  BY <1>1, <1>2, <2>1, <2>2, RequestKeeps
<1>6. CASE kind[t] # ToRoom /\ known[kind[t]] # Nobody
  <2> DEFINE n == kind[t]
             k == known[n]
  <2>1. /\ up' = IF k = Garbage THEN up ELSE Append(up, M(t, n, k))
        /\ told' = told \cup {t}
        /\ UNCHANGED <<net, slot, crossed>>
    BY <1>6 DEF Take, t
  <2>2. n \in Name /\ k \in Person \cup {Garbage}
    BY <1>3, <1>6 DEF SenderOK, Key
  <2>3. PeopleOK' /\ KindsOK'
    BY <1>1 DEF PeopleOK, KindsOK, others
  <2>4. Grows /\ HistoryOK'
    BY <1>1, <2>1, <2>3, Recorded
  <2>5. CommandsOK' /\ SenderOK'
    BY <1>1, <1>2, <2>1 DEF CommandsOK, SenderOK
  <2>6. UpOK' /\ UpAddressed' /\ Calm'
    <3>1. CASE k = Garbage
      BY <1>1, <2>1, <2>4, <3>1, TypesKept, SafeKept
    <3>2. CASE k # Garbage
      <4> DEFINE f == M(t, n, k)
                 r == <<f>>
      <4>1. f \in Textual /\ f \in Frame
        BY <1>3, <2>2, <3>2 DEF Textual, Frame
      <4>2. f.text = t /\ f.to = kind[t]
        BY DEF M
      <4> HIDE DEF f
      <4>3. /\ r \in Seq(Textual) /\ r \in Seq(Frame)
            /\ \A i \in DOMAIN r : r[i] = f
        BY <4>1
      <4>4. up' = up \o r
        <5>1. up' = Append(up, f)
          BY <2>1, <3>2 DEF f
        <5> QED  BY <4>1, <5>1 DEF UpOK
      <4> HIDE DEF r
      <4>5. \A i \in DOMAIN r : r[i].type = "text" =>
              /\ r[i].text \in DOMAIN kind
              /\ IF kind[r[i].text] = ToRoom THEN ~crossed => r[i].key \in might[r[i].text]
                                             ELSE r[i].to = kind[r[i].text]
        BY <1>2, <1>6, <4>2, <4>3
      <4>6. /\ UpOK' /\ UpAddressed'
            /\ \A i \in DOMAIN up' :
                  \/ i \in DOMAIN up /\ up'[i] = up[i]
                  \/ i - Len(up) \in DOMAIN r /\ up'[i] = r[i - Len(up)]
        BY <1>1, <2>1, <2>4, <4>3, <4>4, <4>5, UpLonger
      <4>7. Calm'
        BY <1>1, <2>1, <4>3, <4>6, TextsAreNoRequests
      <4> QED  BY <4>6, <4>7
    <3> QED  BY <3>1, <3>2
  <2>7. TypesOK'
    BY <1>1, <2>1, <2>3, <2>4, <2>5, <2>6, TypesKept DEF ends
  <2>8. SockReadable' /\ NetFits' /\ ReadByRecipients'
    BY <1>1, <2>1, <2>4, SafeKept DEF ends
  <2> QED  BY <2>6, <2>7, <2>8
<1> QED  BY <1>4, <1>5, <1>6

\* The thread is done with its text and has sent r for it.
LEMMA SentKeeps ==
  ASSUME DInv, Record, net.at = "got", net' = Idle, told' = told \cup {net.text},
         known' \in [Name -> Key], NEW r \in Seq(Textual), up' = up \o r,
         \A i \in DOMAIN r :
           /\ r[i].text = net.text
           /\ IF kind[net.text] = ToRoom THEN ~crossed => r[i].key \in might[net.text]
                                         ELSE r[i].to = kind[net.text],
         UNCHANGED <<others, kind, cmds, slot, failed, crossed, down, ends>>
  PROVE  DInv'
<1> USE DEF DInv, TypesOK
<1>1. PeopleOK' /\ KindsOK'
  BY DEF PeopleOK, KindsOK, others
<1>2. Grows /\ HistoryOK'
  BY <1>1, Recorded
<1>3. net.text \in DOMAIN kind
  BY DEF NetOK, Idle, Asking, Got
<1>4. SenderOK'
  BY <1>3 DEF SenderOK
<1>5. NetOK'
  BY DEF NetOK, Idle
<1>6. r \in Seq(Frame)
  <2>1. Textual \subseteq Frame
    BY DEF Textual, Frame
  <2> QED  BY <2>1
<1>7. /\ UpOK' /\ UpAddressed'
      /\ \A i \in DOMAIN up' :
            \/ i \in DOMAIN up /\ up'[i] = up[i]
            \/ i - Len(up) \in DOMAIN r /\ up'[i] = r[i - Len(up)]
  BY <1>2, <1>3, <1>6, UpLonger
<1>8. Calm'
  BY <1>7, TextsAreNoRequests
<1>9. TypesOK'
  BY <1>1, <1>2, <1>4, <1>5, <1>7, TypesKept DEF ends
<1>10. NetFits'
  BY DEF NetFits, Idle
<1>11. SockReadable' /\ ReadByRecipients'
  BY <1>2, SafeKept DEF ends
<1> QED  BY <1>7, <1>8, <1>9, <1>10, <1>11

LEMMA GotIsAnswer ==
  ASSUME DInv, net.at = "got"
  PROVE  /\ net.text \in DOMAIN kind /\ net.text \in Text
         /\ kind[net.text] \in Name \cup {ToRoom}
         /\ net.resp.list \in Lists /\ net.resp.key \in Key
<1>1. PICK t \in DOMAIN kind, r \in Resp : net = Got(t, r)
  BY DEF DInv, TypesOK, NetOK, Idle, Asking
<1>2. net.text = t /\ net.resp = r
  BY <1>1 DEF Got
<1>3. t \in Text /\ kind[t] \in Name \cup {ToRoom}
  BY BoundAssumption DEF DInv, TypesOK, KindsOK, Text
<1>4. r.list \in Lists /\ r.key \in Key
  <2>1. {} \in Lists
    BY FS_EmptySet DEF Lists, Once
  <2> QED  BY <2>1 DEF Resp, List, KeyOf, Err, Key
<1> QED  BY <1>2, <1>3, <1>4

LEMMA SendToRoomStep ==
  ASSUME DInv, Record, SendToRoom
  PROVE  DInv'
<1>1. /\ net.at = "got" /\ kind[net.text] = ToRoom
      /\ known' = Learnt(net.resp.list)
      /\ up' = up \o Frames(net.text, net.resp.list)
      /\ told' = told \cup {net.text} /\ net' = Idle
      /\ UNCHANGED <<others, kind, cmds, slot, failed, crossed, down, ends>>
  BY DEF SendToRoom
<1>2. net.text \in Text /\ net.resp.list \in Lists
  BY <1>1, GotIsAnswer
<1>3. known' \in [Name -> Key]
  <2>1. known \in [Name -> Key] /\ net.resp.list \subseteq Name \X (Person \cup {Garbage})
    BY <1>2 DEF DInv, TypesOK, SenderOK, Lists
  <2>2. ASSUME NEW n \in Name, \E e \in net.resp.list : e[1] = n
        PROVE  (CHOOSE e \in net.resp.list : e[1] = n)[2] \in Key
    BY <2>1, <2>2 DEF Key
  <2> QED  BY <1>1, <2>1, <2>2 DEF Learnt
<1>4. PICK r \in Seq(Textual) :
        /\ r = Frames(net.text, net.resp.list)
        /\ \A i \in DOMAIN r : \E e \in net.resp.list :
             e[2] \in Person /\ r[i] = M(net.text, e[1], e[2])
  BY <1>2, FramesOfList
<1>5. ASSUME NEW i \in DOMAIN r
      PROVE  r[i].text = net.text /\ (~crossed => r[i].key \in might[net.text])
  <2>1. PICK e \in net.resp.list : e[2] \in Person /\ r[i] = M(net.text, e[1], e[2])
    BY <1>4
  <2>2. r[i].text = net.text /\ r[i].key = e[2]
    BY <2>1 DEF M
  <2> QED  BY <1>1, <2>1, <2>2 DEF DInv, NetFits, Fits
<1> QED  BY <1>1, <1>3, <1>4, <1>5, SentKeeps

LEMMA SendToNameStep ==
  ASSUME DInv, Record, SendToName
  PROVE  DInv'
<1> DEFINE n == kind[net.text]
           k == net.resp.key
<1>1. /\ net.at = "got" /\ n # ToRoom
      /\ known' = IF k = Nobody THEN known ELSE [known EXCEPT ![n] = k]
      /\ up' = IF k \in Person THEN Append(up, M(net.text, n, k)) ELSE up
      /\ told' = told \cup {net.text} /\ net' = Idle
      /\ UNCHANGED <<others, kind, cmds, slot, failed, crossed, down, ends>>
  BY DEF SendToName
<1>2. net.text \in Text /\ n \in Name /\ k \in Key
  BY <1>1, GotIsAnswer
<1>3. known' \in [Name -> Key]
  BY <1>1, <1>2 DEF DInv, TypesOK, SenderOK
<1>4. up \in Seq(Frame)
  BY DEF DInv, TypesOK, UpOK
<1>5. CASE k \in Person
  <2>1. PICK f \in Textual : f = M(net.text, n, k)
    BY <1>2, <1>5 DEF Textual
  <2>2. f.text = net.text /\ f.to = n /\ f \in Frame
    BY <2>1, <1>2, <1>5 DEF M, Frame
  <2>3. <<f>> \in Seq(Textual) /\ \A i \in DOMAIN <<f>> : <<f>>[i] = f
    OBVIOUS
  <2>4. up' = up \o <<f>>
    BY <1>1, <1>4, <1>5, <2>1, <2>2
  <2>5. PICK r \in Seq(Textual) : r = <<f>>
    BY <2>3
  <2> HIDE DEF n, k
  <2>6. \A i \in DOMAIN r : r[i].text = net.text /\ r[i].to = n
    BY <2>2, <2>3, <2>5
  <2>7. up' = up \o r
    BY <2>4, <2>5
  <2> QED  BY <1>1, <1>3, <2>6, <2>7, SentKeeps DEF n
<1>6. CASE k \notin Person
  <2>1. up' = up \o << >> /\ << >> \in Seq(Textual)
    BY <1>1, <1>4, <1>6
  <2>2. PICK r \in Seq(Textual) : r = << >>
    BY <2>1
  <2>3. DOMAIN r = {} /\ up' = up \o r
    BY <2>1, <2>2
  <2> QED  BY <1>1, <1>3, <2>3, SentKeeps
<1> QED  BY <1>5, <1>6

LEMMA HearStep ==
  ASSUME DInv, Record, Hear
  PROVE  DInv'
<1> USE DEF DInv, TypesOK
<1> DEFINE f == Head(down)
<1>1. PeopleOK' /\ KindsOK'
  BY DEF PeopleOK, KindsOK, Hear, others
<1>2. Grows /\ HistoryOK'
  BY <1>1, Recorded DEF Hear
<1>3. /\ down # <<>> /\ down' = Tail(down)
      /\ \/ /\ f.type = "new"
            /\ known' = [known EXCEPT ![f.name] = f.key] /\ UNCHANGED <<net, slot, crossed>>
         \/ /\ f.type # "new"
            /\ net' = IF slot = "live" THEN Got(net.text, f) ELSE net
            /\ slot' = "none"
            /\ crossed' = (crossed \/ (f.type = "err" /\ slot # "none"))
            /\ UNCHANGED known
      /\ UNCHANGED <<others, kind, cmds, told, failed, up, ends>>
  BY DEF Hear
<1>4. /\ DownOK' /\ f \in Downward /\ 1 \in DOMAIN down /\ f = down[1]
      /\ \A i \in DOMAIN down' : i + 1 \in DOMAIN down /\ down'[i] = down[i + 1] /\ i \in Nat /\ i + 1 # 1
  BY <1>3, Taken DEF DownOK
<1>5. /\ f.type = "new" => f.name \in Name /\ f.key \in Key
      /\ f.type # "new" => f.type \in {"resp", "err"} /\ f \in Resp
  BY <1>4 DEF Downward, Resp, List, KeyOf, Err, New, Key
<1> HIDE DEF f
<1>6. net.at \in {"ask", "got"} => net.text \in DOMAIN kind
  BY DEF NetOK, Idle, Asking, Got
<1>7. SenderOK'
  <2>1. known' \in [Name -> Key]
    BY <1>3, <1>5 DEF SenderOK
  <2>2. crossed' \in BOOLEAN
    BY <1>3 DEF SenderOK
  <2> QED  BY <1>3, <2>1, <2>2 DEF SenderOK
<1>8. NetOK'
  <2>1. CASE f.type = "new"
    BY <1>2, <1>3, <2>1, TypesKept
  <2>2. CASE f.type # "new" /\ slot = "live"
    <3>1. net.text \in DOMAIN kind'
      BY <1>2, <1>6, <2>2 DEF NetOK, Grows
    <3> QED  BY <1>3, <1>5, <2>2, <3>1 DEF NetOK, Got
  <2>3. CASE f.type # "new" /\ slot # "live"
    BY <1>3, <2>3 DEF NetOK
  <2> QED  BY <2>1, <2>2, <2>3
<1>9. TypesOK'
  BY <1>1, <1>2, <1>3, <1>4, <1>7, <1>8, TypesKept DEF ends
<1>10. Calm'
  <2>1. CASE f.type = "new"
    BY <1>3, <1>4, <2>1 DEF Calm
  <2>2. CASE f.type = "resp"
    <3>1. ~crossed => /\ \A i \in DOMAIN up : ~Asks(up[i])
                      /\ \A j \in DOMAIN down' : down'[j].type # "resp"
      BY <1>4, <2>2 DEF Calm
    <3> QED  BY <1>3, <2>2, <3>1 DEF Calm
  <2>3. CASE f.type = "err"
    <3>1. ~crossed' => ~crossed /\ slot = "none"
      BY <1>3, <2>3
    <3>2. ~crossed' => /\ \A i \in DOMAIN up : ~Asks(up[i])
                       /\ \A j \in DOMAIN down' : down'[j].type # "resp"
      BY <1>4, <3>1 DEF Calm
    <3> QED  BY <1>3, <3>2 DEF Calm
  <2> QED  BY <1>5, <2>1, <2>2, <2>3
<1>11. NetFits'
  <2>1. CASE f.type = "new" \/ slot # "live"
    <3>1. net' = net
      BY <1>3, <2>1
    <3> QED  BY <1>2, <1>3, <1>4, <1>6, <3>1 DEF Grows, NetFits, Fits
  <2>2. CASE f.type # "new" /\ slot = "live"
    <3>1. net' = Got(net.text, f) /\ net.at = "ask"
      BY <1>3, <2>2 DEF NetOK
    <3>2. net'.at = "got" /\ net'.text = net.text /\ net'.resp = f
      BY <3>1 DEF Got
    <3>3. ~crossed' => ~crossed /\ f.type = "resp"
      BY <1>3, <1>5, <2>2
    <3>4. kind[net.text] = ToRoom /\ ~crossed' =>
            \A e \in f.list : e[2] \in Person => e[2] \in might[net.text]
      BY <1>4, <2>2, <3>1, <3>3 DEF NetFits, Fits
    <3> QED  BY <1>2, <1>3, <1>6, <3>1, <3>2, <3>4 DEF Grows, NetFits, Fits
  <2> QED  BY <2>1, <2>2
<1>12. UpAddressed' /\ SockReadable' /\ ReadByRecipients'
  BY <1>2, <1>3, SafeKept DEF ends
<1> QED  BY <1>9, <1>10, <1>11, <1>12

-----------------------------------------------------------------------------
(* The order of the texts *)

\* What p can still read or has read comes before text t.
ShownBefore(p, t) == \A i \in DOMAIN shown[p] : shown[p][i] < t
SockBefore(p, t) == \A i \in DOMAIN sock[p] : sock[p][i].key = p => sock[p][i].text < t
UpBefore(p, t) == \A i \in DOMAIN up : up[i].type = "text" /\ up[i].key = p => up[i].text < t

AllBefore(t) == \A p \in Person : ShownBefore(p, t) /\ SockBefore(p, t) /\ UpBefore(p, t)

SockInLine == \A p \in Person : \A j \in DOMAIN sock[p] : sock[p][j].key = p =>
  /\ ShownBefore(p, sock[p][j].text)
  /\ \A i \in DOMAIN sock[p] : i < j /\ sock[p][i].key = p => sock[p][i].text < sock[p][j].text

UpInLine == \A p \in Person : \A j \in DOMAIN up : up[j].type = "text" /\ up[j].key = p =>
  /\ ShownBefore(p, up[j].text)
  /\ SockBefore(p, up[j].text)
  /\ \A i \in DOMAIN up : i < j /\ up[i].type = "text" /\ up[i].key = p => up[i].text < up[j].text

CommandsInLine == \A j \in DOMAIN cmds :
  /\ AllBefore(cmds[j])
  /\ \A i \in DOMAIN cmds : i < j => cmds[i] < cmds[j]

BusyInLine == net # Idle => /\ AllBefore(net.text)
                           /\ \A j \in DOMAIN cmds : net.text < cmds[j]

OInv == InOrder /\ SockInLine /\ UpInLine /\ CommandsInLine /\ BusyInLine

LEMMA Numbers ==
  ASSUME DInv
  PROVE  /\ Len(kind) \in Nat /\ DOMAIN kind = 1 .. Len(kind)
         /\ \A j \in DOMAIN cmds : cmds[j] \in Nat /\ cmds[j] < Len(kind) + 1
         /\ net # Idle => net.text \in Nat /\ net.text < Len(kind) + 1
         /\ \A p \in Person : \A i \in DOMAIN sock[p] :
              sock[p][i].text \in Nat /\ sock[p][i].text < Len(kind) + 1
         /\ \A p \in Person : \A i \in DOMAIN shown[p] :
              shown[p][i] \in Nat /\ shown[p][i] < Len(kind) + 1
         /\ \A i \in DOMAIN up : up[i].type = "text" =>
              up[i].text \in Nat /\ up[i].text < Len(kind) + 1
<1> USE DEF DInv, TypesOK
<1>1. Len(kind) \in Nat /\ DOMAIN kind = 1 .. Len(kind)
  BY DEF KindsOK
<1>2. \A j \in DOMAIN cmds : cmds[j] \in DOMAIN kind
  BY DEF CommandsOK
<1>3. net # Idle => net.text \in DOMAIN kind
  BY DEF NetOK, Asking, Got
<1>4. \A p \in Person : \A i \in DOMAIN sock[p] : sock[p][i].text \in DOMAIN kind
  BY DEF SockReadable, Readable
<1>5. \A p \in Person : \A i \in DOMAIN shown[p] : shown[p][i] \in DOMAIN kind
  BY DEF ShownOK
<1>6. \A i \in DOMAIN up : up[i].type = "text" => up[i].text \in DOMAIN kind
  BY DEF UpAddressed, Addressed
<1> QED  BY <1>1, <1>2, <1>3, <1>4, <1>5, <1>6

\* A step that moves no text.
LEMMA LineKept ==
  ASSUME OInv, UNCHANGED <<ends, up, cmds, net>>
  PROVE  OInv'
BY DEF OInv, ends, InOrder, SockInLine, UpInLine, CommandsInLine, BusyInLine,
       AllBefore, ShownBefore, SockBefore, UpBefore

LEMMA TypeInLine ==
  ASSUME DInv, OInv, NEW k \in Name \cup {ToRoom}, Type(k)
  PROVE  OInv'
<1>1. /\ cmds' = Append(cmds, Len(kind) + 1)
      /\ UNCHANGED <<sock, shown, up, net>>
  BY DEF Type, ends, wires
<1>2. /\ DOMAIN cmds' = DOMAIN cmds \cup {Len(cmds) + 1}
      /\ \A i \in DOMAIN cmds : cmds'[i] = cmds[i] /\ i \in Nat /\ i < Len(cmds) + 1
      /\ cmds'[Len(cmds) + 1] = Len(kind) + 1
      /\ Len(cmds) \in Nat
  BY <1>1 DEF DInv, TypesOK, CommandsOK
<1>3. AllBefore(Len(kind) + 1)
  BY Numbers DEF AllBefore, ShownBefore, SockBefore, UpBefore
<1>4. CommandsInLine'
  <2>1. ASSUME NEW j \in DOMAIN cmds'  PROVE AllBefore(cmds'[j])
    BY <1>2, <1>3 DEF OInv, CommandsInLine
  <2>2. ASSUME NEW i \in DOMAIN cmds', NEW j \in DOMAIN cmds', i < j
        PROVE  cmds'[i] < cmds'[j]
    BY <1>2, <2>2, Numbers DEF OInv, CommandsInLine
  <2> QED  BY <1>1, <2>1, <2>2 DEF CommandsInLine, AllBefore, ShownBefore, SockBefore, UpBefore
<1>5. BusyInLine'
  <2>1. net # Idle => \A j \in DOMAIN cmds' : net.text < cmds'[j]
    BY <1>2, Numbers DEF OInv, BusyInLine
  <2> QED  BY <1>1, <2>1 DEF OInv, BusyInLine, AllBefore, ShownBefore, SockBefore, UpBefore
<1>6. InOrder' /\ SockInLine' /\ UpInLine'
  BY <1>1 DEF OInv, InOrder, SockInLine, UpInLine, ShownBefore, SockBefore
<1> QED  BY <1>4, <1>5, <1>6 DEF OInv

LEMMA RefuseInLine ==
  ASSUME DInv, OInv, Refuse
  PROVE  OInv'
<1>1. /\ cmds # <<>> /\ cmds' = Tail(cmds) /\ net = Idle
      /\ UNCHANGED <<sock, shown, up, net>>
  BY DEF Refuse, ends, wires
<1>2. \A i \in DOMAIN cmds' : i + 1 \in DOMAIN cmds /\ cmds'[i] = cmds[i + 1] /\ i \in Nat
  BY <1>1, Taken DEF DInv, TypesOK, CommandsOK
<1>3. CommandsInLine'
  BY <1>1, <1>2 DEF OInv, CommandsInLine, AllBefore, ShownBefore, SockBefore, UpBefore
<1>4. InOrder' /\ SockInLine' /\ UpInLine' /\ BusyInLine'
  BY <1>1 DEF OInv, InOrder, SockInLine, UpInLine, BusyInLine, ShownBefore, SockBefore
<1> QED  BY <1>3, <1>4 DEF OInv

\* The thread waits, has its answer or has given up: the texts stay.
LEMMA NetInLine ==
  ASSUME DInv, OInv, UNCHANGED <<sock, shown, up, cmds>>,
         net' = Idle \/ (net # Idle /\ net'.text = net.text)
  PROVE  OInv'
BY DEF OInv, InOrder, SockInLine, UpInLine, CommandsInLine, BusyInLine,
       AllBefore, ShownBefore, SockBefore, UpBefore

LEMMA HearInLine ==
  ASSUME DInv, OInv, Hear
  PROVE  OInv'
<1>1. UNCHANGED <<sock, shown, up, cmds>>
  BY DEF Hear, ends
<1>2. net' = net \/ (slot = "live" /\ net' = Got(net.text, Head(down)))
  BY DEF Hear
<1>3. CASE net' = net
  BY <1>1, <1>3, LineKept DEF ends
<1>4. CASE slot = "live" /\ net' = Got(net.text, Head(down))
  <2>1. net # Idle /\ net'.text = net.text
    BY <1>4 DEF DInv, TypesOK, NetOK, Idle, Got
  <2> QED  BY <1>1, <2>1, NetInLine
<1> QED  BY <1>2, <1>3, <1>4

\* A profile is no text.
LEMMA WhoisInLine ==
  ASSUME DInv, OInv, NEW n \in Name, Whois(n)
  PROVE  OInv'
<1>1. UNCHANGED <<sock, shown, cmds, net>>
  BY DEF Whois, sender, ends
<1>2. PICK f \in Frame : f = AskProfile(n)
  BY DEF Frame
<1>3. f.type # "text" /\ up' = Append(up, f)
  BY <1>2 DEF Whois, AskProfile
<1>4. \A i \in DOMAIN up' : up'[i].type = "text" => i \in DOMAIN up /\ up'[i] = up[i]
  <2>1. /\ DOMAIN up' = DOMAIN up \cup {Len(up) + 1}
        /\ \A i \in DOMAIN up : up'[i] = up[i]
        /\ up'[Len(up) + 1] = f
    BY <1>3, Added DEF DInv, TypesOK, UpOK
  <2> QED  BY <1>3, <2>1
<1>5. InOrder' /\ SockInLine'
  BY <1>1 DEF OInv, InOrder, SockInLine, ShownBefore
<1>6. UpInLine'
  BY <1>1, <1>4 DEF OInv, UpInLine, ShownBefore, SockBefore
<1>7. CommandsInLine' /\ BusyInLine'
  BY <1>1, <1>4 DEF OInv, CommandsInLine, BusyInLine, AllBefore, ShownBefore, SockBefore, UpBefore
<1> QED  BY <1>5, <1>6, <1>7 DEF OInv

\* The sender's frames get shorter, and nobody gets a text.
LEMMA AnswerInLine ==
  ASSUME DInv, OInv, up # <<>>, up' = Tail(up), UNCHANGED <<ends, cmds, net>>
  PROVE  OInv'
<1>1. \A i \in DOMAIN up' : i + 1 \in DOMAIN up /\ up'[i] = up[i + 1] /\ i \in Nat
  BY Taken DEF DInv, TypesOK, UpOK
<1>2. UNCHANGED <<sock, shown>>
  BY DEF ends
<1>3. InOrder' /\ SockInLine'
  BY <1>2 DEF OInv, InOrder, SockInLine, ShownBefore
<1>4. UpInLine'
  BY <1>1, <1>2 DEF OInv, UpInLine, ShownBefore, SockBefore
<1>5. CommandsInLine' /\ BusyInLine'
  BY <1>1, <1>2 DEF OInv, CommandsInLine, BusyInLine, AllBefore, ShownBefore, SockBefore, UpBefore
<1> QED  BY <1>3, <1>4, <1>5 DEF OInv

\* A text that is relayed is the last in the sockets of who can read it.
LEMMA RelayInLine ==
  ASSUME DInv, OInv, Relay
  PROVE  OInv'
<1> DEFINE f == Head(up)
<1>1. /\ up # <<>> /\ up' = Tail(up) /\ f.type = "text"
      /\ sock' = [p \in Person |-> IF p \in on /\ name[p] = f.to
                                     THEN Append(sock[p], f) ELSE sock[p]]
      /\ UNCHANGED <<shown, cmds, net>>
  BY DEF Relay, sender
<1>2. /\ 1 \in DOMAIN up /\ f = up[1]
      /\ \A i \in DOMAIN up' : i + 1 \in DOMAIN up /\ up'[i] = up[i + 1] /\ i \in Nat /\ 1 < i + 1
  BY <1>1, Taken DEF DInv, TypesOK, UpOK
<1>3. \A p \in Person : sock[p] \in Seq(Textual)
  BY DEF DInv, TypesOK, SockOK
<1> HIDE DEF f
\* f is not readable to p, or comes after what p has and before the rest.
<1>4. ASSUME NEW p \in Person, f.key = p
      PROVE  /\ ShownBefore(p, f.text) /\ SockBefore(p, f.text)
             /\ \A i \in DOMAIN up' : up'[i].type = "text" /\ up'[i].key = p => f.text < up'[i].text
             /\ \A j \in DOMAIN cmds : f.text < cmds[j]
             /\ net # Idle => f.text < net.text
  <2>1. ShownBefore(p, f.text) /\ SockBefore(p, f.text)
    BY <1>1, <1>2, <1>4 DEF OInv, UpInLine
  <2>2. \A i \in DOMAIN up' : up'[i].type = "text" /\ up'[i].key = p => f.text < up'[i].text
    BY <1>1, <1>2, <1>4 DEF OInv, UpInLine
  <2>3. \A j \in DOMAIN cmds : f.text < cmds[j]
    BY <1>1, <1>2, <1>4 DEF OInv, CommandsInLine, AllBefore, UpBefore
  <2>4. net # Idle => f.text < net.text
    BY <1>1, <1>2, <1>4 DEF OInv, BusyInLine, AllBefore, UpBefore
  <2> QED  BY <2>1, <2>2, <2>3, <2>4
\* What p can read in its socket was there, or is f at the end.
<1>5. ASSUME NEW p \in Person, NEW j \in DOMAIN sock'[p], sock'[p][j].key = p
      PROVE  /\ j \in Nat
             /\ \/ j \in DOMAIN sock[p] /\ sock'[p][j] = sock[p][j]
                \/ sock'[p][j] = f /\ f.key = p /\ \A i \in DOMAIN sock'[p] : i < j => i \in DOMAIN sock[p]
             /\ \A i \in DOMAIN sock'[p] : i \in DOMAIN sock[p] => sock'[p][i] = sock[p][i]
             /\ \A i \in DOMAIN sock'[p] : i < j /\ j \in DOMAIN sock[p] => i \in DOMAIN sock[p]
  <2>1. CASE p \in on /\ name[p] = f.to
    <3>1. sock'[p] = Append(sock[p], f)
      BY <1>1, <2>1
    <3>2. /\ Len(sock[p]) \in Nat /\ DOMAIN sock[p] = 1 .. Len(sock[p])
          /\ DOMAIN Append(sock[p], f) = 1 .. Len(sock[p]) + 1
          /\ \A i \in DOMAIN sock[p] : Append(sock[p], f)[i] = sock[p][i]
          /\ Append(sock[p], f)[Len(sock[p]) + 1] = f
      BY <1>3
    <3> QED  BY <1>5, <3>1, <3>2
  <2>2. CASE ~(p \in on /\ name[p] = f.to)
    <3>1. sock'[p] = sock[p]
      BY <1>1, <2>2
    <3>2. DOMAIN sock[p] \subseteq Nat
      BY <1>3
    <3> QED  BY <1>5, <3>1, <3>2
  <2> QED  BY <2>1, <2>2
<1>6. SockInLine'
  <2> SUFFICES ASSUME NEW p \in Person, NEW j \in DOMAIN sock'[p], sock'[p][j].key = p
               PROVE  /\ \A i \in DOMAIN shown'[p] : shown'[p][i] < sock'[p][j].text
                      /\ \A i \in DOMAIN sock'[p] :
                           i < j /\ sock'[p][i].key = p => sock'[p][i].text < sock'[p][j].text
    BY DEF SockInLine, ShownBefore
  <2>1. CASE j \in DOMAIN sock[p] /\ sock'[p][j] = sock[p][j]
    BY <1>1, <1>5, <2>1 DEF OInv, SockInLine, ShownBefore
  <2>2. CASE sock'[p][j] = f /\ f.key = p /\ \A i \in DOMAIN sock'[p] : i < j => i \in DOMAIN sock[p]
    BY <1>1, <1>4, <1>5, <2>2 DEF ShownBefore, SockBefore
  <2> QED  BY <1>5, <2>1, <2>2
<1>7. ASSUME NEW p \in Person, NEW t, SockBefore(p, t), f.key = p => f.text < t
      PROVE  \A i \in DOMAIN sock'[p] : sock'[p][i].key = p => sock'[p][i].text < t
  BY <1>5, <1>7 DEF SockBefore
<1>8. UpInLine'
  <2> SUFFICES ASSUME NEW p \in Person, NEW j \in DOMAIN up', up'[j].type = "text", up'[j].key = p
               PROVE  /\ \A i \in DOMAIN shown'[p] : shown'[p][i] < up'[j].text
                      /\ \A i \in DOMAIN sock'[p] : sock'[p][i].key = p => sock'[p][i].text < up'[j].text
                      /\ \A i \in DOMAIN up' : i < j /\ up'[i].type = "text" /\ up'[i].key = p
                                                => up'[i].text < up'[j].text
    BY DEF UpInLine, ShownBefore, SockBefore
  <2>1. /\ ShownBefore(p, up'[j].text) /\ SockBefore(p, up'[j].text)
        /\ \A i \in DOMAIN up' : i < j /\ up'[i].type = "text" /\ up'[i].key = p
                                  => up'[i].text < up'[j].text
    BY <1>2 DEF OInv, UpInLine
  <2>2. f.key = p => f.text < up'[j].text
    BY <1>4
  <2> QED  BY <1>1, <1>7, <2>1, <2>2 DEF ShownBefore
<1>9. ASSUME NEW t, AllBefore(t), \A p \in Person : f.key = p => f.text < t
      PROVE  /\ \A p \in Person : \A i \in DOMAIN shown'[p] : shown'[p][i] < t
             /\ \A p \in Person : \A i \in DOMAIN sock'[p] : sock'[p][i].key = p => sock'[p][i].text < t
             /\ \A p \in Person : \A i \in DOMAIN up' :
                  up'[i].type = "text" /\ up'[i].key = p => up'[i].text < t
  <2>1. \A p \in Person : \A i \in DOMAIN sock'[p] : sock'[p][i].key = p => sock'[p][i].text < t
    BY <1>7, <1>9 DEF AllBefore
  <2> QED  BY <1>1, <1>2, <1>9, <2>1 DEF AllBefore, ShownBefore, UpBefore
<1>10. CommandsInLine'
  <2>1. \A j \in DOMAIN cmds : AllBefore(cmds[j]) /\ \A p \in Person : f.key = p => f.text < cmds[j]
    BY <1>4 DEF OInv, CommandsInLine
  <2>2. ASSUME NEW j \in DOMAIN cmds
        PROVE  /\ \A p \in Person : \A i \in DOMAIN shown'[p] : shown'[p][i] < cmds[j]
               /\ \A p \in Person : \A i \in DOMAIN sock'[p] :
                    sock'[p][i].key = p => sock'[p][i].text < cmds[j]
               /\ \A p \in Person : \A i \in DOMAIN up' :
                    up'[i].type = "text" /\ up'[i].key = p => up'[i].text < cmds[j]
    BY <1>9, <2>1
  <2>3. \A j \in DOMAIN cmds : \A i \in DOMAIN cmds : i < j => cmds[i] < cmds[j]
    BY DEF OInv, CommandsInLine
  <2> QED  BY <1>1, <2>2, <2>3 DEF CommandsInLine, AllBefore, ShownBefore, SockBefore, UpBefore
<1>11. BusyInLine'
  <2>1. net # Idle => AllBefore(net.text) /\ \A p \in Person : f.key = p => f.text < net.text
    BY <1>4 DEF OInv, BusyInLine
  <2> QED  BY <1>1, <1>9, <2>1, ZenonT(60) DEF OInv, BusyInLine, AllBefore, ShownBefore, SockBefore, UpBefore
<1> QED  BY <1>1, <1>6, <1>8, <1>10, <1>11 DEF OInv, InOrder

\* Somebody takes a text from the socket and may show it.
LEMMA ReadInLine ==
  ASSUME DInv, OInv, NEW p \in Person,
         sock[p] # <<>>, sock' = [sock EXCEPT ![p] = Tail(@)],
         \/ UNCHANGED shown
         \/ /\ Head(sock[p]).key = p
            /\ shown' = [shown EXCEPT ![p] = Append(@, Head(sock[p]).text)],
         UNCHANGED <<up, cmds, net>>
  PROVE  OInv'
<1> DEFINE f == Head(sock[p])
<1>1. /\ \A q \in Person : q # p => sock'[q] = sock[q] /\ shown'[q] = shown[q]
      /\ sock'[p] = Tail(sock[p])
      /\ \/ shown'[p] = shown[p]
         \/ f.key = p /\ shown'[p] = Append(shown[p], f.text)
  BY DEF DInv, TypesOK, SockOK, ShownOK
<1>2. /\ 1 \in DOMAIN sock[p] /\ f = sock[p][1]
      /\ \A i \in DOMAIN sock'[p] :
           i + 1 \in DOMAIN sock[p] /\ sock'[p][i] = sock[p][i + 1] /\ i \in Nat /\ 1 < i + 1
  BY <1>1, Taken DEF DInv, TypesOK, SockOK
<1> HIDE DEF f
<1>3. /\ Len(shown[p]) \in Nat /\ DOMAIN shown[p] = 1 .. Len(shown[p])
      /\ DOMAIN Append(shown[p], f.text) = 1 .. Len(shown[p]) + 1
      /\ \A i \in DOMAIN shown[p] : Append(shown[p], f.text)[i] = shown[p][i]
      /\ Append(shown[p], f.text)[Len(shown[p]) + 1] = f.text
  BY DEF DInv, TypesOK, ShownOK
\* What q has on the screen was there, or came from the socket.
<1>4. ASSUME NEW q \in Person, NEW i \in DOMAIN shown'[q]
      PROVE  \/ i \in DOMAIN shown[q] /\ shown'[q][i] = shown[q][i]
             \/ /\ q = p /\ shown'[q][i] = f.text /\ f.key = p
                /\ \A j \in DOMAIN shown'[q] : j # i => j \in DOMAIN shown[q] /\ j < i
  BY <1>1, <1>3, <1>4
<1>5. InOrder'
  <2> SUFFICES ASSUME NEW q \in Person, NEW i \in DOMAIN shown'[q], NEW j \in DOMAIN shown'[q], i < j
               PROVE  shown'[q][i] < shown'[q][j]
    BY DEF InOrder
  <2>1. CASE shown'[q] = shown[q]
    BY <2>1 DEF OInv, InOrder
  <2>2. CASE q = p /\ f.key = p /\ shown'[p] = Append(shown[p], f.text)
    <3>1. \A k \in DOMAIN shown[p] : shown[p][k] < f.text
      BY <1>2, <2>2 DEF OInv, SockInLine, ShownBefore
    <3> QED  BY <1>3, <2>2, <3>1 DEF OInv, InOrder
  <2> QED  BY <1>1, <2>1, <2>2
<1>6. ASSUME NEW q \in Person, NEW t, ShownBefore(q, t), q = p /\ f.key = p => f.text < t
      PROVE  \A i \in DOMAIN shown'[q] : shown'[q][i] < t
  BY <1>4, <1>6 DEF ShownBefore
<1>7. SockInLine'
  <2> SUFFICES ASSUME NEW q \in Person, NEW j \in DOMAIN sock'[q], sock'[q][j].key = q
               PROVE  /\ \A i \in DOMAIN shown'[q] : shown'[q][i] < sock'[q][j].text
                      /\ \A i \in DOMAIN sock'[q] :
                           i < j /\ sock'[q][i].key = q => sock'[q][i].text < sock'[q][j].text
    BY DEF SockInLine, ShownBefore
  <2>1. CASE q # p
    BY <1>1, <2>1 DEF OInv, SockInLine, ShownBefore
  <2>2. CASE q = p
    <3> DEFINE g == sock[p][j + 1]
    <3>1. j + 1 \in DOMAIN sock[p] /\ sock'[p][j] = g /\ g.key = p /\ j \in Nat /\ 1 < j + 1
      BY <1>2, <2>2
    <3>2. /\ ShownBefore(p, g.text)
          /\ \A i \in DOMAIN sock[p] : i < j + 1 /\ sock[p][i].key = p => sock[p][i].text < g.text
      BY <3>1 DEF OInv, SockInLine
    <3> HIDE DEF g
    <3>3. /\ ShownBefore(p, sock'[p][j].text)
          /\ f.key = p => f.text < sock'[p][j].text
      BY <1>2, <3>1, <3>2
    <3>4. ASSUME NEW i \in DOMAIN sock'[p], i < j, sock'[p][i].key = p
          PROVE  sock'[p][i].text < sock'[p][j].text
      <4>1. i + 1 \in DOMAIN sock[p] /\ sock'[p][i] = sock[p][i + 1] /\ i \in Nat /\ i + 1 < j + 1
        BY <1>2, <3>1, <3>4
      <4> QED  BY <3>1, <3>4, <3>2, <4>1
    <3> QED  BY <1>6, <2>2, <3>3, <3>4
  <2> QED  BY <2>1, <2>2
<1>8. ASSUME NEW q \in Person, NEW t, ShownBefore(q, t), SockBefore(q, t)
      PROVE  /\ \A i \in DOMAIN shown'[q] : shown'[q][i] < t
             /\ \A i \in DOMAIN sock'[q] : sock'[q][i].key = q => sock'[q][i].text < t
  <2>1. q = p /\ f.key = p => f.text < t
    BY <1>2, <1>8 DEF SockBefore
  <2>2. \A i \in DOMAIN sock'[q] : sock'[q][i].key = q => sock'[q][i].text < t
    BY <1>1, <1>2, <1>8 DEF SockBefore
  <2> QED  BY <1>6, <1>8, <2>1, <2>2
<1>9. UpInLine'
  BY <1>8 DEF OInv, UpInLine, ShownBefore, SockBefore
<1>10. ASSUME NEW t, AllBefore(t)
       PROVE  \A q \in Person : /\ \A i \in DOMAIN shown'[q] : shown'[q][i] < t
                                /\ \A i \in DOMAIN sock'[q] : sock'[q][i].key = q => sock'[q][i].text < t
                                /\ UpBefore(q, t)
  BY <1>8, <1>10 DEF AllBefore
<1>11. CommandsInLine' /\ BusyInLine'
  BY <1>10, ZenonT(60) DEF OInv, CommandsInLine, BusyInLine, AllBefore, ShownBefore, SockBefore, UpBefore
<1> QED  BY <1>5, <1>7, <1>9, <1>11 DEF OInv

LEMMA GoOffInLine ==
  ASSUME DInv, OInv, NEW p \in Person, GoOff(p)
  PROVE  OInv'
<1>1. /\ UNCHANGED <<shown, up, cmds, net>>
      /\ sock' = [sock EXCEPT ![p] = <<>>]
  BY DEF GoOff, sender, wires
<1>2. \A q \in Person : \A i \in DOMAIN sock'[q] : i \in DOMAIN sock[q] /\ sock'[q] = sock[q]
  BY <1>1 DEF DInv, TypesOK, SockOK
<1>3. SockInLine'
  BY <1>1, <1>2 DEF OInv, SockInLine, ShownBefore
<1>4. UpInLine'
  BY <1>1, <1>2 DEF OInv, UpInLine, ShownBefore, SockBefore
<1>5. CommandsInLine' /\ BusyInLine'
  BY <1>1, <1>2 DEF OInv, CommandsInLine, BusyInLine, AllBefore, ShownBefore, SockBefore, UpBefore
<1> QED  BY <1>1, <1>3, <1>4, <1>5 DEF OInv, InOrder

\* Frames of text t, for different keys, or a request for it, are sent; t comes
\* after what was sent and before the commands left.
LEMMA SentInLine ==
  ASSUME DInv, OInv, NEW t, AllBefore(t), NEW r \in Seq(Frame), up' = up \o r,
         \A i \in DOMAIN r : r[i].type = "text" => r[i].text = t,
         \A i, j \in DOMAIN r : r[i].type = "text" /\ r[j].type = "text" /\ i # j => r[i].key # r[j].key,
         net' = Idle \/ (net'.text = t /\ \A i \in DOMAIN r : r[i].type # "text"),
         \A j \in DOMAIN cmds' :
           /\ AllBefore(cmds'[j]) /\ t < cmds'[j]
           /\ \A i \in DOMAIN cmds' : i < j => cmds'[i] < cmds'[j],
         UNCHANGED ends
  PROVE  OInv'
<1>1. /\ Len(up) \in Nat /\ DOMAIN up = 1 .. Len(up) /\ DOMAIN r = 1 .. Len(r) /\ Len(r) \in Nat
      /\ DOMAIN (up \o r) = 1 .. Len(up) + Len(r)
      /\ \A i \in DOMAIN up : (up \o r)[i] = up[i]
      /\ \A i \in DOMAIN (up \o r) : i \notin DOMAIN up =>
           i - Len(up) \in DOMAIN r /\ (up \o r)[i] = r[i - Len(up)]
  BY DEF DInv, TypesOK, UpOK
<1>2. UNCHANGED <<sock, shown>>
  BY DEF ends
<1>3. ASSUME NEW j \in DOMAIN up', up'[j].type = "text"
      PROVE  /\ j \in DOMAIN up => up'[j] = up[j]
             /\ j \notin DOMAIN up =>
                  /\ up'[j].text = t /\ j - Len(up) \in DOMAIN r /\ up'[j] = r[j - Len(up)]
                  /\ r[j - Len(up)].type = "text"
  BY <1>1, <1>3
<1>4. UpInLine'
  <2> SUFFICES ASSUME NEW p \in Person, NEW j \in DOMAIN up', up'[j].type = "text", up'[j].key = p
               PROVE  /\ ShownBefore(p, up'[j].text)
                      /\ SockBefore(p, up'[j].text)
                      /\ \A i \in DOMAIN up' : i < j /\ up'[i].type = "text" /\ up'[i].key = p
                                               => up'[i].text < up'[j].text
    BY <1>2 DEF UpInLine, ShownBefore, SockBefore
  <2>1. CASE j \in DOMAIN up
    <3>1. \A i \in DOMAIN up' : i < j => i \in DOMAIN up
      BY <1>1, <2>1
    <3>2. up'[j] = up[j]
      BY <1>3, <2>1
    <3> QED  BY <1>3, <2>1, <3>1, <3>2 DEF OInv, UpInLine
  <2>2. CASE j \notin DOMAIN up
    <3>1. /\ up'[j].text = t /\ j - Len(up) \in DOMAIN r /\ up'[j] = r[j - Len(up)]
          /\ r[j - Len(up)].type = "text"
      BY <1>3, <2>2
    <3>2. ShownBefore(p, t) /\ SockBefore(p, t) /\ UpBefore(p, t)
      BY DEF AllBefore
    <3>3. ASSUME NEW i \in DOMAIN up', i < j, up'[i].type = "text", up'[i].key = p
          PROVE  up'[i].text < t
      <4>1. CASE i \in DOMAIN up
        BY <1>3, <3>2, <3>3, <4>1 DEF UpBefore
      <4>2. CASE i \notin DOMAIN up
        <5>1. i - Len(up) \in DOMAIN r /\ up'[i] = r[i - Len(up)] /\ r[i - Len(up)].type = "text"
          BY <1>3, <3>3, <4>2
        <5>2. i - Len(up) # j - Len(up)
          BY <1>1, <3>3
        <5> QED  BY <3>1, <3>3, <5>1, <5>2
      <4> QED  BY <4>1, <4>2
    <3> QED  BY <3>1, <3>2, <3>3
  <2> QED  BY <2>1, <2>2
<1>5. CommandsInLine'
  <2>1. ASSUME NEW j \in DOMAIN cmds', NEW p \in Person
        PROVE  \A i \in DOMAIN up' : up'[i].type = "text" /\ up'[i].key = p => up'[i].text < cmds'[j]
    BY <1>3, <2>1 DEF AllBefore, UpBefore
  <2> QED  BY <1>2, <2>1 DEF CommandsInLine, AllBefore, ShownBefore, SockBefore, UpBefore
<1>6. BusyInLine'
  <2> SUFFICES ASSUME net' # Idle  PROVE BusyInLine'
    BY DEF BusyInLine
  <2>1. net'.text = t /\ \A i \in DOMAIN r : r[i].type # "text"
    BY DEF Idle
  <2>2. ASSUME NEW p \in Person
        PROVE  \A i \in DOMAIN up' : up'[i].type = "text" /\ up'[i].key = p => up'[i].text < t
    BY <1>3, <2>1, <2>2 DEF AllBefore, UpBefore
  <2> QED  BY <1>2, <2>1, <2>2 DEF BusyInLine, AllBefore, ShownBefore, SockBefore, UpBefore
<1>7. InOrder' /\ SockInLine'
  BY <1>2 DEF OInv, InOrder, SockInLine, ShownBefore
<1> QED  BY <1>4, <1>5, <1>6, <1>7 DEF OInv

LEMMA TakeInLine ==
  ASSUME DInv, OInv, Take
  PROVE  OInv'
<1> DEFINE t == Head(cmds)
           n == kind[t]
<1>1. /\ net = Idle /\ cmds # <<>> /\ cmds' = Tail(cmds) /\ UNCHANGED ends
  BY DEF Take
<1>2. /\ 1 \in DOMAIN cmds /\ t = cmds[1]
      /\ \A i \in DOMAIN cmds' : i + 1 \in DOMAIN cmds /\ cmds'[i] = cmds[i + 1] /\ i \in Nat /\ 1 < i + 1
  BY <1>1, Taken DEF DInv, TypesOK, CommandsOK
<1>3. AllBefore(t) /\ t \in Text
  <2>1. t \in DOMAIN kind
    BY <1>2 DEF DInv, TypesOK, CommandsOK
  <2> QED  BY <1>2, <2>1, BoundAssumption DEF OInv, CommandsInLine, DInv, TypesOK, KindsOK, Text
<1>4. ASSUME NEW j \in DOMAIN cmds'
      PROVE  /\ AllBefore(cmds'[j]) /\ t < cmds'[j]
             /\ \A i \in DOMAIN cmds' : i < j => cmds'[i] < cmds'[j]
  <2>1. j + 1 \in DOMAIN cmds /\ cmds'[j] = cmds[j + 1] /\ j \in Nat /\ 1 < j + 1
    BY <1>2
  <2>2. AllBefore(cmds[j + 1]) /\ t < cmds[j + 1]
    BY <1>2, <2>1 DEF OInv, CommandsInLine
  <2>3. ASSUME NEW i \in DOMAIN cmds', i < j  PROVE cmds'[i] < cmds'[j]
    <3>1. i + 1 \in DOMAIN cmds /\ cmds'[i] = cmds[i + 1] /\ i \in Nat /\ i + 1 < j + 1
      BY <1>2, <2>1, <2>3
    <3> QED  BY <2>1, <3>1 DEF OInv, CommandsInLine
  <2> QED  BY <2>1, <2>2, <2>3
<1>5. PICK r \in Seq(Frame) :
        /\ up' = up \o r
        /\ \A i \in DOMAIN r : r[i].type = "text" => r[i].text = t
        /\ \A i, j \in DOMAIN r : i = j
        /\ net' = Idle \/ (net'.text = t /\ \A i \in DOMAIN r : r[i].type # "text")
  <2>1. t \in DOMAIN kind /\ n \in Name \cup {ToRoom} /\ up \in Seq(Frame)
    <3>1. t \in DOMAIN kind
      BY <1>2 DEF DInv, TypesOK, CommandsOK
    <3> QED  BY <3>1 DEF DInv, TypesOK, KindsOK, UpOK
  <2>2. ASSUME NEW f \in Frame
        PROVE  <<f>> \in Seq(Frame) /\ Append(up, f) = up \o <<f>> /\ DOMAIN <<f>> = {1} /\ <<f>>[1] = f
    BY <2>1
  <2>3. ASSUME NEW f \in Frame, f.type # "text", Request(t, f)
        PROVE  /\ up' = up \o <<f>> /\ net'.text = t
               /\ \A i \in DOMAIN <<f>> : <<f>>[i].type # "text"
    <3>1. up' = Append(up, f) /\ net' = Asking(t)
      BY <2>3 DEF Request
    <3> QED  BY <2>2, <2>3, <3>1 DEF Asking
  <2>4. CASE n = ToRoom
    <3>1. Request(t, AskMembers)
      BY <2>4 DEF Take
    <3>2. AskMembers \in Frame /\ AskMembers.type # "text"
      BY DEF Frame, AskMembers
    <3> HIDE DEF t
    <3> QED  BY <2>2, <2>3, <3>1, <3>2
  <2>5. CASE n # ToRoom /\ known[n] = Nobody
    <3>1. Request(t, AskKey(n))
      BY <2>5 DEF Take
    <3>2. n \in Name
      BY <2>1, <2>5
    <3> HIDE DEF t, n
    <3>3. AskKey(n) \in Frame /\ AskKey(n).type # "text"
      <4>1. AskKey(n) \in Frame
        BY <3>2 DEF Frame
      <4> QED  BY <4>1 DEF AskKey
    <3> QED  BY <2>2, <2>3, <3>1, <3>3
  <2>6. CASE n # ToRoom /\ known[n] # Nobody
    <3>1. /\ up' = IF known[n] = Garbage THEN up ELSE Append(up, M(t, n, known[n]))
          /\ net' = Idle
      BY <1>1, <2>6 DEF Take
    <3>2. n \in Name /\ known[n] \in Person \cup {Garbage}
      BY <2>1, <2>6 DEF DInv, TypesOK, SenderOK, Key
    <3> HIDE DEF t, n
    <3>3. CASE known[n] = Garbage
      <4>1. up' = up \o << >> /\ << >> \in Seq(Frame) /\ DOMAIN << >> = {}
        BY <2>1, <3>1, <3>3
      <4> QED  BY <3>1, <4>1
    <3>4. CASE known[n] # Garbage
      <4>1. PICK f \in Frame : f = M(t, n, known[n])
        BY <1>3, <3>2, <3>4 DEF Frame
      <4>2. f.text = t /\ up' = Append(up, f)
        BY <3>1, <3>4, <4>1 DEF M
      <4> QED  BY <2>2, <3>1, <4>2, ZenonT(60)
    <3> QED  BY <3>3, <3>4
  <2> QED  BY <2>4, <2>5, <2>6
<1> HIDE DEF t
<1>6. /\ \A i \in DOMAIN r : r[i].type = "text" => r[i].text = t
      /\ \A i, j \in DOMAIN r : r[i].type = "text" /\ r[j].type = "text" /\ i # j => r[i].key # r[j].key
      /\ net' = Idle \/ (net'.text = t /\ \A i \in DOMAIN r : r[i].type # "text")
      /\ up' = up \o r
  BY <1>5
<1>7. \A j \in DOMAIN cmds' :
        /\ AllBefore(cmds'[j]) /\ t < cmds'[j]
        /\ \A i \in DOMAIN cmds' : i < j => cmds'[i] < cmds'[j]
  BY <1>4
<1>8. UNCHANGED ends
  BY <1>1
<1> QED  BY <1>3, <1>6, <1>7, <1>8, SentInLine

LEMMA SendInLine ==
  ASSUME DInv, OInv, SendToRoom \/ SendToName
  PROVE  OInv'
<1> DEFINE t == net.text
<1>1. /\ net.at = "got" /\ net' = Idle /\ UNCHANGED <<cmds, ends>>
  BY DEF SendToRoom, SendToName
<1>2. net # Idle
  BY <1>1 DEF Idle
<1>3. /\ AllBefore(t)
      /\ \A j \in DOMAIN cmds : AllBefore(cmds[j]) /\ t < cmds[j]
      /\ \A j \in DOMAIN cmds : \A i \in DOMAIN cmds : i < j => cmds[i] < cmds[j]
  BY <1>2 DEF OInv, BusyInLine, CommandsInLine
<1>4. /\ t \in Text /\ kind[t] \in Name \cup {ToRoom}
      /\ net.resp.list \in Lists /\ up \in Seq(Frame)
  BY <1>1, GotIsAnswer DEF DInv, TypesOK, UpOK
<1>5. PICK r \in Seq(Frame) :
        /\ up' = up \o r
        /\ \A i \in DOMAIN r : r[i].text = t
        /\ \A i, j \in DOMAIN r : i # j => r[i].key # r[j].key
  <2>1. CASE SendToRoom
    <3> DEFINE r == Frames(t, net.resp.list)
    <3>1. up' = up \o r
      BY <2>1 DEF SendToRoom
    <3>2. /\ r \in Seq(Textual)
          /\ \A i \in DOMAIN r : \E e \in net.resp.list :
               e[2] \in Person /\ r[i] = M(t, e[1], e[2])
          /\ \A i, j \in DOMAIN r : i # j => r[i].key # r[j].key
      BY <1>4, FramesOfList
    <3> HIDE DEF r, t
    <3>3. \A i \in DOMAIN r : r[i].text = t
      BY <3>2 DEF M
    <3>4. r \in Seq(Frame)
      <4>1. Textual \subseteq Frame
        BY DEF Textual, Frame
      <4> QED  BY <3>2, <4>1
    <3> QED  BY <3>1, <3>2, <3>3, <3>4
  <2>2. CASE SendToName
    <3> DEFINE n == kind[t]
               k == net.resp.key
    <3>1. n \in Name /\ up' = IF k \in Person THEN Append(up, M(t, n, k)) ELSE up
      BY <1>4, <2>2 DEF SendToName
    <3> HIDE DEF t, n, k
    <3>2. CASE k \in Person
      <4>1. PICK f \in Frame : f = M(t, n, k)
        BY <1>4, <3>1, <3>2 DEF Frame
      <4>2. f.text = t /\ up' = Append(up, f)
        BY <3>1, <3>2, <4>1 DEF M
      <4>3. <<f>> \in Seq(Frame) /\ Append(up, f) = up \o <<f>> /\ DOMAIN <<f>> = {1} /\ <<f>>[1] = f
        BY <1>4
      <4> QED  BY <4>2, <4>3
    <3>3. CASE k \notin Person
      <4>1. up' = up \o << >> /\ << >> \in Seq(Frame) /\ DOMAIN << >> = {}
        BY <1>4, <3>1, <3>3
      <4> QED  BY <4>1
    <3> QED  BY <3>2, <3>3
  <2> QED  BY <2>1, <2>2
<1> HIDE DEF t
<1>6. \A j \in DOMAIN cmds' :
        /\ AllBefore(cmds'[j]) /\ t < cmds'[j]
        /\ \A i \in DOMAIN cmds' : i < j => cmds'[i] < cmds'[j]
  <2>1. cmds' = cmds
    BY <1>1
  <2> QED  BY <1>3, <2>1
<1> QED  BY <1>1, <1>3, <1>5, <1>6, SentInLine

LEMMA InitOInv ==
  DInit => OInv
BY DEF DInit, OInv, InOrder, SockInLine, UpInLine, CommandsInLine, BusyInLine

LEMMA StepOInv ==
  DInv /\ OInv /\ [DNext]_dvars => OInv'
<1> SUFFICES ASSUME DInv, OInv, [DNext]_dvars  PROVE OInv'
  OBVIOUS
<1>1. CASE UNCHANGED dvars
  BY <1>1, LineKept DEF dvars, sender, wires
<1>2. CASE Network
  <2>1. CASE TimeOut
    <3>1. UNCHANGED <<sock, shown, up, cmds>> /\ net' = Idle
      BY <2>1 DEF TimeOut, wires, ends
    <3> QED  BY <3>1, NetInLine
  <2> QED  BY <1>2, <2>1, TakeInLine, RefuseInLine, SendInLine, HearInLine DEF Network
<1>3. CASE Handler
  <2>1. CASE AnswerMembers \/ AnswerKey \/ AnswerProfile
    <3>1. up # <<>> /\ up' = Tail(up) /\ UNCHANGED <<ends, cmds, net>>
      BY <2>1 DEF AnswerMembers, AnswerKey, AnswerProfile, sender
    <3> QED  BY <3>1, AnswerInLine
  <2> QED  BY <1>3, <2>1, RelayInLine DEF Handler
<1>4. ASSUME NEW p \in Person, Read(p) \/ SaveFails(p)  PROVE OInv'
  <2>1. /\ sock[p] # <<>> /\ sock' = [sock EXCEPT ![p] = Tail(@)]
        /\ \/ UNCHANGED shown
           \/ /\ Head(sock[p]).key = p
              /\ shown' = [shown EXCEPT ![p] = Append(@, Head(sock[p]).text)]
        /\ UNCHANGED <<up, cmds, net>>
    BY <1>4 DEF Read, SaveFails, sender, wires
  <2> QED  BY <2>1, ReadInLine
<1>5. CASE People
  <2>1. ASSUME NEW p \in Person,
               \/ LeaveRoom(p) \/ EnterRoom(p) \/ ComeBack(p) \/ AskForMe(p)
               \/ \E n \in Name : Rename(p, n)
        PROVE  OInv'
    <3>1. UNCHANGED <<ends, up, cmds, net>>
      BY <2>1 DEF LeaveRoom, EnterRoom, ComeBack, AskForMe, Rename, sender, wires
    <3> QED  BY <3>1, LineKept
  <2>2. ASSUME NEW n \in Name, SenderRenames(n)  PROVE OInv'
    <3>1. UNCHANGED <<ends, up, cmds, net>>
      BY <2>2 DEF SenderRenames, sender, wires
    <3> QED  BY <3>1, LineKept
  <2> QED  BY <1>5, <2>1, <2>2, TypeInLine, WhoisInLine, GoOffInLine DEF People
<1>6. ASSUME NEW p \in Person, HearNews(p)  PROVE OInv'
  <2>1. UNCHANGED <<ends, up, cmds, net>>
    BY <1>6 DEF HearNews, sender, wires
  <2> QED  BY <2>1, LineKept
<1> QED  BY <1>1, <1>2, <1>3, <1>4, <1>5, <1>6 DEF DNext, Machines, Reader

-----------------------------------------------------------------------------
(* The theorems *)

LEMMA StepDInv ==
  DInv /\ [DNext]_dvars => DInv'
<1> SUFFICES ASSUME DInv, [DNext]_dvars  PROVE DInv'
  OBVIOUS
<1>1. CASE UNCHANGED dvars
  <2>1. Grows /\ HistoryOK'
    BY <1>1 DEF Grows, dvars, others, sender, history, DInv, TypesOK, HistoryOK
  <2> QED  BY <1>1, <2>1, TypesKept, SafeKept DEF DInv, TypesOK, dvars, sender, wires, ends
<1>2. CASE Network /\ Record
  BY <1>2, TakeStep, RefuseStep, TimeOutStep, SendToRoomStep, SendToNameStep, HearStep DEF Network
<1>3. CASE Handler /\ Record
  BY <1>3, AnswerMembersStep, AnswerKeyStep, AnswerProfileStep, RelayStep DEF Handler
<1>4. CASE Reader /\ Record
  BY <1>4, ReadStep, SaveFailsStep, HearNewsStep DEF Reader
<1>5. CASE People /\ Record
  BY <1>5, TypeStep, WhoisStep, SenderRenamesStep, MoveStep, GoOffStep, ComeBackStep DEF People
<1> QED  BY <1>1, <1>2, <1>3, <1>4, <1>5 DEF DNext, Machines

LEMMA SpecDInv ==
  DSpec => []DInv
<1> QED  BY InitDInv, StepDInv, PTL DEF DSpec

\* The types of sender, handler and readers hold in every behaviour.
THEOREM DeliveryTypes ==
  DSpec => []DeliveryOK
<1>1. DInv => DeliveryOK
  BY TypesImplied DEF DInv
<1> QED  BY <1>1, SpecDInv, PTL

\* Whoever reads a text (handle_message, net.rs) was in its room, or had the
\* name it is for, at some time since it was typed, however many people come,
\* go and rename themselves while it is under way.
THEOREM ReadersAreRecipients ==
  DSpec => []ReadByRecipients
<1>1. DInv => ReadByRecipients
  BY DEF DInv
<1> QED  BY <1>1, SpecDInv, PTL

\* The texts of a sender appear everywhere in the order they were typed in
\* submit_input, and none twice, although each may wait for answers of its own
\* and its readers rename themselves: a frame is relayed to a name, and the
\* same person may have had two names of one list.
THEOREM TextsInOrder ==
  DSpec => []InOrder
<1>1. OInv => InOrder
  BY DEF OInv
<1>2. DInit => OInv
  BY InitOInv
<1>3. DInv /\ OInv /\ [DNext]_dvars => OInv'
  BY StepOInv
<1> QED  BY <1>1, <1>2, <1>3, SpecDInv, PTL DEF DSpec


-----------------------------------------------------------------------------
(* A text for the room reaches whoever stays *)

InCmds(t) == \E j \in DOMAIN cmds : cmds[j] = t
Asked(t) == net.at = "ask" /\ net.text = t
GotFor(t, p) == net.at = "got" /\ net.text = t /\ <<name[p], p>> \in net.resp.list
InUp(t, p) == \E i \in DOMAIN up : up[i] = M(t, name[p], p)
InSock(t, p) == \E i \in DOMAIN sock[p] : sock[p][i].text = t /\ sock[p][i].key = p
OnScreen(t, p) == \E i \in DOMAIN shown[p] : shown[p][i] = t

\* Text t is under way to p, under p's name, or p has it on the screen.
Somewhere(t, p) ==
  InCmds(t) \/ Asked(t) \/ GotFor(t, p) \/ InUp(t, p) \/ InSock(t, p) \/ OnScreen(t, p)

OnTheWay == ~crossed =>
  \A t \in DOMAIN kind : kind[t] = ToRoom /\ t \notin failed =>
    \A p \in stay[t] : name[p] # Me => Somewhere(t, p)

StayFor == \A t \in DOMAIN kind : stay[t] \subseteq For(t) \cap knows

\* The outcome of a text is told when the network thread is through with it.
Untold == /\ \A j \in DOMAIN cmds : cmds[j] \notin told
          /\ net # Idle => net.text \notin told

\* The answer that a text for the room waits for is a list, with everybody on
\* it who has stayed.
RoomAsked == net.at = "ask" /\ kind[net.text] = ToRoom /\ ~crossed =>
  /\ \A i \in DOMAIN up : up[i].type # "pubkey"
  /\ \A i \in DOMAIN down : down[i].type = "resp" =>
       \A p \in stay[net.text] : <<name[p], p>> \in down[i].list

MInv == OnTheWay /\ StayFor /\ Untold /\ RoomAsked

\* Who stays through a step keeps the name, the place and the sender's key.
Stayed ==
  /\ StayFor'
  /\ \A t \in DOMAIN kind : \A p \in stay'[t] :
       /\ p \in Person /\ p \in stay[t] /\ name'[p] = name[p]
       /\ p \in on /\ p \in on' /\ p \in knows
       /\ kind[t] = ToRoom => p \in in

LEMMA StayedIs ==
  ASSUME DInv, DInv', StayFor, Record, Grows
  PROVE  Stayed
<1>1. /\ DOMAIN kind \subseteq DOMAIN kind'
      /\ \A t \in DOMAIN kind : kind'[t] = kind[t]
  BY DEF Grows
<1>2. stay' = [t \in DOMAIN kind' |-> IF t \in DOMAIN kind
                         THEN {p \in stay[t] \cap For(t)' \cap knows' : name'[p] = name[p]}
                         ELSE For(t)' \cap knows']
  BY DEF Record
<1>3. \A t \in DOMAIN kind' : stay'[t] \subseteq For(t)' \cap knows'
  BY <1>2
<1>4. StayFor'
  BY <1>3 DEF StayFor
<1>5. ASSUME NEW t \in DOMAIN kind, NEW p \in stay'[t]
      PROVE  /\ p \in Person /\ p \in stay[t] /\ name'[p] = name[p]
             /\ p \in on /\ p \in on' /\ p \in knows
             /\ kind[t] = ToRoom => p \in in
  <2>1. p \in stay[t] /\ p \in For(t)' /\ name'[p] = name[p]
    BY <1>1, <1>2, <1>5
  <2>2. p \in For(t) /\ p \in knows
    BY <2>1 DEF StayFor
  <2>3. p \in on /\ (kind[t] = ToRoom => p \in in)
    BY <2>2 DEF For
  <2>4. p \in on'
    BY <2>1 DEF For
  <2>5. p \in Person
    BY <2>3 DEF DInv, TypesOK, PeopleOK
  <2> QED  BY <2>1, <2>2, <2>3, <2>4, <2>5
<1> QED  BY <1>4, <1>5 DEF Stayed

\* A step that puts each text where it may be.
LEMMA WayKept ==
  ASSUME DInv, MInv, Stayed, kind' = kind, failed \subseteq failed', crossed => crossed',
         ASSUME NEW t \in DOMAIN kind, NEW p \in stay'[t], kind[t] = ToRoom, t \notin failed',
                name[p] # Me, Somewhere(t, p)
         PROVE  Somewhere(t, p)'
  PROVE  OnTheWay'
<1> SUFFICES ASSUME ~crossed', NEW t \in DOMAIN kind, kind[t] = ToRoom, t \notin failed',
                    NEW p \in stay'[t], name'[p] # Me
             PROVE  Somewhere(t, p)'
  BY DEF OnTheWay
<1>1. p \in stay[t] /\ name[p] # Me
  BY DEF Stayed
<1>2. Somewhere(t, p)
  BY <1>1 DEF MInv, OnTheWay
<1> QED  BY <1>1, <1>2

LEMMA Parts ==
  ASSUME NEW t, NEW p, name'[p] = name[p]
  PROVE  /\ UNCHANGED cmds /\ InCmds(t) => InCmds(t)'
         /\ UNCHANGED net /\ Asked(t) => Asked(t)'
         /\ UNCHANGED net /\ GotFor(t, p) => GotFor(t, p)'
         /\ UNCHANGED up /\ InUp(t, p) => InUp(t, p)'
         /\ sock'[p] = sock[p] /\ InSock(t, p) => InSock(t, p)'
         /\ UNCHANGED shown /\ OnScreen(t, p) => OnScreen(t, p)'
BY DEF InCmds, Asked, GotFor, InUp, InSock, OnScreen

LEMMA Rest ==
  ASSUME NEW S, NEW s \in Seq(S), s # <<>>
  PROVE  \A j \in DOMAIN s : j # 1 => j - 1 \in DOMAIN Tail(s) /\ Tail(s)[j - 1] = s[j]
OBVIOUS

LEMMA Extended ==
  ASSUME NEW S, NEW s \in Seq(S), NEW r \in Seq(S)
  PROVE  /\ \A i \in DOMAIN s : i \in DOMAIN (s \o r) /\ (s \o r)[i] = s[i]
         /\ \A i \in DOMAIN r : Len(s) + i \in DOMAIN (s \o r) /\ (s \o r)[Len(s) + i] = r[i]
OBVIOUS

\* Everything of a finite set is in its sequence.
LEMMA ListIsWhole ==
  ASSUME NEW S, IsFiniteSet(S), NEW e \in S
  PROVE  \E i \in DOMAIN SetToSeq(S) : SetToSeq(S)[i] = e
<1>1. PICK n, f : n = Cardinality(S) /\ f = SetToSeq(S)
  OBVIOUS
<1>2. n \in Nat /\ ExistsBijection(1 .. n, S)
  BY <1>1, FS_CardinalityType
<1>3. \E g \in [1 .. n -> S] : IsInjective(g)
  BY <1>2 DEF ExistsBijection, Bijection, Injection
<1>4. f \in [1 .. n -> S] /\ IsInjective(f)
  BY <1>1, <1>3 DEF SetToSeq
<1>5. PICK R : R = {f[i] : i \in 1 .. n}
  OBVIOUS
<1>6. R \subseteq S
  BY <1>4, <1>5
<1>7. Cardinality(R) = n
  <2>1. f \in Bijection(1 .. n, R)
    BY <1>4, <1>5 DEF Bijection, Injection, Surjection, IsInjective
  <2>2. ExistsBijection(1 .. n, R)
    BY <2>1 DEF ExistsBijection
  <2> QED  BY <1>2, <2>2, FS_CountingElements
<1>8. R = S
  BY <1>1, <1>6, <1>7, FS_Subset
<1> QED  BY <1>1, <1>4, <1>5, <1>8

LEMMA FramesForAll ==
  ASSUME NEW t, NEW list \in Lists, NEW e \in list, e[1] # Me, e[2] \in Person
  PROVE  \E i \in DOMAIN Frames(t, list) : Frames(t, list)[i] = M(t, e[1], e[2])
<1>1. e \in Targets(list) /\ IsFiniteSet(Targets(list))
  BY TargetsOfList DEF Targets
<1>2. PICK i \in DOMAIN SetToSeq(Targets(list)) : SetToSeq(Targets(list))[i] = e
  BY <1>1, ListIsWhole
<1> QED  BY <1>2 DEF Frames

-----------------------------------------------------------------------------

\* The sender does nothing, and nobody who stays loses a frame.
LEMMA OthersOnWay ==
  ASSUME DInv, MInv, Stayed,
         UNCHANGED <<kind, cmds, net, told, failed, crossed, up, shown>>,
         \A p \in on' : sock'[p] = sock[p],
         \A i \in DOMAIN down' : down'[i].type = "resp" => \E j \in DOMAIN down : down'[i] = down[j]
  PROVE  MInv'
<1>1. OnTheWay'
  <2>1. ASSUME NEW t \in DOMAIN kind, NEW p \in stay'[t], kind[t] = ToRoom, t \notin failed',
               name[p] # Me, Somewhere(t, p)
        PROVE  Somewhere(t, p)'
    <3>1. name'[p] = name[p] /\ p \in on'
      BY DEF Stayed
    <3>2. sock'[p] = sock[p]
      BY <3>1
    <3> QED  BY <2>1, <3>1, <3>2, Parts DEF Somewhere
  <2> QED  BY <2>1, WayKept
<1>2. Untold'
  BY DEF MInv, Untold
<1>3. RoomAsked'
  <2> SUFFICES ASSUME net.at = "ask", kind[net.text] = ToRoom, ~crossed
               PROVE  RoomAsked'
    BY DEF RoomAsked
  <2>1. net.text \in DOMAIN kind
    BY DEF DInv, TypesOK, NetOK, Idle, Asking, Got
  <2>2. \A i \in DOMAIN up : up[i].type # "pubkey"
    BY DEF MInv, RoomAsked
  <2>3. ASSUME NEW i \in DOMAIN down', down'[i].type = "resp", NEW p \in stay'[net.text]
        PROVE  <<name'[p], p>> \in down'[i].list
    <3>1. PICK j \in DOMAIN down : down'[i] = down[j]
      BY <2>3
    <3>2. p \in stay[net.text] /\ name'[p] = name[p]
      BY <2>1 DEF Stayed
    <3> QED  BY <2>3, <3>1, <3>2 DEF MInv, RoomAsked
  <2> QED  BY <2>2, <2>3 DEF RoomAsked
<1> QED  BY <1>1, <1>2, <1>3 DEF MInv, Stayed

LEMMA PeopleOnWay ==
  ASSUME DInv, MInv, Stayed, NEW p \in Person,
         \/ LeaveRoom(p) \/ EnterRoom(p) \/ GoOff(p) \/ ComeBack(p) \/ AskForMe(p)
         \/ HearNews(p) \/ \E n \in Name : Rename(p, n)
  PROVE  MInv'
<1>1. UNCHANGED <<kind, cmds, net, told, failed, crossed, up, shown>>
  BY DEF LeaveRoom, EnterRoom, GoOff, ComeBack, AskForMe, HearNews, Rename,
         sender, wires, ends
<1>2. \A q \in on' : sock'[q] = sock[q]
  <2>1. CASE GoOff(p)
    <3>1. on' = on \ {p} /\ sock' = [sock EXCEPT ![p] = <<>>] /\ on \subseteq Person
      BY <2>1 DEF GoOff, DInv, TypesOK, PeopleOK
    <3> QED  BY <3>1 DEF DInv, TypesOK, SockOK
  <2>2. CASE ~GoOff(p)
    BY <2>2 DEF LeaveRoom, EnterRoom, ComeBack, AskForMe, HearNews, Rename, ends
  <2> QED  BY <2>1, <2>2
<1>3. \A i \in DOMAIN down' : down'[i].type = "resp" => \E j \in DOMAIN down : down'[i] = down[j]
  <2>1. CASE ComeBack(p)
    <3>1. PICK x : x = New(name[p], p)
      OBVIOUS
    <3>2. down' = Append(down, x) /\ x.type # "resp" /\ x \in Downward /\ down \in Seq(Downward)
      BY <2>1, <3>1 DEF ComeBack, New, DInv, TypesOK, DownOK, PeopleOK, Downward
    <3>3. /\ DOMAIN down' = DOMAIN down \cup {Len(down) + 1}
          /\ \A i \in DOMAIN down : down'[i] = down[i]
          /\ down'[Len(down) + 1] = x
      BY <3>2, Added
    <3> QED  BY <3>2, <3>3
  <2>2. CASE ~ComeBack(p)
    <3>1. down' = down
      BY <2>2 DEF LeaveRoom, EnterRoom, GoOff, AskForMe, HearNews, Rename, wires
    <3> QED  BY <3>1
  <2> QED  BY <2>1, <2>2
<1> QED  BY <1>1, <1>2, <1>3, OthersOnWay

LEMMA SenderRenamesOnWay ==
  ASSUME DInv, MInv, Stayed, NEW n \in Name, SenderRenames(n)
  PROVE  MInv'
<1>1. UNCHANGED <<kind, cmds, net, told, failed, crossed, up, down, sock, shown>>
  BY DEF SenderRenames, sender, wires, ends
<1> QED  BY <1>1, OthersOnWay

\* A profile is asked for while no text waits.
LEMMA WhoisOnWay ==
  ASSUME DInv, MInv, Stayed, NEW n \in Name, Whois(n)
  PROVE  MInv'
<1>1. UNCHANGED <<kind, cmds, net, told, failed, crossed, sock, shown>> /\ net = Idle
  BY DEF Whois, sender, ends
<1>2. PICK f \in Frame : f = AskProfile(n)
  BY DEF Frame
<1>3. \A i \in DOMAIN up : i \in DOMAIN up' /\ up'[i] = up[i]
  BY <1>2, Added DEF Whois, DInv, TypesOK, UpOK
<1>4. OnTheWay'
  <2>1. ASSUME NEW t \in DOMAIN kind, NEW p \in stay'[t], kind[t] = ToRoom, t \notin failed',
               name[p] # Me, Somewhere(t, p)
        PROVE  Somewhere(t, p)'
    <3>1. name'[p] = name[p] /\ sock'[p] = sock[p]
      BY <1>1, <2>1 DEF Stayed
    <3>2. InUp(t, p) => InUp(t, p)'
      BY <1>3, <3>1 DEF InUp
    <3> QED  BY <1>1, <2>1, <3>1, <3>2, Parts DEF Somewhere
  <2> QED  BY <1>1, <2>1, WayKept
<1>5. Untold' /\ RoomAsked'
  BY <1>1 DEF MInv, Untold, RoomAsked, Idle
<1> QED  BY <1>4, <1>5 DEF MInv, Stayed

LEMMA TypeOnWay ==
  ASSUME DInv, MInv, Stayed, NEW k \in Name \cup {ToRoom}, Type(k)
  PROVE  MInv'
<1>1. /\ kind' = Append(kind, k) /\ cmds' = Append(cmds, Len(kind) + 1)
      /\ UNCHANGED <<name, net, told, failed, crossed, up, down, sock, shown>>
  BY DEF Type, others, wires, ends
<1>2. /\ DOMAIN kind' = DOMAIN kind \cup {Len(kind) + 1}
      /\ \A t \in DOMAIN kind : kind'[t] = kind[t]
      /\ Len(kind) + 1 \notin DOMAIN kind
  BY <1>1, Added DEF DInv, TypesOK, KindsOK
<1>3. /\ DOMAIN cmds' = DOMAIN cmds \cup {Len(cmds) + 1}
      /\ \A i \in DOMAIN cmds : cmds'[i] = cmds[i]
      /\ cmds'[Len(cmds) + 1] = Len(kind) + 1
  BY <1>1 DEF DInv, TypesOK, CommandsOK
<1>4. OnTheWay'
  <2> SUFFICES ASSUME ~crossed', NEW t \in DOMAIN kind', kind'[t] = ToRoom, t \notin failed',
                      NEW p \in stay'[t], name'[p] # Me
               PROVE  Somewhere(t, p)'
    BY DEF OnTheWay
  <2>1. CASE t \in DOMAIN kind
    <3>1. p \in stay[t] /\ name[p] # Me /\ kind[t] = ToRoom /\ t \notin failed /\ ~crossed
      BY <1>1, <1>2, <2>1 DEF Stayed
    <3>2. Somewhere(t, p)
      BY <2>1, <3>1 DEF MInv, OnTheWay
    <3>3. InCmds(t) => InCmds(t)'
      BY <1>3 DEF InCmds
    <3>4. name'[p] = name[p] /\ sock'[p] = sock[p]
      BY <1>1
    <3> QED  BY <1>1, <3>2, <3>3, <3>4, Parts DEF Somewhere
  <2>2. CASE t = Len(kind) + 1
    <3>1. InCmds(t)'
      BY <1>3, <2>2 DEF InCmds
    <3> QED  BY <3>1 DEF Somewhere
  <2> QED  BY <1>2, <2>1, <2>2
<1>5. Untold'
  <2>1. Len(kind) + 1 \notin told
    BY <1>2 DEF DInv, TypesOK, SenderOK
  <2> QED  BY <1>1, <1>3, <2>1 DEF MInv, Untold
<1>6. RoomAsked'
  <2> SUFFICES ASSUME net.at = "ask", kind'[net.text] = ToRoom, ~crossed
               PROVE  RoomAsked'
    BY <1>1 DEF RoomAsked
  <2>1. net.text \in DOMAIN kind
    BY DEF DInv, TypesOK, NetOK, Idle, Asking, Got
  <2>2. kind[net.text] = ToRoom
    BY <1>2, <2>1
  <2>3. stay'[net.text] \subseteq stay[net.text]
    BY <2>1 DEF Stayed
  <2> QED  BY <1>1, <2>2, <2>3 DEF MInv, RoomAsked
<1> QED  BY <1>4, <1>5, <1>6 DEF MInv, Stayed

\* The network thread takes a command: it comes off the front.
LEMMA FirstCommand ==
  ASSUME DInv, OInv, MInv, cmds # <<>>, cmds' = Tail(cmds)
  PROVE  /\ cmds[1] = Head(cmds) /\ Head(cmds) \in DOMAIN kind /\ Head(cmds) \notin told
         /\ \A j \in DOMAIN cmds' : cmds'[j] \notin told /\ cmds'[j] # Head(cmds)
         /\ \A t : InCmds(t) => t = Head(cmds) \/ InCmds(t)'
<1>1. /\ 1 \in DOMAIN cmds /\ Head(cmds) = cmds[1]
      /\ \A i \in DOMAIN cmds' : i + 1 \in DOMAIN cmds /\ cmds'[i] = cmds[i + 1] /\ i \in Nat /\ 1 < i + 1
  BY Taken DEF DInv, TypesOK, CommandsOK
<1>2. \A j \in DOMAIN cmds : j # 1 => j - 1 \in DOMAIN cmds' /\ cmds'[j - 1] = cmds[j]
  BY Rest DEF DInv, TypesOK, CommandsOK
<1>3. Head(cmds) \in DOMAIN kind
  BY <1>1 DEF DInv, TypesOK, CommandsOK
<1>4. Head(cmds) \notin told
  BY <1>1 DEF MInv, Untold
<1>5. ASSUME NEW j \in DOMAIN cmds'
      PROVE  cmds'[j] \notin told /\ cmds'[j] # Head(cmds)
  <2>1. j + 1 \in DOMAIN cmds /\ cmds'[j] = cmds[j + 1] /\ 1 < j + 1
    BY <1>1
  <2>2. cmds[j + 1] \notin told /\ cmds[1] < cmds[j + 1]
    BY <1>1, <2>1 DEF MInv, Untold, OInv, CommandsInLine
  <2>3. cmds[1] \in Nat /\ cmds[j + 1] \in Nat
    BY <1>1, <2>1, Numbers
  <2>4. cmds[j + 1] # cmds[1]
    BY <2>2, <2>3
  <2> QED  BY <1>1, <2>1, <2>2, <2>4
<1>6. ASSUME NEW t, InCmds(t)
      PROVE  t = Head(cmds) \/ InCmds(t)'
  <2>1. PICK j \in DOMAIN cmds : cmds[j] = t
    BY <1>6 DEF InCmds
  <2> QED  BY <1>1, <1>2, <2>1 DEF InCmds
<1> QED  BY <1>1, <1>3, <1>4, <1>5, <1>6

LEMMA RefuseOnWay ==
  ASSUME DInv, OInv, MInv, Stayed, Refuse
  PROVE  MInv'
<1>1. /\ net = Idle /\ cmds # <<>> /\ cmds' = Tail(cmds)
      /\ told' = told \cup {Head(cmds)} /\ failed' = failed \cup {Head(cmds)}
      /\ UNCHANGED <<kind, net, crossed, up, down, sock, shown>>
  BY DEF Refuse, wires, ends
<1>2. /\ \A j \in DOMAIN cmds' : cmds'[j] \notin told /\ cmds'[j] # Head(cmds)
      /\ \A t : InCmds(t) => t = Head(cmds) \/ InCmds(t)'
  BY <1>1, FirstCommand
<1>3. OnTheWay'
  <2>1. ASSUME NEW t \in DOMAIN kind, NEW p \in stay'[t], kind[t] = ToRoom, t \notin failed',
               name[p] # Me, Somewhere(t, p)
        PROVE  Somewhere(t, p)'
    <3>1. name'[p] = name[p] /\ sock'[p] = sock[p]
      BY <1>1 DEF Stayed
    <3>2. InCmds(t) => InCmds(t)'
      BY <1>1, <1>2, <2>1
    <3> QED  BY <1>1, <2>1, <3>1, <3>2, Parts DEF Somewhere
  <2> QED  BY <1>1, <2>1, WayKept
<1>4. Untold' /\ RoomAsked'
  <2>1. net' = Idle /\ net'.at # "ask"
    BY <1>1 DEF Idle
  <2> QED  BY <1>1, <1>2, <2>1 DEF Untold, RoomAsked
<1> QED  BY <1>3, <1>4 DEF MInv, Stayed

\* What the thread is through with is no command any more.
LEMMA BusyIsTaken ==
  ASSUME DInv, OInv, net # Idle
  PROVE  \A j \in DOMAIN cmds : cmds[j] # net.text
<1> SUFFICES ASSUME NEW j \in DOMAIN cmds PROVE cmds[j] # net.text
  OBVIOUS
<1>1. net.text < cmds[j] /\ net.text \in Nat /\ cmds[j] \in Nat
  BY Numbers DEF OInv, BusyInLine
<1> QED  BY <1>1

LEMMA TimeOutOnWay ==
  ASSUME DInv, OInv, MInv, Stayed, TimeOut
  PROVE  MInv'
<1>1. /\ net.at = "ask" /\ net' = Idle
      /\ told' = told \cup {net.text} /\ failed' = failed \cup {net.text}
      /\ UNCHANGED <<kind, cmds, crossed, up, down, sock, shown>>
  BY DEF TimeOut, wires, ends
<1>2. net # Idle /\ net'.at # "ask"
  BY <1>1 DEF Idle
<1>3. OnTheWay'
  <2>1. ASSUME NEW t \in DOMAIN kind, NEW p \in stay'[t], kind[t] = ToRoom, t \notin failed',
               name[p] # Me, Somewhere(t, p)
        PROVE  Somewhere(t, p)'
    <3>1. name'[p] = name[p] /\ sock'[p] = sock[p]
      BY <1>1 DEF Stayed
    <3>2. ~Asked(t) /\ ~GotFor(t, p)
      BY <1>1, <2>1 DEF Asked, GotFor
    <3> QED  BY <1>1, <2>1, <3>1, <3>2, Parts DEF Somewhere
  <2> QED  BY <1>1, <2>1, WayKept
<1>4. Untold' /\ RoomAsked'
  BY <1>1, <1>2, BusyIsTaken DEF MInv, Untold, RoomAsked
<1> QED  BY <1>3, <1>4 DEF MInv, Stayed

\* With one request under way at most, there is none when the next is made.
LEMMA NoneUnderWay ==
  ASSUME DInv, net = Idle, ~crossed, slot # "dead"
  PROVE  /\ \A i \in DOMAIN up : ~Asks(up[i])
         /\ \A j \in DOMAIN down : down[j].type # "resp"
<1>1. slot = "none"
  BY DEF DInv, TypesOK, NetOK, Idle
<1> QED  BY <1>1 DEF DInv, Calm

LEMMA TakeOnWay ==
  ASSUME DInv, OInv, MInv, Stayed, Take
  PROVE  MInv'
<1> DEFINE h == Head(cmds)
           n == kind[h]
<1>1. /\ net = Idle /\ cmds # <<>> /\ cmds' = Tail(cmds)
      /\ UNCHANGED <<kind, failed, down, sock, shown, known>>
  BY DEF Take, ends
<1>2. /\ h \in DOMAIN kind /\ h \notin told
      /\ \A j \in DOMAIN cmds' : cmds'[j] \notin told /\ cmds'[j] # h
      /\ \A t : InCmds(t) => t = h \/ InCmds(t)'
  BY <1>1, FirstCommand
<1>3. up \in Seq(Frame) /\ n \in Name \cup {ToRoom}
  BY <1>2 DEF DInv, TypesOK, UpOK, KindsOK
<1>4. \A t, p : ~Asked(t) /\ ~GotFor(t, p)
  BY <1>1 DEF Asked, GotFor, Idle
<1>5. CASE n = ToRoom
  <2>1. /\ net' = Asking(h) /\ told' = told /\ up' = Append(up, AskMembers)
        /\ crossed' = (crossed \/ slot = "dead")
    BY <1>5 DEF Take, Request
  <2>2. net'.at = "ask" /\ net'.text = h /\ net' # Idle
    BY <2>1 DEF Asking, Idle
  <2>3. AskMembers \in Frame /\ AskMembers.type = "members"
    BY DEF Frame, AskMembers
  <2>4. /\ DOMAIN up' = DOMAIN up \cup {Len(up) + 1}
        /\ \A i \in DOMAIN up : up'[i] = up[i]
        /\ up'[Len(up) + 1] = AskMembers
    BY <1>3, <2>1, <2>3, Added
  <2> HIDE DEF h
  <2>5. OnTheWay'
    <3>1. ASSUME NEW t \in DOMAIN kind, NEW p \in stay'[t], kind[t] = ToRoom, t \notin failed',
                 name[p] # Me, Somewhere(t, p)
          PROVE  Somewhere(t, p)'
      <4>1. name'[p] = name[p] /\ sock'[p] = sock[p]
        BY <1>1, <3>1 DEF Stayed
      <4>2. InCmds(t) => Asked(t)' \/ InCmds(t)'
        BY <1>2, <2>2 DEF Asked
      <4>3. InUp(t, p) => InUp(t, p)'
        BY <2>4, <4>1 DEF InUp
      <4> QED  BY <1>1, <1>4, <3>1, <4>1, <4>2, <4>3, Parts DEF Somewhere
    <3> QED  BY <1>1, <2>1, <3>1, WayKept
  <2>6. Untold'
    BY <1>2, <2>1, <2>2 DEF Untold
  <2>7. RoomAsked'
    <3>1. CASE crossed'
      BY <3>1 DEF RoomAsked
    <3>2. CASE ~crossed'
      <4>1. /\ \A i \in DOMAIN up : ~Asks(up[i])
            /\ \A j \in DOMAIN down : down[j].type # "resp"
        BY <1>1, <2>1, <3>2, NoneUnderWay
      <4>2. \A i \in DOMAIN up' : up'[i].type # "pubkey"
        BY <2>3, <2>4, <4>1 DEF Asks
      <4> QED  BY <1>1, <4>1, <4>2 DEF RoomAsked
    <3> QED  BY <3>1, <3>2
  <2> QED  BY <2>5, <2>6, <2>7 DEF MInv, Stayed
<1>6. CASE n # ToRoom
  <2>1. \A i \in DOMAIN up : i \in DOMAIN up' /\ up'[i] = up[i]
    <3>1. CASE known[n] = Nobody
      <4>1. up' = Append(up, AskKey(n))
        BY <1>6, <3>1 DEF Take, Request
      <4>2. AskKey(n) \in Frame
        BY <1>3, <1>6 DEF Frame
      <4> QED  BY <1>3, <4>1, <4>2, Added
    <3>2. CASE known[n] # Nobody
      <4>1. up' = IF known[n] = Garbage THEN up ELSE Append(up, M(h, n, known[n]))
        BY <1>6, <3>2 DEF Take
      <4>2. known[n] \in Key
        BY <1>3, <1>6 DEF DInv, TypesOK, SenderOK
      <4>3. h \in Text
        BY <1>2, BoundAssumption DEF DInv, TypesOK, KindsOK, Text
      <4>4. known[n] # Garbage => M(h, n, known[n]) \in Frame
        BY <1>3, <1>6, <3>2, <4>2, <4>3 DEF Frame, Key
      <4> QED  BY <1>3, <4>1, <4>4, Added
    <3> QED  BY <3>1, <3>2
  <2>2. \/ net' = Asking(h) /\ told' = told
        \/ net' = Idle /\ told' = told \cup {h}
    BY <1>1, <1>6 DEF Take, Request
  <2>3. crossed => crossed'
    BY <1>6 DEF Take, Request
  <2>4. kind[h] # ToRoom
    BY <1>6
  <2> HIDE DEF h, n
  <2>5. \/ net'.at = "ask" /\ net'.text = h /\ told' = told
        \/ net' = Idle /\ net'.at # "ask" /\ told' = told \cup {h}
    BY <2>2 DEF Asking, Idle
  <2>6. OnTheWay'
    <3>1. ASSUME NEW t \in DOMAIN kind, NEW p \in stay'[t], kind[t] = ToRoom, t \notin failed',
                 name[p] # Me, Somewhere(t, p)
          PROVE  Somewhere(t, p)'
      <4>1. name'[p] = name[p] /\ sock'[p] = sock[p]
        BY <1>1, <3>1 DEF Stayed
      <4>2. InCmds(t) => InCmds(t)'
        BY <1>2, <2>4, <3>1
      <4>3. InUp(t, p) => InUp(t, p)'
        BY <2>1, <4>1 DEF InUp
      <4> QED  BY <1>1, <1>4, <3>1, <4>1, <4>2, <4>3, Parts DEF Somewhere
    <3> QED  BY <1>1, <2>3, <3>1, WayKept
  <2>7. Untold'
    BY <1>2, <2>5 DEF Untold
  <2>8. RoomAsked'
    BY <1>1, <2>4, <2>5 DEF RoomAsked
  <2> QED  BY <2>6, <2>7, <2>8 DEF MInv, Stayed
<1> QED  BY <1>5, <1>6

\* The list becomes frames, one for each on it.
LEMMA SendToRoomOnWay ==
  ASSUME DInv, OInv, MInv, Stayed, SendToRoom
  PROVE  MInv'
<1> DEFINE h == net.text
           r == Frames(h, net.resp.list)
<1>1. /\ net.at = "got" /\ net' = Idle /\ up' = up \o r /\ told' = told \cup {h}
      /\ UNCHANGED <<kind, cmds, failed, crossed, down, sock, shown>>
  BY DEF SendToRoom, ends
<1>2. net # Idle /\ net'.at # "ask"
  BY <1>1 DEF Idle
<1>3. h \in Text /\ net.resp.list \in Lists /\ up \in Seq(Frame)
  BY <1>1, GotIsAnswer DEF DInv, TypesOK, UpOK
<1>4. r \in Seq(Frame)
  <2>1. r \in Seq(Textual)
    BY <1>3, FramesOfList
  <2>2. Textual \subseteq Frame
    BY DEF Textual, Frame
  <2> HIDE DEF r
  <2> QED  BY <2>1, <2>2
<1>5. \A p \in Person : <<name[p], p>> \in net.resp.list /\ name[p] # Me =>
        \E i \in DOMAIN r : r[i] = M(h, name[p], p)
  <2>1. ASSUME NEW e \in net.resp.list, e[1] # Me, e[2] \in Person
        PROVE  \E i \in DOMAIN r : r[i] = M(h, e[1], e[2])
    BY <1>3, <2>1, FramesForAll
  <2> HIDE DEF r
  <2>2. ASSUME NEW p \in Person, <<name[p], p>> \in net.resp.list, name[p] # Me
        PROVE  \E i \in DOMAIN r : r[i] = M(h, name[p], p)
    <3>1. PICK e : e = <<name[p], p>>
      OBVIOUS
    <3>2. e \in net.resp.list /\ e[1] = name[p] /\ e[2] = p
      BY <2>2, <3>1
    <3> QED  BY <2>1, <2>2, <3>2
  <2> QED  BY <2>2
<1> HIDE DEF r
<1>6. /\ \A i \in DOMAIN up : i \in DOMAIN up' /\ up'[i] = up[i]
      /\ \A i \in DOMAIN r : Len(up) + i \in DOMAIN up' /\ up'[Len(up) + i] = r[i]
  BY <1>1, <1>3, <1>4, Extended
<1>7. OnTheWay'
  <2>1. ASSUME NEW t \in DOMAIN kind, NEW p \in stay'[t], kind[t] = ToRoom, t \notin failed',
               name[p] # Me, Somewhere(t, p)
        PROVE  Somewhere(t, p)'
    <3>1. name'[p] = name[p] /\ sock'[p] = sock[p]
      BY <1>1 DEF Stayed
    <3>2. InUp(t, p) => InUp(t, p)'
      BY <1>6, <3>1 DEF InUp
    <3>3. GotFor(t, p) => InUp(t, p)'
      <4> SUFFICES ASSUME GotFor(t, p) PROVE InUp(t, p)'
        OBVIOUS
      <4>1. t = h /\ <<name[p], p>> \in net.resp.list /\ p \in Person /\ name[p] # Me
        BY <2>1 DEF GotFor, Stayed
      <4>2. PICK i \in DOMAIN r : r[i] = M(h, name[p], p)
        BY <1>5, <4>1
      <4>3. Len(up) + i \in DOMAIN up' /\ up'[Len(up) + i] = M(t, name'[p], p)
        BY <1>6, <3>1, <4>1, <4>2
      <4> QED  BY <4>3 DEF InUp
    <3>4. ~Asked(t)
      BY <1>1 DEF Asked
    <3> QED  BY <1>1, <2>1, <3>1, <3>2, <3>3, <3>4, Parts DEF Somewhere
  <2> QED  BY <1>1, <2>1, WayKept
<1>8. Untold' /\ RoomAsked'
  BY <1>1, <1>2, BusyIsTaken DEF MInv, Untold, RoomAsked
<1> QED  BY <1>7, <1>8 DEF MInv, Stayed

LEMMA SendToNameOnWay ==
  ASSUME DInv, OInv, MInv, Stayed, SendToName
  PROVE  MInv'
<1> DEFINE h == net.text
           n == kind[h]
           k == net.resp.key
<1>1. /\ net.at = "got" /\ net' = Idle /\ told' = told \cup {h} /\ n # ToRoom
      /\ up' = IF k \in Person THEN Append(up, M(h, n, k)) ELSE up
      /\ UNCHANGED <<kind, cmds, failed, crossed, down, sock, shown>>
  BY DEF SendToName, ends
<1>2. net # Idle /\ net'.at # "ask"
  BY <1>1 DEF Idle
<1>3. h \in Text /\ n \in Name /\ up \in Seq(Frame)
  BY <1>1, GotIsAnswer DEF DInv, TypesOK, UpOK
<1>4. \A i \in DOMAIN up : i \in DOMAIN up' /\ up'[i] = up[i]
  <2>1. k \in Person => M(h, n, k) \in Frame
    BY <1>3 DEF Frame
  <2> QED  BY <1>1, <1>3, <2>1, Added
<1>5. OnTheWay'
  <2>1. ASSUME NEW t \in DOMAIN kind, NEW p \in stay'[t], kind[t] = ToRoom, t \notin failed',
               name[p] # Me, Somewhere(t, p)
        PROVE  Somewhere(t, p)'
    <3>1. name'[p] = name[p] /\ sock'[p] = sock[p]
      BY <1>1 DEF Stayed
    <3>2. InUp(t, p) => InUp(t, p)'
      BY <1>4, <3>1 DEF InUp
    <3>3. ~Asked(t) /\ ~GotFor(t, p)
      BY <1>1, <2>1 DEF Asked, GotFor
    <3> QED  BY <1>1, <2>1, <3>1, <3>2, <3>3, Parts DEF Somewhere
  <2> QED  BY <1>1, <2>1, WayKept
<1>6. Untold' /\ RoomAsked'
  BY <1>1, <1>2, BusyIsTaken DEF MInv, Untold, RoomAsked
<1> QED  BY <1>5, <1>6 DEF MInv, Stayed

LEMMA HearOnWay ==
  ASSUME DInv, MInv, Stayed, Hear
  PROVE  MInv'
<1> DEFINE f == Head(down)
<1>1. /\ down # <<>> /\ down' = Tail(down)
      /\ UNCHANGED <<kind, cmds, told, failed, up, sock, shown>>
  BY DEF Hear, ends
<1>2. /\ f \in Downward /\ 1 \in DOMAIN down /\ f = down[1]
      /\ \A i \in DOMAIN down' : i + 1 \in DOMAIN down /\ down'[i] = down[i + 1]
  BY <1>1, Taken DEF DInv, TypesOK, DownOK
<1>3. f.type = "new" \/ f.type = "resp" \/ f.type = "err"
  BY <1>2 DEF Downward, Resp, List, KeyOf, Err, New
<1>4. /\ crossed => crossed'
      /\ \/ net' = net
         \/ /\ f.type # "new" /\ net.at = "ask" /\ net' = Got(net.text, f)
            /\ f.type = "resp" \/ crossed'
  BY <1>3 DEF Hear, DInv, TypesOK, NetOK
<1>5. net'.at = "ask" => net' = net
  BY <1>4 DEF Got
<1>6. OnTheWay'
  <2>1. CASE crossed'
    BY <2>1 DEF OnTheWay
  <2>2. CASE ~crossed'
    <3>1. ASSUME NEW t \in DOMAIN kind, NEW p \in stay'[t], kind[t] = ToRoom, t \notin failed',
                 name[p] # Me, Somewhere(t, p)
          PROVE  Somewhere(t, p)'
      <4>1. name'[p] = name[p] /\ sock'[p] = sock[p] /\ p \in stay[t]
        BY <1>1, <3>1 DEF Stayed
      <4>2. CASE net' = net
        BY <1>1, <3>1, <4>1, <4>2, Parts DEF Somewhere
      <4>3. CASE f.type = "resp" /\ ~crossed /\ net.at = "ask" /\ net' = Got(net.text, f)
        <5>1. ~GotFor(t, p)
          BY <4>3 DEF GotFor
        <5>2. Asked(t) => GotFor(t, p)'
          <6> SUFFICES ASSUME Asked(t) PROVE GotFor(t, p)'
            OBVIOUS
          <6>1. net.text = t
            BY DEF Asked
          <6>2. <<name[p], p>> \in f.list
            BY <1>2, <3>1, <4>1, <4>3, <6>1 DEF MInv, RoomAsked
          <6>3. net'.at = "got" /\ net'.text = t /\ net'.resp = f
            BY <4>3, <6>1 DEF Got
          <6> QED  BY <4>1, <6>2, <6>3 DEF GotFor
        <5> QED  BY <1>1, <3>1, <4>1, <5>1, <5>2, Parts DEF Somewhere
      <4> QED  BY <1>4, <2>2, <4>2, <4>3
    <3> QED  BY <1>1, <1>4, <3>1, WayKept
  <2> QED  BY <2>1, <2>2
<1>7. Untold'
  <2>1. net' # Idle => net # Idle /\ net'.text = net.text
    BY <1>4 DEF Idle, Got
  <2> QED  BY <1>1, <2>1 DEF MInv, Untold
<1>8. RoomAsked'
  <2> SUFFICES ASSUME net'.at = "ask", kind[net'.text] = ToRoom, ~crossed
               PROVE  RoomAsked'
    BY <1>1, <1>4 DEF RoomAsked
  <2>1. net' = net /\ net.text \in DOMAIN kind
    BY <1>5 DEF DInv, TypesOK, NetOK, Idle, Asking, Got
  <2>2. \A p \in stay'[net.text] : p \in stay[net.text] /\ name'[p] = name[p]
    BY <2>1 DEF Stayed
  <2>3. ASSUME NEW i \in DOMAIN down', down'[i].type = "resp", NEW p \in stay'[net.text]
        PROVE  <<name'[p], p>> \in down'[i].list
    BY <1>2, <2>1, <2>2, <2>3 DEF MInv, RoomAsked
  <2> QED  BY <1>1, <2>1, <2>3 DEF MInv, RoomAsked
<1> QED  BY <1>6, <1>7, <1>8 DEF MInv, Stayed

\* The handler takes a request from the front: the texts are all behind it.
LEMMA AnswerOnWay ==
  ASSUME DInv, MInv, Stayed, up # <<>>, Head(up).type # "text", up' = Tail(up),
         UNCHANGED <<sender, ends>>, RoomAsked'
  PROVE  MInv'
<1>1. UNCHANGED <<kind, cmds, net, told, failed, crossed, sock, shown>>
  BY DEF sender, ends
<1>2. up[1] = Head(up) /\ \A j \in DOMAIN up : j # 1 => j - 1 \in DOMAIN up' /\ up'[j - 1] = up[j]
  BY Taken, Rest DEF DInv, TypesOK, UpOK
<1>3. OnTheWay'
  <2>1. ASSUME NEW t \in DOMAIN kind, NEW p \in stay'[t], kind[t] = ToRoom, t \notin failed',
               name[p] # Me, Somewhere(t, p)
        PROVE  Somewhere(t, p)'
    <3>1. name'[p] = name[p] /\ sock'[p] = sock[p]
      BY <1>1, <2>1 DEF Stayed
    <3>2. InUp(t, p) => InUp(t, p)'
      <4> SUFFICES ASSUME NEW i \in DOMAIN up, up[i] = M(t, name[p], p) PROVE InUp(t, p)'
        BY DEF InUp
      <4>1. i # 1
        BY <1>2 DEF M
      <4> QED  BY <1>2, <3>1, <4>1 DEF InUp
    <3> QED  BY <1>1, <2>1, <3>1, <3>2, Parts DEF Somewhere
  <2> QED  BY <1>1, <2>1, WayKept
<1>4. Untold'
  BY <1>1 DEF MInv, Untold
<1> QED  BY <1>3, <1>4 DEF MInv, Stayed

LEMMA AnswerMembersOnWay ==
  ASSUME DInv, MInv, Stayed, AnswerMembers
  PROVE  MInv'
<1>1. /\ up # <<>> /\ Head(up).type # "text" /\ up' = Tail(up)
      /\ down' = Append(down, List(Members)) /\ UNCHANGED <<others, sender, ends>>
  BY DEF AnswerMembers
<1>2. \A i \in DOMAIN up' : i + 1 \in DOMAIN up /\ up'[i] = up[i + 1]
  BY <1>1, Taken DEF DInv, TypesOK, UpOK
<1>3. RoomAsked'
  <2> SUFFICES ASSUME net.at = "ask", kind[net.text] = ToRoom, ~crossed
               PROVE  RoomAsked'
    BY <1>1 DEF RoomAsked, sender
  <2>1. net.text \in DOMAIN kind /\ net' = net
    BY <1>1 DEF DInv, TypesOK, NetOK, Idle, Asking, Got, sender
  <2>2. \A p \in stay'[net.text] : /\ p \in stay[net.text] /\ name'[p] = name[p]
                                   /\ p \in on /\ p \in in
    BY <2>1 DEF Stayed
  <2>3. PICK x : x = List(Members)
    OBVIOUS
  <2>4. x.list = Members
    BY <2>3 DEF List
  <2>5. /\ DOMAIN down' = DOMAIN down \cup {Len(down) + 1}
        /\ \A i \in DOMAIN down : down'[i] = down[i]
        /\ down'[Len(down) + 1] = x
    BY <1>1, <2>3 DEF DInv, TypesOK, DownOK
  <2>6. ASSUME NEW i \in DOMAIN down', down'[i].type = "resp", NEW p \in stay'[net.text]
        PROVE  <<name'[p], p>> \in down'[i].list
    <3>1. CASE i \in DOMAIN down
      BY <2>2, <2>5, <2>6, <3>1 DEF MInv, RoomAsked
    <3>2. CASE i = Len(down) + 1
      BY <2>2, <2>4, <2>5, <2>6, <3>2 DEF Members
    <3> QED  BY <2>5, <3>1, <3>2
  <2>7. \A i \in DOMAIN up' : up'[i].type # "pubkey"
    BY <1>2 DEF MInv, RoomAsked
  <2> QED  BY <2>1, <2>6, <2>7 DEF RoomAsked
<1> QED  BY <1>1, <1>3, AnswerOnWay

LEMMA AnswerKeyOnWay ==
  ASSUME DInv, MInv, Stayed, AnswerKey
  PROVE  MInv'
<1>1. /\ up # <<>> /\ Head(up).type = "pubkey" /\ up' = Tail(up)
      /\ UNCHANGED <<others, sender, ends>>
  BY DEF AnswerKey
<1>2. 1 \in DOMAIN up /\ up[1].type = "pubkey"
  BY <1>1, Taken DEF DInv, TypesOK, UpOK
<1>3. RoomAsked'
  BY <1>1, <1>2 DEF MInv, RoomAsked, sender
<1> QED  BY <1>1, <1>3, AnswerOnWay

LEMMA AnswerProfileOnWay ==
  ASSUME DInv, MInv, Stayed, AnswerProfile
  PROVE  MInv'
<1>1. /\ up # <<>> /\ Head(up).type # "text" /\ up' = Tail(up)
      /\ down' = down \/ down' = Append(down, Err)
      /\ UNCHANGED <<others, sender, ends>>
  BY DEF AnswerProfile
<1>2. \A i \in DOMAIN up' : i + 1 \in DOMAIN up /\ up'[i] = up[i + 1]
  BY <1>1, Taken DEF DInv, TypesOK, UpOK
<1>3. \A i \in DOMAIN down' : down'[i].type = "resp" => i \in DOMAIN down /\ down'[i] = down[i]
  <2>1. CASE down' = Append(down, Err)
    <3>1. PICK x \in Downward : x = Err /\ x.type = "err"
      <4>1. Err \in Downward
        BY DEF Downward, Resp
      <4>2. Err.type = "err"
        BY DEF Err
      <4> QED  BY <4>1, <4>2
    <3>2. /\ DOMAIN down' = DOMAIN down \cup {Len(down) + 1}
          /\ \A i \in DOMAIN down : down'[i] = down[i]
          /\ down'[Len(down) + 1] = x
      BY <2>1, <3>1, Added DEF DInv, TypesOK, DownOK
    <3> QED  BY <3>1, <3>2
  <2> QED  BY <1>1, <2>1
<1>4. RoomAsked'
  <2> SUFFICES ASSUME net.at = "ask", kind[net.text] = ToRoom, ~crossed
               PROVE  RoomAsked'
    BY <1>1 DEF RoomAsked, sender
  <2>1. net.text \in DOMAIN kind /\ net' = net
    BY <1>1 DEF DInv, TypesOK, NetOK, Idle, Asking, Got, sender
  <2>2. \A p \in stay'[net.text] : p \in stay[net.text] /\ name'[p] = name[p]
    BY <2>1 DEF Stayed
  <2>3. \A i \in DOMAIN up' : up'[i].type # "pubkey"
    BY <1>2 DEF MInv, RoomAsked
  <2>4. ASSUME NEW i \in DOMAIN down', down'[i].type = "resp", NEW p \in stay'[net.text]
        PROVE  <<name'[p], p>> \in down'[i].list
    BY <1>3, <2>2, <2>4 DEF MInv, RoomAsked
  <2> QED  BY <2>1, <2>3, <2>4 DEF RoomAsked
<1> QED  BY <1>1, <1>4, AnswerOnWay

LEMMA RelayOnWay ==
  ASSUME DInv, MInv, Stayed, Relay
  PROVE  MInv'
<1> DEFINE f == Head(up)
<1>1. /\ up # <<>> /\ f.type = "text" /\ up' = Tail(up)
      /\ UNCHANGED <<kind, cmds, net, told, failed, crossed, down, shown>>
      /\ \A p \in Person : sock'[p] = IF p \in on /\ name[p] = f.to THEN Append(sock[p], f) ELSE sock[p]
  BY DEF Relay, sender
<1>2. /\ f \in Frame /\ f = up[1]
      /\ \A i \in DOMAIN up' : i + 1 \in DOMAIN up /\ up'[i] = up[i + 1]
  BY <1>1, Taken DEF DInv, TypesOK, UpOK
<1>3. \A j \in DOMAIN up : j # 1 => j - 1 \in DOMAIN up' /\ up'[j - 1] = up[j]
  BY <1>1, Rest DEF DInv, TypesOK, UpOK
<1>4. f \in Textual
  BY <1>1, <1>2 DEF Frame, Textual, AskMembers, AskKey, AskProfile, M
<1> HIDE DEF f
<1>5. OnTheWay'
  <2>1. ASSUME NEW t \in DOMAIN kind, NEW p \in stay'[t], kind[t] = ToRoom, t \notin failed',
               name[p] # Me, Somewhere(t, p)
        PROVE  Somewhere(t, p)'
    <3>1. name'[p] = name[p] /\ p \in Person /\ p \in on
      BY <2>1 DEF Stayed
    <3>2. sock[p] \in Seq(Textual)
      BY <3>1 DEF DInv, TypesOK, SockOK
    <3>3. /\ DOMAIN Append(sock[p], f) = DOMAIN sock[p] \cup {Len(sock[p]) + 1}
          /\ \A i \in DOMAIN sock[p] : Append(sock[p], f)[i] = sock[p][i]
          /\ Append(sock[p], f)[Len(sock[p]) + 1] = f
      BY <1>4, <3>2, Added
    <3>4. InSock(t, p) => InSock(t, p)'
      <4>1. \A i \in DOMAIN sock[p] : i \in DOMAIN sock'[p] /\ sock'[p][i] = sock[p][i]
        BY <1>1, <3>1, <3>3
      <4> QED  BY <4>1 DEF InSock
    <3>5. InUp(t, p) => InUp(t, p)' \/ InSock(t, p)'
      <4> SUFFICES ASSUME NEW i \in DOMAIN up, up[i] = M(t, name[p], p)
                   PROVE  InUp(t, p)' \/ InSock(t, p)'
        BY DEF InUp
      <4>1. CASE i = 1
        <5>1. f.to = name[p] /\ f.text = t /\ f.key = p
          BY <1>2, <4>1 DEF M
        <5>2. sock'[p] = Append(sock[p], f)
          BY <1>1, <3>1, <5>1
        <5> QED  BY <3>3, <5>1, <5>2 DEF InSock
      <4>2. CASE i # 1
        BY <1>3, <3>1, <4>2 DEF InUp
      <4> QED  BY <4>1, <4>2
    <3> QED  BY <1>1, <2>1, <3>1, <3>4, <3>5, Parts DEF Somewhere
  <2> QED  BY <1>1, <2>1, WayKept
<1>6. Untold'
  BY <1>1 DEF MInv, Untold
<1>7. RoomAsked'
  <2> SUFFICES ASSUME net.at = "ask", kind[net.text] = ToRoom, ~crossed
               PROVE  RoomAsked'
    BY <1>1 DEF RoomAsked
  <2>1. net.text \in DOMAIN kind
    BY DEF DInv, TypesOK, NetOK, Idle, Asking, Got
  <2>2. \A p \in stay'[net.text] : p \in stay[net.text] /\ name'[p] = name[p]
    BY <2>1 DEF Stayed
  <2> QED  BY <1>1, <1>2, <2>2 DEF MInv, RoomAsked
<1> QED  BY <1>5, <1>6, <1>7 DEF MInv, Stayed

\* A reader takes a frame from the front; the text is shown, if it is one the
\* reader can read.
LEMMA ReadOnWay ==
  ASSUME DInv, MInv, Stayed, NEW q \in Person, Read(q) \/ SaveFails(q)
  PROVE  MInv'
<1> DEFINE f == Head(sock[q])
<1>1. /\ sock[q] # <<>> /\ sock' = [sock EXCEPT ![q] = Tail(@)]
      /\ UNCHANGED <<name, on, in, knows, kind, cmds, net, told, crossed, up, down>>
      /\ \/ f.text \in failed' /\ failed \subseteq failed' /\ shown' = shown
         \/ /\ failed' = failed
            /\ shown' = IF q \in knows /\ f.key = q THEN [shown EXCEPT ![q] = Append(@, f.text)] ELSE shown
  BY DEF Read, SaveFails, others, sender, wires
<1>2. /\ sock[q] \in Seq(Textual) /\ shown[q] \in Seq(DOMAIN kind)
      /\ sock'[q] = Tail(sock[q])
      /\ \A p \in Person : p # q => sock'[p] = sock[p]
  BY <1>1 DEF DInv, TypesOK, SockOK, ShownOK
<1>3. f = sock[q][1]
  BY <1>1, <1>2, Taken
<1>4. \A j \in DOMAIN sock[q] : j # 1 => j - 1 \in DOMAIN sock'[q] /\ sock'[q][j - 1] = sock[q][j]
  BY <1>1, <1>2, Rest
<1>5. f.text \in DOMAIN kind
  <2>1. 1 \in DOMAIN sock[q]
    BY <1>1, <1>2, Taken
  <2> QED  BY <1>3, <2>1 DEF DInv, SockReadable, Readable
<1>6. shown \in [Person -> Seq(DOMAIN kind)]
  BY DEF DInv, TypesOK, ShownOK
<1> HIDE DEF f
<1>7. OnTheWay'
  <2>1. ASSUME NEW t \in DOMAIN kind, NEW p \in stay'[t], kind[t] = ToRoom, t \notin failed',
               name[p] # Me, Somewhere(t, p)
        PROVE  Somewhere(t, p)'
    <3>1. name'[p] = name[p] /\ p \in Person /\ p \in knows
      BY <1>1, <2>1 DEF Stayed
    <3>2. CASE p # q
      <4>1. sock'[p] = sock[p] /\ shown'[p] = shown[p]
        BY <1>1, <1>2, <1>6, <3>1, <3>2
      <4>2. OnScreen(t, p) => OnScreen(t, p)'
        BY <4>1 DEF OnScreen
      <4> QED  BY <1>1, <2>1, <3>1, <4>1, <4>2, Parts DEF Somewhere
    <3>3. CASE p = q
      <4>1. /\ \A i \in DOMAIN shown[q] : i \in DOMAIN Append(shown[q], f.text)
                                          /\ Append(shown[q], f.text)[i] = shown[q][i]
            /\ Len(shown[q]) + 1 \in DOMAIN Append(shown[q], f.text)
            /\ Append(shown[q], f.text)[Len(shown[q]) + 1] = f.text
        BY <1>2, <1>5, Added
      <4>2. shown'[q] = shown[q] \/ shown'[q] = Append(shown[q], f.text)
        BY <1>1, <1>6
      <4>3. OnScreen(t, p) => OnScreen(t, p)'
        BY <3>3, <4>1, <4>2 DEF OnScreen
      <4>4. InSock(t, p) => InSock(t, p)' \/ OnScreen(t, p)'
        <5> SUFFICES ASSUME NEW i \in DOMAIN sock[p], sock[p][i].text = t, sock[p][i].key = p
                     PROVE  InSock(t, p)' \/ OnScreen(t, p)'
          BY DEF InSock
        <5>1. CASE i = 1
          <6>1. f.text = t /\ f.key = q
            BY <1>3, <3>3, <5>1
          <6>2. shown' = [shown EXCEPT ![q] = Append(@, f.text)]
            BY <1>1, <2>1, <3>1, <3>3, <6>1
          <6>3. shown'[q] = Append(shown[q], f.text)
            BY <1>6, <6>2
          <6> QED  BY <3>3, <4>1, <6>1, <6>3 DEF OnScreen
        <5>2. CASE i # 1
          BY <1>4, <3>3, <5>2 DEF InSock
        <5> QED  BY <5>1, <5>2
      <4> QED  BY <1>1, <2>1, <3>1, <4>3, <4>4, Parts DEF Somewhere
    <3> QED  BY <3>2, <3>3
  <2>2. failed \subseteq failed'
    BY <1>1
  <2> QED  BY <1>1, <2>1, <2>2, WayKept
<1>8. Untold'
  BY <1>1 DEF MInv, Untold
<1>9. RoomAsked'
  <2> SUFFICES ASSUME net.at = "ask", kind[net.text] = ToRoom, ~crossed
               PROVE  RoomAsked'
    BY <1>1 DEF RoomAsked
  <2>1. net.text \in DOMAIN kind
    BY DEF DInv, TypesOK, NetOK, Idle, Asking, Got
  <2>2. stay'[net.text] \subseteq stay[net.text]
    BY <2>1 DEF Stayed
  <2> QED  BY <1>1, <2>2 DEF MInv, RoomAsked
<1> QED  BY <1>7, <1>8, <1>9 DEF MInv, Stayed

LEMMA InitMInv ==
  DInit => MInv
<1> SUFFICES ASSUME DInit PROVE MInv
  OBVIOUS
<1>1. DOMAIN kind = {} /\ DOMAIN cmds = {} /\ net = Idle /\ net.at # "ask"
  BY DEF DInit, Idle
<1> QED  BY <1>1 DEF MInv, OnTheWay, StayFor, Untold, RoomAsked

LEMMA StepMInv ==
  DInv /\ OInv /\ MInv /\ [DNext]_dvars => MInv'
<1> SUFFICES ASSUME DInv, OInv, MInv, [DNext]_dvars  PROVE MInv'
  OBVIOUS
<1>1. DInv'
  BY StepDInv
<1>2. CASE UNCHANGED dvars
  <2>1. UNCHANGED <<name, on, in, knows, kind, cmds, net, up, down, sock, shown, told, stay, failed, crossed>>
    BY <1>2 DEF dvars, others, sender, wires, ends, history
  <2>2. \A t, p : Somewhere(t, p)' <=> Somewhere(t, p)
    BY <2>1 DEF Somewhere, InCmds, Asked, GotFor, InUp, InSock, OnScreen
  <2>3. OnTheWay'
    BY <2>1, <2>2 DEF MInv, OnTheWay
  <2>4. StayFor'
    BY <2>1 DEF MInv, StayFor, For
  <2>5. Untold' /\ RoomAsked'
    BY <2>1 DEF MInv, Untold, RoomAsked
  <2> QED  BY <2>3, <2>4, <2>5 DEF MInv
<1>3. CASE DNext
  <2>1. Record
    BY <1>3 DEF DNext, Machines
  <2>2. crossed => crossed'
    BY <1>3 DEF DNext, Machines, Network, Handler, Reader, People, Take, Request, Refuse, TimeOut,
                SendToRoom, SendToName, Hear, AnswerMembers, AnswerKey, AnswerProfile, Relay, Read,
                SaveFails, HearNews, Type, Whois, SenderRenames, LeaveRoom, EnterRoom, GoOff, ComeBack,
                AskForMe, Rename, sender
  <2>3. kind' = kind \/ \E k \in Name \cup {ToRoom} : kind' = Append(kind, k)
    BY <1>3 DEF DNext, Machines, Network, Handler, Reader, People, Take, Refuse, TimeOut,
                SendToRoom, SendToName, Hear, AnswerMembers, AnswerKey, AnswerProfile, Relay, Read,
                SaveFails, HearNews, Type, Whois, SenderRenames, LeaveRoom, EnterRoom, GoOff, ComeBack,
                AskForMe, Rename, sender
  <2>4. Grows
    BY <1>1, <2>1, <2>2, <2>3, Recorded DEF DInv, TypesOK
  <2>5. Stayed
    BY <1>1, <2>1, <2>4, StayedIs DEF MInv
  <2>6. CASE Network
    BY <2>5, <2>6, TakeOnWay, RefuseOnWay, TimeOutOnWay, SendToRoomOnWay, SendToNameOnWay, HearOnWay
       DEF Network
  <2>7. CASE Handler
    BY <2>5, <2>7, AnswerMembersOnWay, AnswerKeyOnWay, AnswerProfileOnWay, RelayOnWay DEF Handler
  <2>8. CASE Reader
    BY <2>5, <2>8, ReadOnWay, PeopleOnWay DEF Reader
  <2>9. CASE People
    BY <2>5, <2>9, PeopleOnWay, SenderRenamesOnWay, WhoisOnWay, TypeOnWay DEF People
  <2> QED  BY <1>3, <2>6, <2>7, <2>8, <2>9 DEF DNext, Machines
<1> QED  BY <1>2, <1>3

\* Whoever stays in the room under one name, with the sender's key, reads every
\* text for it, once nothing of it is under way, unless it was refused, not
\* saved, or some request of the sender failed (room_targets, request,
\* sendToUsername): however many members come, go and rename themselves and the
\* sender meanwhile, and however many texts are under way at once.  The name is
\* any but the one of the sender's login, when the sender has given it up and a
\* member has taken it: room_targets passes that member over.
THEOREM StayersRead ==
  DSpec => []MembersRead
<1>1. DInv /\ MInv => MembersRead
  <2> SUFFICES ASSUME DInv, MInv, NEW t \in DOMAIN kind, kind[t] = ToRoom, Done(t), t \notin failed,
                      ~crossed, NEW p \in stay[t], name[p] # Me
               PROVE  OnScreen(t, p)
    BY DEF MembersRead, OnScreen
  <2>1. Somewhere(t, p)
    BY DEF MInv, OnTheWay
  <2>2. p \in Person
    BY DEF DInv, TypesOK, HistoryOK
  <2>3. ~InCmds(t) /\ ~Asked(t) /\ ~GotFor(t, p)
    <3>1. net.at \in {"ask", "got"} => net # Idle
      BY DEF Idle
    <3> QED  BY <3>1 DEF MInv, Untold, Done, InCmds, Asked, GotFor
  <2>4. ~InUp(t, p)
    BY DEF Done, InUp, M
  <2>5. ~InSock(t, p)
    BY <2>2 DEF Done, InSock
  <2> QED  BY <2>1, <2>3, <2>4, <2>5 DEF Somewhere
<1>2. DInit => OInv /\ MInv
  BY InitOInv, InitMInv
<1>3. DInv /\ OInv /\ MInv /\ [DNext]_dvars => OInv' /\ MInv'
  BY StepOInv, StepMInv
<1> QED  BY <1>1, <1>2, <1>3, SpecDInv, PTL DEF DSpec

=============================================================================
