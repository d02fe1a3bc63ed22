--------------------------- MODULE ChatListProofs ---------------------------
(***************************************************************************)
(* Proofs about ChatList: the list of chats is well formed whatever moves  *)
(* in it, and the sidebar keeps the promises of Inbox.                     *)
(***************************************************************************)
EXTENDS ChatList, SequenceTheorems, WellFoundedInduction, TLAPS

-----------------------------------------------------------------------------
(* Finding a chat *)

\* No name is there twice, but those of T.
Single(s, T) == \A i, j \in DOMAIN s : s[i].id = s[j].id => i = j \/ s[i].id \in T

\* What the chat c counts, if there is one.
Seen(s, c) == IF c \in Ids(s) THEN s[Position(s, c)].unread ELSE 0

LEMMA LeastNumber ==
  ASSUME NEW S \in SUBSET Nat, S # {}
  PROVE  \E n \in S : \A m \in S : ~(m < n)
<1>1. PICK n \in S : \A m \in S : <<m, n>> \notin OpToRel(<, Nat)
  BY NatLessThanWellFounded, WFMin
<1> QED  BY <1>1 DEF OpToRel

LEMMA PositionIs ==
  ASSUME NEW s \in Seq(Chat), NEW c \in Ids(s)
  PROVE  Position(s, c) \in DOMAIN s /\ s[Position(s, c)].id = c
<1> DEFINE S == {i \in DOMAIN s : s[i].id = c}
<1>1. S \in SUBSET Nat /\ S # {}
  BY DEF Ids
<1>2. PICK n \in S : \A m \in S : ~(m < n)
  BY <1>1, LeastNumber
<1>3. n \in DOMAIN s /\ s[n].id = c /\ \A j \in 1 .. n - 1 : s[j].id # c
  BY <1>1, <1>2
<1> QED  BY <1>3 DEF Position

LEMMA IdsAreIds ==
  ASSUME NEW s \in Seq(Chat)
  PROVE  Ids(s) \subseteq Id
<1>1. \A i \in DOMAIN s : s[i] \in Chat
  OBVIOUS
<1> QED  BY <1>1 DEF Ids, Chat

LEMMA SeenIs ==
  ASSUME NEW s \in Seq(Chat), NEW T, Single(s, T), NEW i \in DOMAIN s, s[i].id \notin T
  PROVE  /\ s[i].id \in Ids(s)
         /\ Position(s, s[i].id) = i
         /\ Seen(s, s[i].id) = s[i].unread
<1>1. s[i].id \in Ids(s)
  BY DEF Ids
<1>2. Position(s, s[i].id) = i
  BY <1>1, PositionIs DEF Single
<1> QED  BY <1>1, <1>2 DEF Seen

-----------------------------------------------------------------------------
(* What becomes of a list of chats *)

\* Whatever is done to s, no chat but c comes into it, none is lost, and no
\* count is touched but that of c.
Follows(s, t, c, T) ==
  /\ t \in Seq(Chat)
  /\ Ids(t) = Ids(s) \cup {c}
  /\ Single(t, T)
  /\ \A d \in Id \ (T \cup {c}) : Seen(t, d) = Seen(s, d)

LEMMA WithChatIs ==
  ASSUME NEW s \in Seq(Chat), NEW T, Single(s, T), NEW c \in Id
  PROVE  LET t == WithChat(s, c)
         IN /\ Follows(s, t, c, T)
            /\ DOMAIN s \subseteq DOMAIN t
            /\ \A i \in DOMAIN s : t[i] = s[i]
            /\ c \notin T => Seen(t, c) = Seen(s, c)
<1> DEFINE e == [id |-> c, unread |-> 0]
           t == WithChat(s, c)
<1>1. CASE c \in Ids(s)
  <2>1. t = s /\ Ids(s) = Ids(s) \cup {c}
    BY <1>1 DEF WithChat
  <2> QED  BY <2>1 DEF Follows
<1>2. CASE c \notin Ids(s)
  <2>1. e \in Chat /\ e.id = c /\ e.unread = 0
    BY DEF Chat
  <2> HIDE DEF e
  <2>2. t = Append(s, e)
    BY <1>2 DEF WithChat, e
  <2>3. /\ t \in Seq(Chat) /\ DOMAIN t = DOMAIN s \cup {Len(s) + 1} /\ Len(s) + 1 \notin DOMAIN s
        /\ \A i \in DOMAIN s : t[i] = s[i]
        /\ t[Len(s) + 1] = e
    BY <2>1, <2>2
  <2>4. Ids(t) = Ids(s) \cup {c}
    BY <2>1, <2>3 DEF Ids
  <2>5. \A i \in DOMAIN s : s[i].id # c
    BY <1>2 DEF Ids
  <2>6. Single(t, T)
    BY <2>1, <2>3, <2>5 DEF Single
  <2>7. ASSUME NEW d \in Id \ (T \cup {c})  PROVE Seen(t, d) = Seen(s, d)
    <3>1. CASE d \in Ids(s)
      <4>1. PICK i \in DOMAIN s : s[i].id = d
        BY <3>1 DEF Ids
      <4>2. i \in DOMAIN t /\ t[i] = s[i]
        BY <2>3
      <4> QED  BY <2>3, <2>6, <2>7, <4>1, <4>2, SeenIs
    <3>2. CASE d \notin Ids(s)
      BY <2>4, <2>7, <3>2 DEF Seen
    <3> QED  BY <3>1, <3>2
  <2>8. c \notin T => Seen(t, c) = Seen(s, c)
    <3> SUFFICES ASSUME c \notin T  PROVE Seen(t, c) = Seen(s, c)
      OBVIOUS
    <3>1. Seen(t, c) = 0
      BY <2>1, <2>3, <2>6, SeenIs
    <3>2. Seen(s, c) = 0
      BY <1>2 DEF Seen
    <3> QED  BY <3>1, <3>2
  <2> QED  BY <2>3, <2>4, <2>6, <2>7, <2>8 DEF Follows
<1> QED  BY <1>1, <1>2

\* The count of one chat is changed.
LEMMA Recounted ==
  ASSUME NEW s \in Seq(Chat), NEW T, Single(s, T), NEW i \in DOMAIN s, NEW n \in Nat
  PROVE  LET t == [s EXCEPT ![i].unread = n]
         IN /\ Follows(s, t, s[i].id, T)
            /\ DOMAIN t = DOMAIN s
            /\ \A j \in DOMAIN s : t[j].id = s[j].id
            /\ t[i].unread = n
<1> DEFINE t == [s EXCEPT ![i].unread = n]
<1>1. /\ t \in Seq(Chat) /\ DOMAIN t = DOMAIN s /\ t[i].unread = n
      /\ \A j \in DOMAIN s : t[j].id = s[j].id /\ (j # i => t[j] = s[j])
  <2>1. PICK e \in Chat : e = [s[i] EXCEPT !.unread = n] /\ e.id = s[i].id /\ e.unread = n
    <3>1. PICK c \in Chat : c = s[i]
      OBVIOUS
    <3>2. [c EXCEPT !.unread = n] = [id |-> c.id, unread |-> n]
      BY DEF Chat
    <3>3. [id |-> c.id, unread |-> n] \in Chat
      BY DEF Chat
    <3> QED  BY <3>1, <3>2, <3>3
  <2>2. t = [s EXCEPT ![i] = e]
    BY <2>1
  <2> HIDE DEF t
  <2>3. /\ DOMAIN t = DOMAIN s /\ t[i] = e
        /\ \A j \in DOMAIN s : j # i => t[j] = s[j]
    BY <2>2
  <2>4. t \in Seq(Chat)
    BY <2>1, <2>2, ExceptSeq
  <2>5. \A j \in DOMAIN s : t[j].id = s[j].id
    BY <2>1, <2>3
  <2> QED  BY <2>1, <2>3, <2>4, <2>5
<1> HIDE DEF t
<1>2. Ids(t) = Ids(s) /\ s[i].id \in Ids(s) /\ Single(t, T)
  BY <1>1 DEF Ids, Single
<1>3. ASSUME NEW d \in Id \ (T \cup {s[i].id})  PROVE Seen(t, d) = Seen(s, d)
  <2>1. CASE d \in Ids(s)
    <3>1. PICK j \in DOMAIN s : s[j].id = d
      BY <2>1 DEF Ids
    <3>2. j \in DOMAIN t /\ t[j] = s[j]
      BY <1>1, <1>3, <3>1
    <3> QED  BY <1>1, <1>2, <1>3, <3>1, <3>2, SeenIs
  <2>2. CASE d \notin Ids(s)
    BY <1>2, <2>2 DEF Seen
  <2> QED  BY <2>1, <2>2
<1> QED  BY <1>1, <1>2, <1>3 DEF Follows, t

\* The chats are reordered.
LEMMA Reordered ==
  ASSUME NEW s \in Seq(Chat), NEW t \in Seq(Chat), NEW T, Single(s, T),
         NEW f \in [DOMAIN t -> DOMAIN s],
         \A i, j \in DOMAIN t : f[i] = f[j] => i = j,
         \A j \in DOMAIN s : \E i \in DOMAIN t : f[i] = j,
         \A i \in DOMAIN t : t[i] = s[f[i]]
  PROVE  /\ Ids(t) = Ids(s) /\ Single(t, T)
         /\ \A d \in Id \ T : Seen(t, d) = Seen(s, d)
<1>1. Ids(t) = Ids(s)
  BY DEF Ids
<1>2. Single(t, T)
  BY DEF Single
<1>3. ASSUME NEW d \in Id \ T  PROVE Seen(t, d) = Seen(s, d)
  <2>1. CASE d \in Ids(t)
    <3>1. PICK i \in DOMAIN t : t[i].id = d
      BY <2>1 DEF Ids
    <3>2. f[i] \in DOMAIN s /\ t[i] = s[f[i]]
      BY <3>1
    <3> QED  BY <1>2, <1>3, <3>1, <3>2, SeenIs
  <2>2. CASE d \notin Ids(t)
    BY <1>1, <2>2 DEF Seen
  <2> QED  BY <2>1, <2>2
<1> QED  BY <1>1, <1>2, <1>3

\* Chat i comes first.
LEMMA PutFirst ==
  ASSUME NEW s \in Seq(Chat), NEW T, Single(s, T), NEW i \in DOMAIN s
  PROVE  LET t == <<s[i]>> \o RemoveAt(s, i)
         IN /\ t \in Seq(Chat) /\ Ids(t) = Ids(s) /\ Single(t, T)
            /\ \A d \in Id \ T : Seen(t, d) = Seen(s, d)
<1> DEFINE a == SubSeq(s, 1, i - 1)
           b == SubSeq(s, i + 1, Len(s))
           t == <<s[i]>> \o (a \o b)
           f == [j \in DOMAIN t |-> IF j = 1 THEN i ELSE IF j <= i THEN j - 1 ELSE j]
<1>1. /\ i \in Nat /\ 1 <= i /\ i <= Len(s) /\ Len(s) \in Nat /\ DOMAIN s = 1 .. Len(s)
      /\ s[i] \in Chat
  OBVIOUS
<1>2. /\ a \in Seq(Chat) /\ Len(a) = i - 1
      /\ \A j \in 1 .. i - 1 : a[j] = s[j]
  <2>1. \A j \in 1 .. i - 1 : s[j] \in Chat
    BY <1>1
  <2> QED  BY <1>1, <2>1, SubSeqProperties
<1>3. /\ b \in Seq(Chat) /\ Len(b) = Len(s) - i
      /\ \A j \in 1 .. Len(s) - i : b[j] = s[i + j]
  <2>1. i + 1 \in Int /\ Len(s) \in Int /\ \A j \in i + 1 .. Len(s) : s[j] \in Chat
    BY <1>1
  <2>2. /\ b \in Seq(Chat) /\ Len(b) = IF i + 1 <= Len(s) THEN Len(s) - (i + 1) + 1 ELSE 0
        /\ \A j \in 1 .. Len(s) - (i + 1) + 1 : b[j] = s[(i + 1) + j - 1]
    BY <2>1, SubSeqProperties
  <2> HIDE DEF b
  <2>3. Len(b) = Len(s) - i
    BY <1>1, <2>2
  <2>4. ASSUME NEW j \in 1 .. Len(s) - i  PROVE b[j] = s[i + j]
    <3>1. j \in 1 .. Len(s) - (i + 1) + 1 /\ (i + 1) + j - 1 = i + j
      BY <1>1
    <3> QED  BY <2>2, <3>1
  <2> QED  BY <2>2, <2>3, <2>4
<1> HIDE DEF a, b
<1>4. /\ a \o b \in Seq(Chat) /\ Len(a \o b) = Len(s) - 1
      /\ \A j \in 1 .. Len(s) - 1 : (a \o b)[j] = IF j < i THEN s[j] ELSE s[j + 1]
  <2>1. /\ a \o b \in Seq(Chat) /\ Len(a \o b) = Len(a) + Len(b)
        /\ \A j \in 1 .. Len(a) + Len(b) : (a \o b)[j] = IF j <= Len(a) THEN a[j] ELSE b[j - Len(a)]
    BY <1>2, <1>3, ConcatProperties
  <2>2. ASSUME NEW j \in 1 .. Len(s) - 1, j < i  PROVE (a \o b)[j] = s[j]
    BY <1>1, <1>2, <1>3, <2>1, <2>2
  <2>3. ASSUME NEW j \in 1 .. Len(s) - 1, ~(j < i)  PROVE (a \o b)[j] = s[j + 1]
    <3>1. j - Len(a) \in 1 .. Len(s) - i /\ i + (j - Len(a)) = j + 1
      BY <1>1, <1>2, <2>3
    <3>2. (a \o b)[j] = b[j - Len(a)]
      BY <1>1, <1>2, <1>3, <2>1, <2>3, SMTT(30)
    <3> QED  BY <1>3, <3>1, <3>2
  <2> QED  BY <1>1, <1>2, <1>3, <2>1, <2>2, <2>3
<1>5. /\ t \in Seq(Chat) /\ DOMAIN t = 1 .. Len(s)
      /\ t[1] = s[i]
      /\ \A j \in 2 .. Len(s) : t[j] = (a \o b)[j - 1]
  <2> DEFINE r == a \o b
  <2>1. r \in Seq(Chat) /\ Len(r) = Len(s) - 1 /\ <<s[i]>> \in Seq(Chat)
    BY <1>1, <1>4
  <2> HIDE DEF r
  <2>2. PICK o \in Seq(Chat) : o = <<s[i]>> /\ Len(o) = 1 /\ o[1] = s[i]
    BY <2>1
  <2>3. /\ o \o r \in Seq(Chat) /\ Len(o \o r) = Len(o) + Len(r)
        /\ \A j \in 1 .. Len(o) + Len(r) : (o \o r)[j] = IF j <= Len(o) THEN o[j] ELSE r[j - Len(o)]
    BY <2>1, ConcatProperties
  <2>4. Len(o) + Len(r) = Len(s) /\ 1 \in 1 .. Len(s) /\ DOMAIN (o \o r) = 1 .. Len(s)
    <3>1. Len(o) + Len(r) = Len(s)
      BY <1>1, <2>1, <2>2
    <3>2. DOMAIN (o \o r) = 1 .. Len(o \o r)
      BY <2>3, LenProperties
    <3>3. Len(o \o r) = Len(s)
      BY <2>3, <3>1
    <3>4. 1 \in 1 .. Len(s)
      BY <1>1
    <3> QED  BY <3>1, <3>2, <3>3, <3>4
  <2>5. (o \o r)[1] = s[i]
    BY <2>2, <2>3, <2>4
  <2>6. \A j \in 2 .. Len(s) : (o \o r)[j] = r[j - 1]
    <3>1. ASSUME NEW j \in 2 .. Len(s)
          PROVE  j \in 1 .. Len(s) /\ ~(j <= 1)
      BY <1>1
    <3> QED  BY <2>2, <2>3, <2>4, <3>1
  <2>7. t = o \o r
    BY <2>2 DEF r
  <2> HIDE DEF t
  <2> QED  BY <2>3, <2>4, <2>5, <2>6, <2>7 DEF r
<1> HIDE DEF t
<1>6. /\ f \in [DOMAIN t -> DOMAIN s]
      /\ \A j, k \in DOMAIN t : f[j] = f[k] => j = k
  BY <1>1, <1>5
<1>7. ASSUME NEW k \in DOMAIN s  PROVE \E j \in DOMAIN t : f[j] = k
  <2>1. CASE k = i
    BY <1>1, <1>5, <2>1
  <2>2. CASE k < i
    <3>1. k + 1 \in DOMAIN t /\ f[k + 1] = k
      BY <1>1, <1>5, <2>2
    <3> QED  BY <3>1
  <2>3. CASE k > i
    <3>1. k \in DOMAIN t /\ f[k] = k
      BY <1>1, <1>5, <2>3
    <3> QED  BY <3>1
  <2> QED  BY <1>1, <2>1, <2>2, <2>3
<1>8. ASSUME NEW j \in DOMAIN t  PROVE t[j] = s[f[j]]
  <2>1. CASE j = 1
    BY <1>5, <2>1
  <2>2. CASE j # 1
    <3>1. j \in 2 .. Len(s) /\ j - 1 \in 1 .. Len(s) - 1
      BY <1>1, <1>5, <2>2
    <3>2. f[j] = IF j <= i THEN j - 1 ELSE j
      BY <2>2
    <3> HIDE DEF t, f
    <3>3. t[j] = (a \o b)[j - 1]
      BY <1>5, <3>1
    <3> QED  BY <1>1, <1>4, <3>1, <3>2, <3>3
  <2> QED  BY <2>1, <2>2
<1> HIDE DEF f
<1>9. t = <<s[i]>> \o RemoveAt(s, i)
  BY DEF RemoveAt, a, b, t
<1>10. /\ Ids(t) = Ids(s) /\ Single(t, T)
       /\ \A d \in Id \ T : Seen(t, d) = Seen(s, d)
  <2>1. /\ t \in Seq(Chat) /\ f \in [DOMAIN t -> DOMAIN s]
        /\ \A j, k \in DOMAIN t : f[j] = f[k] => j = k
        /\ \A k \in DOMAIN s : \E j \in DOMAIN t : f[j] = k
        /\ \A j \in DOMAIN t : t[j] = s[f[j]]
    BY <1>5, <1>6, <1>7, <1>8
  <2> QED  BY <2>1, Reordered
<1> QED  BY <1>5, <1>9, <1>10

\* push_msg: the chats follow, the count is the one a message makes, and the
\* index still points at the chat that was on the screen.
LEMMA PushIs ==
  ASSUME NEW s \in Seq(Chat), NEW T, Single(s, T), NEW at \in DOMAIN s, NEW c \in Id
  PROVE  LET p == Push(s, at, c)
         IN /\ Follows(s, p[1], c, T)
            /\ p[2] \in DOMAIN p[1] /\ p[1][p[2]].id = s[at].id
            /\ c \notin T => Seen(p[1], c) = IF c = s[at].id THEN Seen(s, c) ELSE Seen(s, c) + 1
<1> DEFINE t == WithChat(s, c)
           i == Position(t, c)
           u == IF i = at THEN t ELSE [t EXCEPT ![i].unread = @ + 1]
           v == <<u[i]>> \o RemoveAt(u, i)
           p == Push(s, at, c)
<1>1. /\ t \in Seq(Chat) /\ Ids(t) = Ids(s) \cup {c} /\ Single(t, T)
      /\ \A d \in Id \ (T \cup {c}) : Seen(t, d) = Seen(s, d)
      /\ at \in DOMAIN t /\ t[at] = s[at]
      /\ c \notin T => Seen(t, c) = Seen(s, c)
  BY WithChatIs DEF Follows
<1>2. p = IF i = at \/ i = 1 THEN <<u, at>> ELSE <<v, Position(v, u[at].id)>>
  BY DEF Push
<1> HIDE DEF t
<1>3. i \in DOMAIN t /\ t[i].id = c
  <2>1. c \in Ids(t)
    BY <1>1
  <2> QED  BY <1>1, <2>1, PositionIs
<1> HIDE DEF i
<1>4. t[i].unread \in Nat /\ t[i] \in Chat
  <2>1. t[i] \in Chat
    BY <1>1, <1>3
  <2> QED  BY <2>1 DEF Chat
<1>5. c \notin T => (i = at <=> c = s[at].id)
  BY <1>1, <1>3 DEF Single
<1>6. /\ u \in Seq(Chat) /\ Ids(u) = Ids(s) \cup {c} /\ Single(u, T)
      /\ \A d \in Id \ (T \cup {c}) : Seen(u, d) = Seen(s, d)
      /\ DOMAIN u = DOMAIN t /\ u[at].id = s[at].id /\ u[i].id = c
      /\ c \notin T => Seen(u, c) = IF c = s[at].id THEN Seen(s, c) ELSE Seen(s, c) + 1
  <2>1. CASE i = at
    BY <1>1, <1>3, <1>5, <2>1
  <2>2. CASE i # at
    <3> DEFINE n == t[i].unread + 1
               w == [t EXCEPT ![i].unread = n]
    <3>1. u = w
      BY <2>2
    <3>2. n \in Nat
      BY <1>4
    <3>3. /\ Follows(t, w, t[i].id, T) /\ DOMAIN w = DOMAIN t
          /\ \A j \in DOMAIN t : w[j].id = t[j].id
          /\ w[i].unread = n
      <4> HIDE DEF n
      <4> QED  BY <1>1, <1>3, <3>2, Recounted
    <3> HIDE DEF u, w
    <3>4. /\ u \in Seq(Chat) /\ Ids(u) = Ids(s) \cup {c} /\ Single(u, T)
          /\ \A d \in Id \ (T \cup {c}) : Seen(u, d) = Seen(t, d)
      BY <1>1, <1>3, <3>1, <3>3 DEF Follows
    <3>5. c \notin T => Seen(u, c) = Seen(t, c) + 1
      <4> SUFFICES ASSUME c \notin T  PROVE Seen(u, c) = Seen(t, c) + 1
        OBVIOUS
      <4>1. Seen(t, c) = t[i].unread
        BY <1>1, <1>3, SeenIs
      <4>2. i \in DOMAIN u /\ u[i].id = c /\ u[i].unread = n
        BY <1>3, <3>1, <3>3
      <4>3. Seen(u, c) = u[i].unread
        BY <3>4, <4>2, SeenIs
      <4> QED  BY <4>1, <4>2, <4>3
    <3> QED  BY <1>1, <1>3, <1>5, <2>2, <3>1, <3>3, <3>4, <3>5
  <2> QED  BY <2>1, <2>2
<1> HIDE DEF u
<1>7. CASE i = at \/ i = 1
  <2>1. p[1] = u /\ p[2] = at
    BY <1>2, <1>7
  <2> HIDE DEF p
  <2> QED  BY <1>1, <1>6, <2>1 DEF Follows, p
<1>8. CASE ~(i = at \/ i = 1)
  <2>1. p[1] = v /\ p[2] = Position(v, u[at].id)
    BY <1>2, <1>8
  <2>2. /\ v \in Seq(Chat) /\ Ids(v) = Ids(u) /\ Single(v, T)
        /\ \A d \in Id \ T : Seen(v, d) = Seen(u, d)
    BY <1>3, <1>6, PutFirst
  <2> HIDE DEF v, p
  <2>3. u[at].id \in Ids(v)
    BY <1>1, <1>6, <2>2 DEF Ids
  <2>4. Position(v, u[at].id) \in DOMAIN v /\ v[Position(v, u[at].id)].id = u[at].id
    BY <2>2, <2>3, PositionIs
  <2> QED  BY <1>6, <2>1, <2>2, <2>4 DEF Follows, p
<1> QED  BY <1>7, <1>8

\* A chat is opened: it is the one the index points at, and counts nothing.
LEMMA OpenIs ==
  ASSUME chats \in Seq(Chat), NEW T, Single(chats, T), NEW c \in Id
  PROVE  LET o == Open(c)
         IN /\ Follows(chats, o[1], c, T)
            /\ o[2] \in DOMAIN o[1] /\ o[1][o[2]].id = c
            /\ c \notin T => Seen(o[1], c) = 0
<1> DEFINE t == WithChat(chats, c)
           i == Position(t, c)
           u == [t EXCEPT ![i].unread = 0]
<1>1. /\ t \in Seq(Chat) /\ Ids(t) = Ids(chats) \cup {c} /\ Single(t, T)
      /\ \A d \in Id \ (T \cup {c}) : Seen(t, d) = Seen(chats, d)
  BY WithChatIs DEF Follows
<1>2. Open(c)[1] = u /\ Open(c)[2] = i
  BY DEF Open
<1> HIDE DEF t
<1>3. i \in DOMAIN t /\ t[i].id = c
  <2>1. c \in Ids(t)
    BY <1>1
  <2> QED  BY <1>1, <2>1, PositionIs
<1> HIDE DEF i
<1>4. /\ Follows(t, u, t[i].id, T) /\ DOMAIN u = DOMAIN t
      /\ \A j \in DOMAIN t : u[j].id = t[j].id
      /\ u[i].unread = 0
  BY <1>1, <1>3, Recounted, ZenonT(60)
<1> HIDE DEF u
<1>5. Follows(chats, u, c, T)
  BY <1>1, <1>3, <1>4 DEF Follows
<1>6. c \notin T => Seen(u, c) = 0
  BY <1>3, <1>4, <1>5, SeenIs DEF Follows
<1> QED  BY <1>2, <1>3, <1>4, <1>5, <1>6

Renaming(c, a, b) == IF c = a THEN b ELSE c

\* A rename: the chats stay where they are, and keep their counts; those of
\* one name afterwards are those of one name before, or the two names become
\* one.
LEMMA WithNameIs ==
  ASSUME NEW s \in Seq(Chat), NEW T, Single(s, T), NEW a \in Id, NEW b \in Id, NEW V,
         V = {Renaming(c, a, b) : c \in T} \cup (IF {a, b} \subseteq Ids(s) THEN {b} ELSE {})
  PROVE  LET t == WithName(s, a, b)
         IN /\ t \in Seq(Chat) /\ DOMAIN t = DOMAIN s
            /\ \A i \in DOMAIN s : t[i].id = Renaming(s[i].id, a, b)
            /\ Ids(t) = {Renaming(c, a, b) : c \in Ids(s)}
            /\ Single(t, V)
            /\ \A c \in Ids(s) : Renaming(c, a, b) \notin V => Seen(t, Renaming(c, a, b)) = Seen(s, c)
<1> DEFINE f == [i \in DOMAIN s |-> Named(s[i], a, b)]
           t == WithName(s, a, b)
<1>1. ASSUME NEW c \in Chat
      PROVE  /\ Named(c, a, b) \in Chat
             /\ Named(c, a, b).id = Renaming(c.id, a, b) /\ Named(c, a, b).unread = c.unread
  BY DEF Chat, Named, Renaming
<1>2. /\ Len(s) \in Int /\ DOMAIN s = 1 .. Len(s) /\ 1 \in Int
      /\ \A i \in DOMAIN s : s[i] \in Chat /\ f[i] = Named(s[i], a, b)
  OBVIOUS
<1> HIDE DEF f
<1>3. \A i \in 1 .. Len(s) : f[i] \in Chat
  BY <1>1, <1>2
<1>4. /\ t \in Seq(Chat) /\ DOMAIN t = DOMAIN s
      /\ \A i \in DOMAIN s : t[i] = f[i]
  <2>1. /\ t \in Seq(Chat) /\ Len(t) = IF 1 <= Len(s) THEN Len(s) - 1 + 1 ELSE 0
        /\ \A i \in 1 .. Len(s) - 1 + 1 : t[i] = f[1 + i - 1]
    BY <1>2, <1>3, SubSeqProperties DEF WithName, f
  <2> HIDE DEF t
  <2>2. Len(s) \in Nat
    OBVIOUS
  <2>3. Len(t) = Len(s)
    BY <2>1, <2>2
  <2>4. ASSUME NEW i \in 1 .. Len(s)  PROVE t[i] = f[i]
    <3>1. i \in 1 .. Len(s) - 1 + 1 /\ 1 + i - 1 = i
      BY <2>2
    <3> QED  BY <2>1, <3>1
  <2>5. DOMAIN t = 1 .. Len(t)
    BY <2>1, LenProperties
  <2> QED  BY <1>2, <2>1, <2>3, <2>4, <2>5
<1> HIDE DEF t
<1>5. \A i \in DOMAIN s : t[i].id = Renaming(s[i].id, a, b) /\ t[i].unread = s[i].unread
  BY <1>1, <1>2, <1>4
<1>6. Ids(t) = {Renaming(c, a, b) : c \in Ids(s)}
  BY <1>4, <1>5 DEF Ids
<1>7. Single(t, V)
  <2> SUFFICES ASSUME NEW i \in DOMAIN s, NEW j \in DOMAIN s, t[i].id = t[j].id, i # j
               PROVE  t[i].id \in V
    BY <1>4 DEF Single
  <2>1. t[i].id = Renaming(s[i].id, a, b) /\ t[j].id = Renaming(s[j].id, a, b)
    BY <1>5
  <2>2. CASE s[i].id = s[j].id
    BY <2>1, <2>2 DEF Single
  <2>3. CASE s[i].id # s[j].id
    <3>1. t[i].id = b /\ {s[i].id, s[j].id} = {a, b}
      BY <2>1, <2>3 DEF Renaming
    <3>2. {a, b} \subseteq Ids(s)
      BY <3>1 DEF Ids
    <3> QED  BY <3>1, <3>2
  <2> QED  BY <2>2, <2>3
<1>8. ASSUME NEW c \in Ids(s), Renaming(c, a, b) \notin V
      PROVE  Seen(t, Renaming(c, a, b)) = Seen(s, c)
  <2>1. PICK i \in DOMAIN s : s[i].id = c
    BY DEF Ids
  <2>2. c \notin T
    BY <1>8
  <2>3. t[i].id = Renaming(c, a, b) /\ t[i].unread = s[i].unread /\ i \in DOMAIN t
    BY <1>4, <1>5, <2>1
  <2>4. Seen(t, t[i].id) = t[i].unread
    BY <1>4, <1>7, <1>8, <2>3, SeenIs
  <2>5. Seen(s, s[i].id) = s[i].unread
    BY <2>1, <2>2, SeenIs
  <2> QED  BY <2>1, <2>3, <2>4, <2>5
<1> QED  BY <1>4, <1>5, <1>6, <1>7, <1>8 DEF t

-----------------------------------------------------------------------------
(* The promises *)

\* The parts of ChatsOK.
ListOK == /\ chats \in Seq(Chat) /\ active \in DOMAIN chats
          /\ {Main, Sys} \subseteq Ids(chats)
          /\ Single(chats, twice)
          /\ twice \subseteq Name

LinkOK == /\ me \in Name
          /\ screen \in {"connect", "chat"}
          /\ {linked, connected, authed} \subseteq BOOLEAN
          /\ connected => linked
          /\ authed => connected /\ screen = "chat"

LEMMA ChatsParts ==
  /\ ChatsOK <=> ListOK /\ LinkOK
  /\ ChatsOK' <=> ListOK' /\ LinkOK'
BY DEF ChatsOK, ListOK, LinkOK, Single

\* A message is one for the sidebar.
LEMMA ReceiveMaps ==
  ASSUME ChatsOK, NEW c \in Id, Follows(chats, chats', c, twice),
         chats'[active'].id = chats[active].id, twice' = twice,
         c \notin twice => Seen(chats', c) = IF c = chats[active].id THEN Seen(chats, c)
                                                                   ELSE Seen(chats, c) + 1
  PROVE  Promised!Receive(c)
<1>1. Ids(chats') = Ids(chats) \cup {c} /\ Ids(chats) \subseteq Id
  BY IdsAreIds DEF Follows, ChatsOK
<1>2. \A d \in Id \ (twice \cup {c}) : Seen(chats', d) = Seen(chats, d)
  BY DEF Follows
<1>3. c \in Ids(chats') /\ (c \notin twice => chats'[Position(chats', c)].unread =
         IF c = chats[active].id THEN Seen(chats, c) ELSE Seen(chats, c) + 1)
  BY <1>1 DEF Seen
<1>4. \A d \in Ids(chats') \ ({c} \cup twice) :
        /\ d \in Ids(chats)
        /\ chats'[Position(chats', d)].unread = chats[Position(chats, d)].unread
  BY <1>1, <1>2 DEF Seen
<1> QED  BY <1>1, <1>3, <1>4 DEF Promised!Receive, Promised!Count, Promised!CountsBut, Seen

\* A chat is opened, perhaps with a notice.
LEMMA ShowMaps ==
  ASSUME ChatsOK, NEW c \in Id, NEW W \in SUBSET Id, Ids(chats') = Ids(chats) \cup {c} \cup W,
         chats'[active'].id = c, twice' = twice,
         c \notin twice => Seen(chats', c) = 0,
         \A d \in W \ twice : Seen(chats', d) = Seen(chats, d) + 1,
         \A d \in Id \ (twice \cup {c} \cup W) : Seen(chats', d) = Seen(chats, d)
  PROVE  Promised!Show(c, W)
<1>1. Ids(chats) \subseteq Id
  BY IdsAreIds DEF ChatsOK
<1>2. c \in Ids(chats') /\ (c \notin twice => chats'[Position(chats', c)].unread = 0)
  BY DEF Seen
<1>3. \A d \in W \ twice : d \in Ids(chats') /\ chats'[Position(chats', d)].unread = Seen(chats, d) + 1
  BY DEF Seen
<1>4. \A d \in Ids(chats') \ ({c} \cup W \cup twice) :
        /\ d \in Ids(chats)
        /\ chats'[Position(chats', d)].unread = chats[Position(chats, d)].unread
  BY <1>1 DEF Seen
<1> QED  BY <1>2, <1>3, <1>4 DEF Promised!Show, Promised!Count, Promised!CountsBut, Seen

-----------------------------------------------------------------------------
(* The steps *)

Kept == ChatsOK' /\ [Promised!InboxNext]_(Promised!inbox)

LEMMA PushStep ==
  ASSUME ChatsOK, NEW c \in Id, PushMsg(c), UNCHANGED twice, LinkOK'
  PROVE  Kept
<1> DEFINE p == Push(chats, active, c)
<1>1. ListOK
  BY ChatsParts
<1>2. chats' = p[1] /\ active' = p[2]
  BY DEF PushMsg, Becomes
<1>3. /\ Follows(chats, p[1], c, twice)
      /\ p[2] \in DOMAIN p[1] /\ p[1][p[2]].id = chats[active].id
      /\ c \notin twice => Seen(p[1], c) = IF c = chats[active].id THEN Seen(chats, c) ELSE Seen(chats, c) + 1
  BY <1>1, PushIs DEF ListOK
<1> HIDE DEF p
<1>4. ListOK'
  BY <1>1, <1>2, <1>3 DEF ListOK, Follows
<1>5. Promised!Receive(c)
  BY <1>2, <1>3, ReceiveMaps
<1> QED  BY <1>4, <1>5, ChatsParts DEF Kept, Promised!InboxNext

LEMMA SysIsId ==
  Sys \in Id /\ Main \in Id /\ Name \subseteq Id /\ Room \subseteq Id /\ Sys \notin Name \cup Room
  /\ Main \notin Name /\ Main # Sys
BY MainAssumption, IdAssumption DEF Id

LEMMA EventStep ==
  ASSUME ChatsOK, PollNotice \/ PollDisconnected \/ PollAuthed
                  \/ \E c \in Id : PollMsg(c) \/ PollFileMsg(c)
  PROVE  Kept
<1>1. LinkOK
  BY ChatsParts
<1>2. ASSUME PollNotice \/ PollDisconnected \/ PollAuthed  PROVE Kept
  <2>1. PushMsg(Sys) /\ UNCHANGED twice
    BY <1>2 DEF PollNotice, PollDisconnected, PollAuthed
  <2>2. LinkOK'
    <3>1. CASE PollNotice
      BY <1>1, <3>1 DEF PollNotice, LinkOK, link
    <3>2. CASE PollDisconnected
      BY <1>1, <3>2 DEF PollDisconnected, LinkOK
    <3>3. CASE PollAuthed
      BY <1>1, <3>3 DEF PollAuthed, LinkOK
    <3> QED  BY <1>2, <3>1, <3>2, <3>3
  <2> QED  BY <2>1, <2>2, PushStep, SysIsId
<1>3. ASSUME NEW c \in Id, PollMsg(c) \/ PollFileMsg(c)  PROVE Kept
  <2>1. PushMsg(c) /\ UNCHANGED twice /\ LinkOK'
    BY <1>1, <1>3 DEF PollMsg, PollFileMsg, LinkOK, link
  <2> QED  BY <2>1, PushStep
<1> QED  BY <1>2, <1>3

LEMMA RoomChangedStep ==
  ASSUME ChatsOK, NEW r \in Room, PollRoomChanged(r)
  PROVE  Kept
<1> DEFINE o == Open(r)
           p == Push(o[1], o[2], Sys)
<1>1. ListOK /\ LinkOK
  BY ChatsParts
<1>2. chats' = p[1] /\ active' = p[2] /\ UNCHANGED <<me, link, twice>>
  BY DEF PollRoomChanged, Becomes
<1>3. /\ Follows(chats, o[1], r, twice)
      /\ o[2] \in DOMAIN o[1] /\ o[1][o[2]].id = r
      /\ r \notin twice => Seen(o[1], r) = 0
  BY <1>1, SysIsId, OpenIs DEF ListOK
<1> HIDE DEF o
<1>4. /\ Follows(o[1], p[1], Sys, twice)
      /\ p[2] \in DOMAIN p[1] /\ p[1][p[2]].id = r
      /\ Sys \notin twice => Seen(p[1], Sys) = IF Sys = r THEN Seen(o[1], Sys) ELSE Seen(o[1], Sys) + 1
  <2>1. /\ o[1] \in Seq(Chat) /\ Single(o[1], twice) /\ o[2] \in DOMAIN o[1] /\ Sys \in Id
    BY <1>3, SysIsId DEF Follows
  <2>2. o[1][o[2]].id = r
    BY <1>3
  <2> QED  BY <2>1, <2>2, PushIs
<1> HIDE DEF p
<1>5. Sys # r /\ Sys \notin twice /\ r \in Id /\ Sys \in Id /\ r \notin {Sys}
  BY <1>1, SysIsId DEF ListOK
<1>6. ListOK'
  BY <1>1, <1>2, <1>3, <1>4 DEF ListOK, Follows
<1>7. LinkOK'
  BY <1>1, <1>2 DEF LinkOK, link
<1>8. Ids(chats') = Ids(chats) \cup {r} \cup {Sys}
  BY <1>2, <1>3, <1>4 DEF Follows
<1>9. /\ r \notin twice => Seen(chats', r) = 0
      /\ Seen(chats', Sys) = Seen(chats, Sys) + 1
      /\ \A d \in Id \ (twice \cup {r} \cup {Sys}) : Seen(chats', d) = Seen(chats, d)
  BY <1>2, <1>3, <1>4, <1>5 DEF Follows
<1>10. Promised!Show(r, {Sys})
  BY <1>2, <1>4, <1>5, <1>8, <1>9, ShowMaps
<1> QED  BY <1>5, <1>6, <1>7, <1>10, ChatsParts DEF Kept, Promised!InboxNext

LEMMA OpenPrivateStep ==
  ASSUME ChatsOK, NEW n \in Name, OpenPrivate(n)
  PROVE  Kept
<1> DEFINE o == Open(n)
<1>1. ListOK /\ LinkOK /\ n \in Id
  BY ChatsParts, SysIsId
<1>2. chats' = o[1] /\ active' = o[2] /\ UNCHANGED <<me, link, twice>>
  BY DEF OpenPrivate, Becomes
<1>3. /\ Follows(chats, o[1], n, twice)
      /\ o[2] \in DOMAIN o[1] /\ o[1][o[2]].id = n
      /\ n \notin twice => Seen(o[1], n) = 0
  BY <1>1, OpenIs DEF ListOK
<1> HIDE DEF o
<1>4. ListOK' /\ LinkOK'
  BY <1>1, <1>2, <1>3 DEF ListOK, LinkOK, Follows, link
<1>5. Promised!Show(n, {})
  <2>1. Ids(chats') = Ids(chats) \cup {n} \cup {}
    BY <1>2, <1>3 DEF Follows
  <2>2. \A d \in Id \ (twice \cup {n} \cup {}) : Seen(chats', d) = Seen(chats, d)
    BY <1>2, <1>3 DEF Follows
  <2> QED  BY <1>1, <1>2, <1>3, <2>1, <2>2, ShowMaps
<1> QED  BY <1>1, <1>4, <1>5, ChatsParts DEF Kept, Promised!InboxNext

LEMMA ClickStep ==
  ASSUME ChatsOK, NEW i \in DOMAIN chats, ClickChat(i)
  PROVE  Kept
<1>1. ListOK /\ LinkOK
  BY ChatsParts
<1>2. /\ active' = i /\ UNCHANGED <<me, link, twice>>
      /\ chats' = [chats EXCEPT ![i].unread = 0]
  BY DEF ClickChat
<1> DEFINE c == chats[i].id
<1>3. /\ Follows(chats, chats', c, twice)
      /\ DOMAIN chats' = DOMAIN chats
      /\ \A j \in DOMAIN chats : chats'[j].id = chats[j].id
      /\ chats'[i].unread = 0
  <2> DEFINE w == [chats EXCEPT ![i].unread = 0]
  <2>1. /\ Follows(chats, w, chats[i].id, twice)
        /\ DOMAIN w = DOMAIN chats
        /\ \A j \in DOMAIN chats : w[j].id = chats[j].id
        /\ w[i].unread = 0
    <3>1. chats \in Seq(Chat) /\ Single(chats, twice) /\ 0 \in Nat
      BY <1>1 DEF ListOK
    <3> QED  BY <3>1, Recounted
  <2>2. chats' = w
    BY <1>2
  <2> HIDE DEF w
  <2> QED  BY <2>1, <2>2
<1>4. c \in Id /\ c \in Ids(chats)
  BY <1>1, IdsAreIds DEF ListOK, Ids
<1> HIDE DEF c
<1>5. chats'[i].id = c /\ i \in DOMAIN chats'
  BY <1>3 DEF c
<1>6. ListOK' /\ LinkOK'
  BY <1>1, <1>2, <1>3, <1>5 DEF ListOK, LinkOK, Follows, link
<1>7. c \notin twice => Seen(chats', c) = 0
  BY <1>3, <1>5, SeenIs DEF Follows
<1>8. Promised!Show(c, {})
  <2>1. Ids(chats') = Ids(chats) \cup {c} \cup {}
    BY <1>3 DEF Follows
  <2>2. \A d \in Id \ (twice \cup {c} \cup {}) : Seen(chats', d) = Seen(chats, d)
    BY <1>3 DEF Follows
  <2>3. chats'[active'].id = c /\ twice' = twice
    BY <1>2, <1>5
  <2> QED  BY <1>4, <1>7, <2>1, <2>2, <2>3, ShowMaps
<1> QED  BY <1>4, <1>6, <1>8, ChatsParts DEF Kept, Promised!InboxNext

LEMMA UsernameChangedStep ==
  ASSUME ChatsOK, NEW n \in Name, PollUsernameChanged(n)
  PROVE  Kept
<1> DEFINE t == WithName(chats, me, n)
           p == Push(t, active, Sys)
           Now(c) == Renaming(c, me, n)
<1>1. ListOK /\ LinkOK /\ me \in Id /\ n \in Id /\ me # n /\ Sys \in Id /\ Sys \notin {me, n}
  BY ChatsParts, SysIsId DEF PollUsernameChanged, LinkOK
<1>2. /\ chats' = p[1] /\ active' = p[2] /\ me' = n /\ UNCHANGED link
      /\ twice' = {Now(c) : c \in twice} \cup (IF {me, n} \subseteq Ids(chats) THEN {n} ELSE {})
  BY DEF PollUsernameChanged, Becomes, Renaming
<1>3. /\ t \in Seq(Chat) /\ DOMAIN t = DOMAIN chats
      /\ \A i \in DOMAIN chats : t[i].id = Now(chats[i].id)
      /\ Ids(t) = {Now(c) : c \in Ids(chats)}
      /\ Single(t, twice')
      /\ \A c \in Ids(chats) : Now(c) \notin twice' => Seen(t, Now(c)) = Seen(chats, c)
  BY <1>1, <1>2, WithNameIs DEF ListOK
<1> HIDE DEF t
<1>4. /\ Follows(t, p[1], Sys, twice')
      /\ p[2] \in DOMAIN p[1] /\ p[1][p[2]].id = t[active].id
      /\ Sys \notin twice' => Seen(p[1], Sys) = IF Sys = t[active].id THEN Seen(t, Sys) ELSE Seen(t, Sys) + 1
  <2>1. active \in DOMAIN t
    BY <1>1, <1>3 DEF ListOK
  <2> QED  BY <1>1, <1>3, <2>1, PushIs
<1> HIDE DEF p
<1>5. twice' \subseteq Name
  BY <1>1, <1>2 DEF ListOK, Renaming
<1>6. Sys \notin twice'
  BY <1>5, SysIsId
<1>7. /\ Ids(chats') = {Now(c) : c \in Ids(chats)} \cup {Sys}
      /\ chats'[active'].id = Now(chats[active].id) /\ active' \in DOMAIN chats'
  BY <1>1, <1>2, <1>3, <1>4 DEF Follows, ListOK
<1>8. Now(Sys) = Sys /\ Now(Main) = Main /\ {Main, Sys} \subseteq Ids(chats)
  BY <1>1, SysIsId DEF Renaming, ListOK, LinkOK
<1>9. ListOK'
  <2>1. {Main, Sys} \subseteq Ids(chats')
    BY <1>7, <1>8
  <2>2. chats' \in Seq(Chat) /\ Single(chats', twice')
    BY <1>2, <1>4 DEF Follows
  <2> QED  BY <1>5, <1>7, <2>1, <2>2 DEF ListOK
<1>10. LinkOK'
  BY <1>1, <1>2 DEF LinkOK, link
<1>11. ASSUME NEW c \in Ids(chats) \ {Sys}, Now(c) \notin twice'
       PROVE  Now(c) \in Ids(chats') /\ Seen(chats', Now(c)) = Seen(chats, c)
  <2>1. Now(c) \in Ids(chats') /\ Now(c) \in Ids(t)
    BY <1>3, <1>7
  <2>2. Now(c) \in Id \ (twice' \cup {Sys})
    <3>1. Ids(chats) \subseteq Id
      BY <1>1, IdsAreIds DEF ListOK
    <3> QED  BY <1>1, <1>11, <3>1 DEF Renaming
  <2>3. Seen(chats', Now(c)) = Seen(t, Now(c))
    BY <1>2, <1>4, <2>2 DEF Follows
  <2> QED  BY <1>3, <1>11, <2>1, <2>3
<1>12. Seen(chats', Sys) = IF chats[active].id = Sys THEN Seen(chats, Sys) ELSE Seen(chats, Sys) + 1
  <2>1. Seen(t, Sys) = Seen(chats, Sys)
    BY <1>3, <1>6, <1>8
  <2>2. t[active].id = Now(chats[active].id)
    BY <1>1, <1>3 DEF ListOK
  <2>3. Sys = t[active].id <=> chats[active].id = Sys
    BY <1>1, <1>8, <2>2 DEF Renaming
  <2> QED  BY <1>2, <1>4, <1>6, <2>1, <2>3
<1>13. Promised!Renamed(me, n)
  <2>1. chats'[active'].id = IF chats[active].id = me THEN n ELSE chats[active].id
    BY <1>7 DEF Renaming
  <2>2. Ids(chats') = {IF c = me THEN n ELSE c : c \in Ids(chats) \cup {Sys}}
    BY <1>7, <1>8 DEF Renaming
  <2>3. twice' = {IF c = me THEN n ELSE c : c \in twice} \cup (IF {me, n} \subseteq Ids(chats) THEN {n} ELSE {})
    BY <1>2 DEF Renaming
  <2>4. \A c \in Ids(chats) \ {Sys} :
          (IF c = me THEN n ELSE c) \notin twice' =>
            /\ (IF c = me THEN n ELSE c) \in Ids(chats')
            /\ chats'[Position(chats', IF c = me THEN n ELSE c)].unread = chats[Position(chats, c)].unread
    BY <1>11 DEF Renaming, Seen
  <2>5. /\ Sys \in Ids(chats') /\ Sys \in Ids(chats)
        /\ chats'[Position(chats', Sys)].unread =
             IF chats[active].id = Sys THEN chats[Position(chats, Sys)].unread
                                       ELSE chats[Position(chats, Sys)].unread + 1
    BY <1>7, <1>8, <1>12 DEF Seen
  <2> QED  BY <2>1, <2>2, <2>3, <2>4, <2>5 DEF Promised!Renamed, Promised!Count
<1>14. Promised!InboxNext
  <2>1. me \in Id \ {Sys, Main} /\ n \in Id \ {Sys, Main}
    BY <1>1, SysIsId DEF LinkOK
  <2> QED  BY <1>1, <1>13, <2>1 DEF Promised!InboxNext
<1> QED  BY <1>9, <1>10, <1>14, ChatsParts DEF Kept

LEMMA PersonStep ==
  ASSUME ChatsOK, SubmitInput \/ Logout \/ \E n \in Name : StartConnect(n)
  PROVE  Kept
<1>1. ListOK /\ LinkOK
  BY ChatsParts
<1>2. CASE SubmitInput
  <2>1. /\ PushMsg(IF connected THEN chats[active].id ELSE Sys)
        /\ UNCHANGED <<me, link, twice>>
    BY <1>2 DEF SubmitInput
  <2>2. LinkOK'
    BY <1>1, <2>1 DEF LinkOK, link
  <2>3. chats[active].id \in Id
    BY <1>1, IdsAreIds DEF ListOK, Ids
  <2> QED  BY <2>1, <2>2, <2>3, PushStep, SysIsId
<1>3. ASSUME NEW n \in Name, StartConnect(n)  PROVE Kept
  <2>1. PushMsg(Sys) /\ UNCHANGED twice
    BY <1>3 DEF StartConnect
  <2>2. LinkOK'
    BY <1>1, <1>3 DEF StartConnect, LinkOK
  <2> QED  BY <2>1, <2>2, PushStep, SysIsId
<1>4. CASE Logout
  <2>1. UNCHANGED <<list, me, twice>>
    BY <1>4 DEF Logout
  <2>2. LinkOK'
    BY <1>1, <1>4 DEF Logout, LinkOK
  <2>3. ListOK'
    BY <1>1, <2>1 DEF ListOK, list
  <2>4. UNCHANGED Promised!inbox
    BY <2>1 DEF Promised!inbox, list
  <2> QED  BY <2>2, <2>3, <2>4, ChatsParts DEF Kept
<1> QED  BY <1>2, <1>3, <1>4

\* The list as the program starts with it.
LEMMA FirstChatsAre ==
  /\ FirstChats \in Seq(Chat) /\ 1 \in DOMAIN FirstChats /\ FirstChats[1].id = Main
  /\ Ids(FirstChats) = {Main, Sys}
  /\ \A T : Single(FirstChats, T)
  /\ \A c \in {Main, Sys} : FirstChats[Position(FirstChats, c)].unread = 0
<1>1. PICK m \in Chat : m.id = Main /\ m.unread = 0 /\ m = [id |-> Main, unread |-> 0]
  BY SysIsId DEF Chat
<1>2. PICK y \in Chat : y.id = Sys /\ y.unread = 0 /\ y = [id |-> Sys, unread |-> 0]
  BY SysIsId DEF Chat
<1>3. PICK s : s = <<m, y>>
  OBVIOUS
<1>4. FirstChats = s
  BY <1>1, <1>2, <1>3 DEF FirstChats
<1>5. s \in Seq(Chat) /\ DOMAIN s = {1, 2} /\ s[1] = m /\ s[2] = y
  BY <1>3
<1>6. Ids(s) = {Main, Sys} /\ \A T : Single(s, T)
  BY <1>1, <1>2, <1>5, SysIsId DEF Ids, Single
<1>7. ASSUME NEW c \in {Main, Sys}  PROVE s[Position(s, c)].unread = 0
  <2>1. Position(s, c) \in DOMAIN s
    BY <1>5, <1>6, PositionIs
  <2> QED  BY <1>1, <1>2, <1>5, <2>1
<1> QED  BY <1>1, <1>4, <1>5, <1>6, <1>7

LEMMA RestartStep ==
  ASSUME ChatsOK, Restart
  PROVE  Kept
<1>1. /\ chats' = FirstChats /\ active' = 1 /\ twice' = {}
      /\ me' \in Name /\ screen' = "connect"
      /\ linked' = FALSE /\ connected' = FALSE /\ authed' = FALSE
  BY DEF Restart
<1>2. ListOK'
  BY <1>1, FirstChatsAre DEF ListOK
<1>3. LinkOK'
  BY <1>1 DEF LinkOK
<1>4. Promised!Forget
  <2>1. /\ chats'[active'].id = Main /\ Ids(chats') = {Main, Sys}
        /\ \A c \in Ids(chats') : chats'[Position(chats', c)].unread = 0
    BY <1>1, FirstChatsAre
  <2> QED  BY <1>1, <2>1 DEF Promised!Forget
<1> QED  BY <1>2, <1>3, <1>4, ChatsParts DEF Kept, Promised!InboxNext

LEMMA ChatStep ==
  ChatsOK /\ [CNext]_cvars => Kept
<1> SUFFICES ASSUME ChatsOK, [CNext]_cvars  PROVE Kept
  OBVIOUS
<1>1. CASE UNCHANGED cvars
  <2>1. UNCHANGED <<chats, active, me, screen, linked, connected, authed, twice>>
    BY <1>1 DEF cvars, list, link
  <2>2. UNCHANGED Promised!inbox
    BY <2>1 DEF Promised!inbox
  <2>3. ListOK /\ LinkOK
    BY ChatsParts
  <2>4. ListOK'
    BY <2>1, <2>3 DEF ListOK
  <2>5. LinkOK'
    BY <2>1, <2>3 DEF LinkOK
  <2> QED  BY <2>2, <2>4, <2>5, ChatsParts DEF Kept
<1>2. CASE PollEvents
  BY <1>2, EventStep, UsernameChangedStep, RoomChangedStep DEF PollEvents
<1>3. CASE User
  BY <1>3, OpenPrivateStep, ClickStep, PersonStep, RestartStep DEF User
<1> QED  BY <1>1, <1>2, <1>3 DEF CNext

LEMMA InitKept ==
  CInit => ChatsOK /\ Promised!InboxInit
<1> SUFFICES ASSUME CInit  PROVE ChatsOK /\ Promised!InboxInit
  OBVIOUS
<1>1. ListOK
  BY FirstChatsAre DEF CInit, ListOK
<1>2. LinkOK
  BY DEF CInit, LinkOK
<1>3. /\ chats[active].id = Main /\ Ids(chats) = {Main, Sys}
      /\ \A c \in Ids(chats) : chats[Position(chats, c)].unread = 0
  BY FirstChatsAre DEF CInit
<1>4. Promised!InboxInit
  BY <1>3 DEF Promised!InboxInit, CInit
<1> QED  BY <1>1, <1>2, <1>4, ChatsParts

\* Whatever messages, renames, room changes and clicks follow each other, the
\* index of the chat on the screen is one of the list, the first two chats are
\* there, and no chat is there twice but those a rename made (main.rs:480).
THEOREM ChatsAreOK ==
  CSpec => []ChatsOK
<1>1. ChatsOK /\ [CNext]_cvars => ChatsOK'
  BY ChatStep DEF Kept
<1> QED  BY <1>1, InitKept, PTL DEF CSpec

\* The list with its index keeps the promises of the sidebar: what is shown
\* stays until the user or the server changes it, and the counts are those of
\* the messages not seen (main.rs:501).
THEOREM ListImplementsInbox ==
  CSpec => ImplementsInbox
<1>1. ChatsOK /\ [CNext]_cvars => [Promised!InboxNext]_(Promised!inbox)
  BY ChatStep DEF Kept
<1> QED  BY <1>1, InitKept, ChatsAreOK, PTL DEF CSpec, ImplementsInbox, Promised!InboxSpec

=============================================================================
