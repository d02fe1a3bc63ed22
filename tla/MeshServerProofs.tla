--------------------------- MODULE MeshServerProofs --------------------------
(***************************************************************************)
(* Proofs about the two live states of the server, each by an invariant of *)
(* its own: who is told of whom (MeshPresence), and who is in which room   *)
(* (MeshRooms).  The modules share nothing but the server.                 *)
(*                                                                         *)
(* For every set of sessions, viewers, addresses and keys: type            *)
(* correctness, that what clients are told of a name is right once its     *)
(* handlers have settled, and that every published key reaches every       *)
(* active client.                                                          *)
(*                                                                         *)
(* For every set of clients, rooms and passwords and any bound on the      *)
(* channels: type correctness, that only who knows a room's password is in *)
(* it, that the GUI's idea of its room follows the server's, and that a    *)
(* calm text goes to its room.                                             *)
(***************************************************************************)
EXTENDS MeshPresence, MeshRooms, SequenceTheorems, TLAPS

OneHolder == \A c, d \in Session : Connected(c) /\ holds[c] = holds[d] => c = d

\* A handler in activate or in a command that needs a login is a member's.
MembersAct ==
  \A c \in Session :
    pc[c] \in {"activate", "republish", "table", "retable", "new", "renew", "greet", "profile",
              "sayoff", "sayon"}
      => c \in members

\* The local username is an address while the handler runs, and wrong only
\* for names that a rename touched.
LocalIsName ==
  \A c \in Session :
    /\ pc[c] # "idle" => local[c] \in Address
    /\ Connected(c) /\ holds[c] \notin blurred => local[c] = holds[c]

\* Who is shown online is a member or has its farewell still to come.
OnJustified ==
  \A v \in Viewer, n \in Address :
    Connected(v) /\ n \notin blurred /\ ann[v][n] = "on" =>
      \/ \E d \in members : holds[d] = n
      \/ \E c \in Session : pc[c] = "gone" /\ local[c] = n

\* Where a handler still has to announce its client's presence.
Speaking == {"activate", "table", "new", "greet", "profile", "sayoff", "sayon"}

\* A member who is shown offline hides, or did before a stale copy, or is to
\* be announced again.
OffJustified ==
  \A v \in Viewer, d \in members :
    Connected(v) /\ holds[d] \notin blurred /\ ann[v][holds[d]] = "off" =>
      hide[holds[d]] \/ d \in restored \/ pc[d] \in Speaking

\* So does who is about to be announced offline.
TellsTrue ==
  \A c \in Session : pc[c] = "sayoff" => hide[holds[c]] \/ c \in restored

\* The key of d has been told to v, or is on its way: in the table v is to
\* get or in the announcement d is to make.
KeyOnItsWay ==
  \A v \in Viewer, d \in members :
    v # d /\ v \in members /\ pubkey[d] # NoKey /\ holds[d] \notin blurred =>
      \/ known[v][holds[d]] # NoKey
      \/ pc[v] = "activate"
      \/ pc[v] = "table" /\ draft[v][holds[d]] # NoKey
      \/ pc[d] \in {"activate", "table", "new", "republish", "retable", "renew"}

PInv == /\ PTypeOK
        /\ OneHolder
        /\ MembersAct
        /\ LocalIsName
        /\ OnJustified
        /\ OffJustified
        /\ TellsTrue
        /\ KeyOnItsWay

-----------------------------------------------------------------------------

\* The table has a key of every member that has one.
LEMMA PubKeysHave ==
  ASSUME PTypeOK
  PROVE  /\ PubKeys \in [Address -> Key \cup {NoKey}]
         /\ \A d \in members : pubkey[d] # NoKey => PubKeys[holds[d]] # NoKey
<1> DEFINE Holders(n) == {d \in members : holds[d] = n /\ pubkey[d] # NoKey}
           Told(n) == IF Holders(n) = {} THEN NoKey ELSE pubkey[CHOOSE d \in Holders(n) : TRUE]
<1>1. ASSUME NEW n \in Address
      PROVE  /\ Told(n) \in Key \cup {NoKey}
             /\ Holders(n) # {} => Told(n) # NoKey
  <2>1. CASE Holders(n) = {}
    BY <2>1
  <2>2. CASE Holders(n) # {}
    <3>1. PICK d \in Holders(n) : d = CHOOSE x \in Holders(n) : TRUE
      BY <2>2
    <3>2. Told(n) = pubkey[d]
      BY <2>2, <3>1
    <3>3. d \in Session /\ pubkey[d] # NoKey
      BY <3>1 DEF PTypeOK
    <3> QED
      BY <3>2, <3>3 DEF PTypeOK
  <2> QED
    BY <2>1, <2>2
<1>2. PubKeys = [n \in Address |-> Told(n)]
  BY DEF PubKeys
<1>3. ASSUME NEW d \in members, pubkey[d] # NoKey
      PROVE  holds[d] \in Address /\ d \in Holders(holds[d])
  BY <1>3, NobodyAssumption DEF PTypeOK, Connected
<1> HIDE DEF Told, Holders
<1>4. PubKeys \in [Address -> Key \cup {NoKey}]
  BY <1>1, <1>2
<1>5. ASSUME NEW d \in members, pubkey[d] # NoKey PROVE PubKeys[holds[d]] # NoKey
  BY <1>1, <1>2, <1>3, <1>5
<1> QED
  BY <1>4, <1>5

\* What a broadcast of presence changes.
LEMMA AnnounceChanges ==
  ASSUME PTypeOK, NEW n \in Address, NEW x \in {"on", "off"}, Announce(n, x)
  PROVE  /\ ann' \in [Viewer -> [Address -> {"none", "on", "off"}]]
         /\ \A w \in Viewer : Connected(w) => ann'[w][n] = x
         /\ \A w \in Viewer, m \in Address :
              m # n \/ ~Connected(w) => ann'[w][m] = ann[w][m]
         /\ known' = known
<1>1. ann' = [w \in Viewer |-> IF Connected(w) THEN [ann[w] EXCEPT ![n] = x] ELSE ann[w]]
  BY ViewerAssumption DEF Announce, Tell
<1> QED
  BY <1>1 DEF Announce, PTypeOK

LEMMA MembersHold ==
  ASSUME PTypeOK
  PROVE  /\ \A c \in Session : Connected(c) => holds[c] \in Address
         /\ \A d \in members : d \in Session /\ Connected(d) /\ holds[d] \in Address
BY NobodyAssumption DEF PTypeOK, Connected

-----------------------------------------------------------------------------

LEMMA InitPInv == PInit => PInv
<1> SUFFICES ASSUME PInit PROVE PInv
  OBVIOUS
<1>1. PTypeOK
  BY ViewerAssumption DEF PInit, DirInit, PTypeOK, Connected, Handler, NoTable, NoLogin
<1> QED
  BY <1>1, ViewerAssumption
     DEF PInit, DirInit, PInv, OneHolder, MembersAct, LocalIsName, OnJustified, OffJustified,
         TellsTrue, KeyOnItsWay, Connected

LEMMA ConnectPInv ==
  ASSUME PInv, NEW c \in Session, NEW n \in Address, Connect(c, n) PROVE PInv'
<1> USE ViewerAssumption, NobodyAssumption DEF PInv
<1>1. /\ pc[c] = "idle" /\ ~Connected(c) /\ Free(n)
      /\ holds' = [holds EXCEPT ![c] = n]
      /\ pc' = [pc EXCEPT ![c] = "ready"]
      /\ local' = [local EXCEPT ![c] = n]
      /\ pubkey' = [pubkey EXCEPT ![c] = NoKey]
      /\ ann' = [v \in Viewer |-> IF v = c THEN [m \in Address |-> "none"] ELSE ann[v]]
      /\ known' = [v \in Viewer |-> IF v = c THEN NoTable ELSE known[v]]
      /\ UNCHANGED <<members, registered, hide, draft, blurred, legacy, login, restored>>
  BY DEF Connect, Claim, Goto, Connected, upgrades
<1>2. c \notin members /\ \A d \in Session : holds[d] # n
  BY <1>1 DEF PTypeOK, Free
<1>3. \A d \in Session : Connected(d)' <=> Connected(d) \/ d = c
  BY <1>1 DEF Connected, PTypeOK
<1>4. PTypeOK'
  BY <1>1, <1>2, <1>3 DEF PTypeOK, Handler, NoTable
<1>5. OneHolder' /\ MembersAct' /\ LocalIsName' /\ TellsTrue'
  BY <1>1, <1>2, <1>3 DEF OneHolder, MembersAct, LocalIsName, TellsTrue, PTypeOK
<1>6. \A d \in members : d # c /\ holds'[d] = holds[d] /\ pc'[d] = pc[d] /\ pubkey'[d] = pubkey[d]
  BY <1>1, <1>2 DEF PTypeOK
<1>7. OnJustified'
  <2> SUFFICES ASSUME NEW v \in Viewer, NEW m \in Address,
                      Connected(v)', m \notin blurred, ann'[v][m] = "on"
               PROVE  \/ \E d \in members : holds'[d] = m
                      \/ \E x \in Session : pc'[x] = "gone" /\ local'[x] = m
    BY <1>1 DEF OnJustified
  <2>1. v # c /\ Connected(v) /\ ann[v][m] = "on"
    BY <1>1, <1>3
  <2>2. \/ \E d \in members : holds[d] = m
        \/ \E x \in Session : pc[x] = "gone" /\ local[x] = m
    BY <2>1 DEF OnJustified
  <2> QED
    BY <1>1, <1>6, <2>2 DEF PTypeOK
<1>8. OffJustified'
  BY <1>1, <1>3, <1>6, MembersHold DEF OffJustified
<1>9. KeyOnItsWay'
  BY <1>1, <1>2, <1>6 DEF KeyOnItsWay, PTypeOK
<1> QED
  BY <1>4, <1>5, <1>7, <1>8, <1>9

\* Steps that move a handler without a word: pc, and what is listed.
LEMMA SignUpPInv ==
  ASSUME PInv, NEW c \in Session, SignUp(c) PROVE PInv'
<1> USE ViewerAssumption DEF PInv
<1>1. /\ pc[c] = "ready" /\ pc' = [pc EXCEPT ![c] = "registered"]
      /\ registered' = registered \cup {holds[c]}
      /\ UNCHANGED <<holds, members, local, pubkey, hide, draft, ann, known, blurred,
                     legacy, login, restored>>
  BY DEF SignUp, Register, Goto, views, upgrades
<1>2. PTypeOK'
  BY <1>1, MembersHold DEF PTypeOK, Handler, Connected
<1>3. OneHolder' /\ MembersAct' /\ LocalIsName' /\ TellsTrue'
  BY <1>1 DEF OneHolder, MembersAct, LocalIsName, TellsTrue, Connected, PTypeOK
<1>4. OnJustified'
  <2>1. \A y \in Session : pc[y] = "gone" => pc'[y] = "gone"
    BY <1>1 DEF PTypeOK
  <2> QED
    BY <1>1, <2>1 DEF OnJustified, Connected
<1>5. OffJustified'
  BY <1>1 DEF OffJustified, Speaking, Connected, PTypeOK
<1>6. KeyOnItsWay'
  BY <1>1 DEF KeyOnItsWay, PTypeOK
<1> QED
  BY <1>2, <1>3, <1>4, <1>5, <1>6

LEMMA LogInPInv ==
  ASSUME PInv, NEW c \in Session, LogIn(c) PROVE PInv'
<1> USE ViewerAssumption DEF PInv
<1>1. /\ pc[c] \in {"ready", "registered"} /\ pc' = [pc EXCEPT ![c] = "activate"]
      /\ members' = members \cup {c} /\ c \notin members
      /\ UNCHANGED <<holds, registered, local, pubkey, hide, draft, ann, known, blurred,
                     legacy, login, restored>>
  BY DEF LogIn, Admit, Goto, views, upgrades
<1>2. PTypeOK'
  BY <1>1 DEF PTypeOK, Handler, Connected
<1>3. OneHolder' /\ MembersAct' /\ LocalIsName' /\ TellsTrue'
  BY <1>1 DEF OneHolder, MembersAct, LocalIsName, TellsTrue, Connected, PTypeOK
<1>4. OnJustified'
  <2>1. \A y \in Session : pc[y] = "gone" => pc'[y] = "gone"
    BY <1>1 DEF PTypeOK
  <2> QED
    BY <1>1, <2>1 DEF OnJustified, Connected
<1>5. OffJustified'
  <2>1. \A d \in members' : pc'[d] \in Speaking \/ (d \in members /\ pc'[d] = pc[d])
    BY <1>1 DEF PTypeOK, Speaking
  <2> QED
    BY <1>1, <2>1 DEF OffJustified, Connected
<1>6. KeyOnItsWay'
  BY <1>1 DEF KeyOnItsWay, PTypeOK
<1> QED
  BY <1>2, <1>3, <1>4, <1>5, <1>6

\* A handler that goes on to a place where its greeting is no less to come
\* changes nothing about presence.
LEMMA QuietStep ==
  ASSUME PInv, NEW c \in Session, NEW l, pc' = [pc EXCEPT ![c] = l], pc[c] # "gone",
         pc[c] \in Speaking => l \in Speaking,
         UNCHANGED <<holds, members, local, ann, hide, blurred, restored>>
  PROVE  OnJustified' /\ OffJustified'
<1>1. OnJustified'
  <2>1. \A y \in Session : pc[y] = "gone" => pc'[y] = "gone"
    BY DEF PInv, PTypeOK
  <2> QED
    BY <2>1 DEF PInv, OnJustified, Connected
<1>2. OffJustified'
  BY ViewerAssumption DEF PInv, OffJustified, Speaking, Connected, PTypeOK
<1> QED
  BY <1>1, <1>2

LEMMA PublishKeyPInv ==
  ASSUME PInv, NEW c \in Session, NEW k \in Key, PublishKey(c, k) PROVE PInv'
<1> USE ViewerAssumption DEF PInv
<1> DEFINE l == IF c \in members /\ pubkey[c] = NoKey THEN "republish" ELSE "ready"
<1>1. /\ pc[c] = "ready" /\ pc' = [pc EXCEPT ![c] = l]
      /\ pubkey' = [pubkey EXCEPT ![c] = k]
      /\ UNCHANGED <<holds, members, registered, local, hide, draft, ann, known, blurred,
                     legacy, login, restored>>
  BY DEF PublishKey, Goto, views, dvars, upgrades
<1>2. PTypeOK'
  BY <1>1 DEF PTypeOK, Handler, Connected
<1>3. OneHolder' /\ MembersAct' /\ LocalIsName' /\ TellsTrue'
  BY <1>1 DEF OneHolder, MembersAct, LocalIsName, TellsTrue, Connected, PTypeOK
<1>4. OnJustified' /\ OffJustified'
  BY <1>1, QuietStep DEF Speaking
<1>5. KeyOnItsWay'
  BY <1>1 DEF KeyOnItsWay, PTypeOK
<1> QED
  BY <1>2, <1>3, <1>4, <1>5

LEMMA ReadTablePInv ==
  ASSUME PInv, NEW c \in Session, ReadTable(c) PROVE PInv'
<1> USE ViewerAssumption DEF PInv
<1> DEFINE l == IF pc[c] = "activate" THEN "table" ELSE "retable"
<1>1. /\ pc[c] \in {"activate", "republish"} /\ pc' = [pc EXCEPT ![c] = l]
      /\ draft' = [draft EXCEPT ![c] = PubKeys]
      /\ UNCHANGED <<holds, members, registered, local, pubkey, hide, ann, known, blurred,
                     legacy, login, restored>>
  BY DEF ReadTable, Goto, views, dvars, upgrades
<1>2. /\ PubKeys \in [Address -> Key \cup {NoKey}]
      /\ \A d \in members : pubkey[d] # NoKey => PubKeys[holds[d]] # NoKey
  BY PubKeysHave
<1>3. PTypeOK'
  BY <1>1, <1>2 DEF PTypeOK, Handler, Connected
<1>4. OneHolder' /\ MembersAct' /\ LocalIsName' /\ TellsTrue'
  BY <1>1 DEF OneHolder, MembersAct, LocalIsName, TellsTrue, Connected, PTypeOK
<1>5. OnJustified' /\ OffJustified'
  BY <1>1, QuietStep DEF Speaking
<1>6. KeyOnItsWay'
  BY <1>1, <1>2 DEF KeyOnItsWay, PTypeOK
<1> QED
  BY <1>3, <1>4, <1>5, <1>6

LEMMA SendTablePInv ==
  ASSUME PInv, NEW c \in Session, SendTable(c) PROVE PInv'
<1> USE ViewerAssumption DEF PInv
<1> DEFINE l == IF pc[c] = "table" THEN "new" ELSE "renew"
<1>1. /\ pc[c] \in {"table", "retable"} /\ pc' = [pc EXCEPT ![c] = l]
      /\ draft' = [draft EXCEPT ![c] = NoTable]
      /\ known' = [v \in Viewer |->
                     IF v = c THEN [n \in Address |-> IF draft[c][n] # NoKey THEN draft[c][n]
                                                                             ELSE known[c][n]]
                              ELSE known[v]]
      /\ UNCHANGED <<holds, members, registered, local, pubkey, hide, ann, blurred,
                     legacy, login, restored>>
  BY DEF SendTable, Goto, dvars, upgrades
<1>2. PTypeOK'
  BY <1>1 DEF PTypeOK, Handler, Connected, NoTable
<1>3. OneHolder' /\ MembersAct' /\ LocalIsName' /\ TellsTrue'
  BY <1>1 DEF OneHolder, MembersAct, LocalIsName, TellsTrue, Connected, PTypeOK
<1>4. OnJustified' /\ OffJustified'
  BY <1>1, QuietStep DEF Speaking
<1>5. KeyOnItsWay'
  BY <1>1, MembersHold DEF KeyOnItsWay, PTypeOK
<1> QED
  BY <1>2, <1>3, <1>4, <1>5

LEMMA AnnounceKeyPInv ==
  ASSUME PInv, NEW c \in Session, AnnounceKey(c) PROVE PInv'
<1> USE ViewerAssumption DEF PInv
<1> DEFINE l == IF pc[c] = "new" THEN "greet" ELSE "ready"
<1>1. /\ pc[c] \in {"new", "renew"} /\ pc' = [pc EXCEPT ![c] = l]
      /\ known' = Tell(known, Session \ {c}, holds[c], pubkey[c])
      /\ UNCHANGED <<holds, members, registered, local, pubkey, hide, draft, ann, blurred,
                     legacy, login, restored>>
  BY DEF AnnounceKey, Goto, dvars, upgrades
<1>2. Connected(c) /\ holds[c] \in Address
  BY <1>1, MembersHold DEF PTypeOK
<1>3. /\ known' \in [Viewer -> [Address -> Key \cup {NoKey}]]
      /\ \A w \in Viewer : Connected(w) /\ w # c => known'[w][holds[c]] = pubkey[c]
      /\ \A w \in Viewer, m \in Address :
           m # holds[c] \/ w = c \/ ~Connected(w) => known'[w][m] = known[w][m]
  <2>1. pubkey[c] \in Key \cup {NoKey} /\ known \in [Viewer -> [Address -> Key \cup {NoKey}]]
    BY DEF PTypeOK
  <2>2. known' = [w \in Viewer |-> IF Connected(w) /\ w # c
                                   THEN [known[w] EXCEPT ![holds[c]] = pubkey[c]]
                                   ELSE known[w]]
    BY <1>1, ViewerAssumption DEF Tell
  <2> QED
    BY <1>2, <2>1, <2>2
<1>4. PTypeOK'
  BY <1>1, <1>3 DEF PTypeOK, Handler, Connected
<1>5. OneHolder' /\ MembersAct' /\ LocalIsName' /\ TellsTrue'
  BY <1>1 DEF OneHolder, MembersAct, LocalIsName, TellsTrue, Connected, PTypeOK
<1>6. OnJustified' /\ OffJustified'
  BY <1>1, QuietStep DEF Speaking
<1>7. KeyOnItsWay'
  <2> SUFFICES ASSUME NEW v \in Viewer, NEW d \in members, v # d, v \in members,
                      pubkey[d] # NoKey, holds[d] \notin blurred
               PROVE  \/ known'[v][holds[d]] # NoKey
                      \/ pc'[v] = "activate"
                      \/ pc'[v] = "table" /\ draft[v][holds[d]] # NoKey
                      \/ pc'[d] \in {"activate", "table", "new", "republish", "retable", "renew"}
    BY <1>1 DEF KeyOnItsWay
  <2>1. d \in Session /\ v \in Session /\ Connected(d) /\ Connected(v) /\ holds[d] \in Address
    BY MembersHold
  <2>2. CASE d = c
    BY <1>3, <2>1, <2>2
  <2>3. CASE d # c
    <3>1. holds[d] # holds[c]
      BY <1>2, <2>1, <2>3 DEF OneHolder
    <3>2. known'[v][holds[d]] = known[v][holds[d]]
      BY <1>3, <2>1, <3>1
    <3> QED
      BY <1>1, <2>1, <2>3, <3>2 DEF KeyOnItsWay, PTypeOK
  <2> QED
    BY <2>2, <2>3
<1> QED
  BY <1>4, <1>5, <1>6, <1>7

LEMMA AnnounceOnlinePInv ==
  ASSUME PInv, NEW c \in Session, AnnounceOnline(c) PROVE PInv'
<1> USE ViewerAssumption DEF PInv
<1>1. /\ pc[c] = "greet" /\ pc' = [pc EXCEPT ![c] = "ready"] /\ Announce(holds[c], "on")
      /\ UNCHANGED <<holds, members, registered, local, pubkey, hide, draft, blurred,
                     legacy, login, restored>>
  BY DEF AnnounceOnline, Goto, dvars, upgrades
<1>2. c \in members /\ holds[c] \in Address
  BY <1>1, MembersHold DEF MembersAct
<1>3. /\ ann' \in [Viewer -> [Address -> {"none", "on", "off"}]]
      /\ \A w \in Viewer : Connected(w) => ann'[w][holds[c]] = "on"
      /\ \A w \in Viewer, m \in Address :
           m # holds[c] \/ ~Connected(w) => ann'[w][m] = ann[w][m]
      /\ known' = known
  BY <1>1, <1>2, AnnounceChanges
<1>4. PTypeOK'
  BY <1>1, <1>3 DEF PTypeOK, Handler, Connected
<1>5. OneHolder' /\ MembersAct' /\ LocalIsName' /\ TellsTrue'
  BY <1>1 DEF OneHolder, MembersAct, LocalIsName, TellsTrue, Connected, PTypeOK
<1>6. OnJustified'
  <2> SUFFICES ASSUME NEW v \in Viewer, NEW m \in Address,
                      Connected(v), m \notin blurred, ann'[v][m] = "on"
               PROVE  \/ \E d \in members : holds[d] = m
                      \/ \E y \in Session : pc'[y] = "gone" /\ local[y] = m
    BY <1>1 DEF OnJustified, Connected
  <2>1. CASE m = holds[c]
    BY <1>2, <2>1
  <2>2. CASE m # holds[c]
    <3>1. \/ \E d \in members : holds[d] = m
          \/ \E y \in Session : pc[y] = "gone" /\ local[y] = m
      BY <1>3, <2>2 DEF OnJustified
    <3>2. \A y \in Session : pc[y] = "gone" => pc'[y] = "gone"
      BY <1>1 DEF PTypeOK
    <3> QED
      BY <3>1, <3>2
  <2> QED
    BY <2>1, <2>2
<1>7. OffJustified'
  <2> SUFFICES ASSUME NEW v \in Viewer, NEW d \in members,
                      Connected(v), holds[d] \notin blurred, ann'[v][holds[d]] = "off"
               PROVE  hide[holds[d]] \/ d \in restored \/ pc'[d] \in Speaking
    BY <1>1 DEF OffJustified, Speaking, Connected
  <2>1. CASE holds[d] = holds[c]
    BY <1>2, <1>3, <2>1
  <2>2. CASE holds[d] # holds[c]
    <3>1. d # c /\ d \in Session /\ holds[d] \in Address
      BY <2>2, MembersHold
    <3>2. ann[v][holds[d]] = "off" /\ pc'[d] = pc[d]
      BY <1>1, <1>3, <2>2, <3>1 DEF PTypeOK
    <3> QED
      BY <3>2 DEF OffJustified, Speaking
  <2> QED
    BY <2>1, <2>2
<1>8. KeyOnItsWay'
  BY <1>1, <1>3 DEF KeyOnItsWay, PTypeOK
<1> QED
  BY <1>4, <1>5, <1>6, <1>7, <1>8

LEMMA AnnounceProfilePInv ==
  ASSUME PInv, NEW c \in Session, AnnounceProfile(c) PROVE PInv'
<1> USE ViewerAssumption DEF PInv
<1> DEFINE x == IF pc[c] = "sayoff" THEN "off" ELSE "on"
<1>1. /\ pc[c] \in {"sayoff", "sayon"} /\ pc' = [pc EXCEPT ![c] = "ready"] /\ Announce(holds[c], x)
      /\ UNCHANGED <<holds, members, registered, local, pubkey, hide, draft, blurred,
                     legacy, login, restored>>
  BY DEF AnnounceProfile, Goto, dvars, upgrades
<1>2. /\ c \in members /\ holds[c] \in Address /\ x \in {"on", "off"}
      /\ (x = "off" => hide[holds[c]] \/ c \in restored)
  BY <1>1, MembersHold DEF MembersAct, TellsTrue
<1> HIDE DEF x
<1>3. /\ ann' \in [Viewer -> [Address -> {"none", "on", "off"}]]
      /\ \A w \in Viewer : Connected(w) => ann'[w][holds[c]] = x
      /\ \A w \in Viewer, m \in Address :
           m # holds[c] \/ ~Connected(w) => ann'[w][m] = ann[w][m]
      /\ known' = known
  BY <1>1, <1>2, AnnounceChanges
<1>4. PTypeOK'
  BY <1>1, <1>3 DEF PTypeOK, Handler, Connected
<1>5. OneHolder' /\ MembersAct' /\ LocalIsName' /\ TellsTrue'
  BY <1>1 DEF OneHolder, MembersAct, LocalIsName, TellsTrue, Connected, PTypeOK
<1>6. OnJustified'
  <2> SUFFICES ASSUME NEW v \in Viewer, NEW m \in Address,
                      Connected(v), m \notin blurred, ann'[v][m] = "on"
               PROVE  \/ \E d \in members : holds[d] = m
                      \/ \E y \in Session : pc'[y] = "gone" /\ local[y] = m
    BY <1>1 DEF OnJustified, Connected
  <2>1. CASE m = holds[c]
    BY <1>2, <2>1
  <2>2. CASE m # holds[c]
    <3>1. \/ \E d \in members : holds[d] = m
          \/ \E y \in Session : pc[y] = "gone" /\ local[y] = m
      BY <1>3, <2>2 DEF OnJustified
    <3>2. \A y \in Session : pc[y] = "gone" => pc'[y] = "gone"
      BY <1>1 DEF PTypeOK
    <3> QED
      BY <3>1, <3>2
  <2> QED
    BY <2>1, <2>2
<1>7. OffJustified'
  <2> SUFFICES ASSUME NEW v \in Viewer, NEW d \in members,
                      Connected(v), holds[d] \notin blurred, ann'[v][holds[d]] = "off"
               PROVE  hide[holds[d]] \/ d \in restored \/ pc'[d] \in Speaking
    BY <1>1 DEF OffJustified, Speaking, Connected
  <2>1. CASE holds[d] = holds[c]
    <3>1. d = c
      BY <1>2, <2>1, MembersHold DEF OneHolder
    <3> QED
      BY <1>2, <1>3, <3>1
  <2>2. CASE holds[d] # holds[c]
    <3>1. d # c /\ d \in Session /\ holds[d] \in Address
      BY <2>2, MembersHold
    <3>2. ann[v][holds[d]] = "off" /\ pc'[d] = pc[d]
      BY <1>1, <1>3, <2>2, <3>1 DEF PTypeOK
    <3> QED
      BY <3>2 DEF OffJustified, Speaking
  <2> QED
    BY <2>1, <2>2
<1>8. KeyOnItsWay'
  BY <1>1, <1>3 DEF KeyOnItsWay, PTypeOK
<1> QED
  BY <1>4, <1>5, <1>6, <1>7, <1>8

\* A rename touches only names that are blurred from then on.
LEMMA SetUsernamePInv ==
  ASSUME PInv, NEW c \in Session, NEW n \in Address, SetUsername(c, n) PROVE PInv'
<1> USE ViewerAssumption DEF PInv
<1> DEFINE old == holds[c]
<1>1. /\ pc[c] = "ready" /\ pc' = [pc EXCEPT ![c] = "greet"]
      /\ c \in members /\ Free(n) /\ n # old
      /\ holds' = [holds EXCEPT ![c] = n]
      /\ registered' = (registered \ {old}) \cup {n} /\ n \notin registered
      /\ legacy' = IF old \in legacy THEN (legacy \ {old}) \cup {n} ELSE legacy
      /\ hide' = [hide EXCEPT ![n] = hide[old], ![old] = FALSE]
      /\ blurred' = blurred \cup {n, old}
      /\ UNCHANGED <<members, local, pubkey, draft, ann, known, login, restored>>
  BY DEF SetUsername, Move, Goto, views, upgrades
<1>2. old \in Address /\ Connected(c) /\ \A d \in Session : holds[d] # n
  BY <1>1, MembersHold DEF Free
<1>3. \A d \in Session : Connected(d)' <=> Connected(d)
  BY <1>1, <1>2, NobodyAssumption DEF Connected, PTypeOK
<1>4. PTypeOK'
  <2>1. hide' \in [Address -> BOOLEAN]
    BY <1>1, <1>2 DEF PTypeOK
  <2>2. holds' \in [Session -> Address \cup {Nobody}] /\ registered' \in SUBSET Address
        /\ blurred' \in SUBSET Address /\ legacy' \in SUBSET registered'
    BY <1>1, <1>2 DEF PTypeOK
  <2>3. /\ pc' \in [Session -> Handler]
        /\ \A d \in Session : Connected(d)' <=> pc'[d] \notin {"idle", "gone"}
    BY <1>1, <1>3 DEF PTypeOK, Handler
  <2>4. members' \in SUBSET {d \in Session : Connected(d)'}
    BY <1>1, <1>3 DEF PTypeOK
  <2> QED
    BY <1>1, <2>1, <2>2, <2>3, <2>4 DEF PTypeOK
<1>5. \A d \in Session : d # c => holds'[d] = holds[d] /\ pc'[d] = pc[d] /\ holds[d] # old
  BY <1>1, <1>2 DEF PTypeOK, OneHolder
<1>6. holds'[c] = n /\ n \in blurred' /\ old \in blurred'
  BY <1>1, <1>2 DEF PTypeOK
<1>7. OneHolder' /\ MembersAct' /\ LocalIsName' /\ TellsTrue'
  BY <1>1, <1>2, <1>3, <1>5, <1>6 DEF OneHolder, MembersAct, LocalIsName, TellsTrue, PTypeOK
<1>8. \A m \in Address :
       m \notin blurred' => hide'[m] = hide[m] /\ m \notin blurred /\ m # n /\ m # old
  BY <1>1, <1>2 DEF PTypeOK
<1>9. OnJustified'
  <2> SUFFICES ASSUME NEW v \in Viewer, NEW m \in Address,
                      Connected(v)', m \notin blurred', ann[v][m] = "on"
               PROVE  \/ \E d \in members : holds'[d] = m
                      \/ \E x \in Session : pc'[x] = "gone" /\ local[x] = m
    BY <1>1 DEF OnJustified
  <2>1. \/ \E d \in members : holds[d] = m
        \/ \E x \in Session : pc[x] = "gone" /\ local[x] = m
    BY <1>3, <1>8 DEF OnJustified
  <2>2. CASE \E d \in members : holds[d] = m
    BY <1>5, <1>8, <2>2, MembersHold
  <2>3. CASE \E x \in Session : pc[x] = "gone" /\ local[x] = m
    BY <1>1, <1>5, <2>3
  <2> QED
    BY <2>1, <2>2, <2>3
<1>10. OffJustified'
  <2> SUFFICES ASSUME NEW v \in Viewer, NEW d \in members,
                      Connected(v)', holds'[d] \notin blurred', ann[v][holds'[d]] = "off"
               PROVE  hide'[holds'[d]] \/ d \in restored \/ pc'[d] \in Speaking
    BY <1>1 DEF OffJustified, Speaking
  <2>1. d # c /\ d \in Session /\ holds[d] \in Address
    BY <1>6, MembersHold
  <2> QED
    BY <1>3, <1>5, <1>8, <2>1 DEF OffJustified, Speaking
<1>11. KeyOnItsWay'
  <2> SUFFICES ASSUME NEW v \in Viewer, NEW d \in members, v # d, v \in members,
                      pubkey[d] # NoKey, holds'[d] \notin blurred'
               PROVE  \/ known[v][holds'[d]] # NoKey
                      \/ pc'[v] = "activate"
                      \/ pc'[v] = "table" /\ draft[v][holds'[d]] # NoKey
                      \/ pc'[d] \in {"activate", "table", "new", "republish", "retable", "renew"}
    BY <1>1 DEF KeyOnItsWay
  <2>1. d # c /\ d \in Session /\ holds[d] \in Address /\ v \in Session
    BY <1>6, MembersHold
  <2>2. \/ known[v][holds[d]] # NoKey
        \/ pc[v] = "activate"
        \/ pc[v] = "table" /\ draft[v][holds[d]] # NoKey
        \/ pc[d] \in {"activate", "table", "new", "republish", "retable", "renew"}
    BY <1>5, <1>8, <2>1 DEF KeyOnItsWay
  <2> QED
    BY <1>1, <1>5, <2>1, <2>2
<1> QED
  BY <1>4, <1>7, <1>9, <1>10, <1>11

LEMMA SetHidePInv ==
  ASSUME PInv, NEW c \in Session, NEW h \in BOOLEAN, SetHide(c, h) PROVE PInv'
<1> USE ViewerAssumption DEF PInv
<1>1. /\ pc[c] = "ready" /\ pc' = [pc EXCEPT ![c] = "profile"] /\ c \in members
      /\ hide' = [hide EXCEPT ![holds[c]] = h] /\ restored' = restored \ {c}
      /\ UNCHANGED <<holds, members, registered, local, pubkey, draft, ann, known, blurred,
                     legacy, login>>
  BY DEF SetHide, Goto, dvars, views, upgrades
<1>2. PTypeOK'
  BY <1>1 DEF PTypeOK, Handler, Connected
<1>3. OneHolder' /\ MembersAct' /\ LocalIsName' /\ TellsTrue'
  BY <1>1 DEF OneHolder, MembersAct, LocalIsName, TellsTrue, Connected, PTypeOK
<1>4. OnJustified'
  <2>1. \A y \in Session : pc[y] = "gone" => pc'[y] = "gone"
    BY <1>1 DEF PTypeOK
  <2> QED
    BY <1>1, <2>1 DEF OnJustified, Connected
<1>5. OffJustified'
  <2>1. \A d \in members : d # c => holds[d] # holds[c] /\ holds[d] \in Address
    BY <1>1, MembersHold DEF OneHolder
  <2> QED
    BY <1>1, <2>1 DEF OffJustified, Speaking, Connected, PTypeOK
<1>6. KeyOnItsWay'
  BY <1>1 DEF KeyOnItsWay, PTypeOK
<1> QED
  BY <1>2, <1>3, <1>4, <1>5, <1>6

LEMMA LeavePInv ==
  ASSUME PInv, NEW c \in Session, Leave(c) PROVE PInv'
<1> USE ViewerAssumption DEF PInv
<1>1. /\ pc[c] = "ready" /\ pc' = [pc EXCEPT ![c] = "gone"] /\ Connected(c)
      /\ holds' = [holds EXCEPT ![c] = Nobody] /\ members' = members \ {c}
      /\ restored' = restored \ {c}
      /\ UNCHANGED <<registered, local, pubkey, hide, draft, ann, known, blurred, legacy, login>>
  BY DEF Leave, Release, Goto, Connected, views, upgrades
<1>2. \A d \in Session : Connected(d)' <=> Connected(d) /\ d # c
  BY <1>1 DEF Connected, PTypeOK
<1>3. PTypeOK'
  BY <1>1, <1>2 DEF PTypeOK, Handler
<1>4. \A d \in Session : d # c => holds'[d] = holds[d] /\ pc'[d] = pc[d]
  BY <1>1 DEF PTypeOK
<1>5. OneHolder' /\ MembersAct' /\ LocalIsName' /\ TellsTrue'
  BY <1>1, <1>2, <1>4 DEF OneHolder, MembersAct, LocalIsName, TellsTrue, PTypeOK, Connected
<1>6. OnJustified'
  <2> SUFFICES ASSUME NEW v \in Viewer, NEW m \in Address,
                      Connected(v), m \notin blurred, ann[v][m] = "on"
               PROVE  \/ \E d \in members' : holds'[d] = m
                      \/ \E x \in Session : pc'[x] = "gone" /\ local[x] = m
    BY <1>1, <1>2 DEF OnJustified
  <2>1. CASE holds[c] = m
    <3>1. local[c] = m
      BY <1>1, <2>1 DEF LocalIsName
    <3>2. pc'[c] = "gone"
      BY <1>1 DEF PTypeOK
    <3> QED
      BY <3>1, <3>2
  <2>2. CASE holds[c] # m
    <3>1. \/ \E d \in members : holds[d] = m
          \/ \E x \in Session : pc[x] = "gone" /\ local[x] = m
      BY DEF OnJustified
    <3>2. CASE \E d \in members : holds[d] = m
      BY <1>1, <1>4, <2>2, <3>2, MembersHold
    <3>3. CASE \E x \in Session : pc[x] = "gone" /\ local[x] = m
      BY <1>1, <1>4, <3>3
    <3> QED
      BY <3>1, <3>2, <3>3
  <2> QED
    BY <2>1, <2>2
<1>7. \A d \in members' : d \in members /\ d # c /\ holds'[d] = holds[d] /\ pc'[d] = pc[d]
  BY <1>1, <1>4, MembersHold
<1>8. OffJustified'
  BY <1>1, <1>2, <1>7 DEF OffJustified
<1>9. KeyOnItsWay'
  BY <1>1, <1>7 DEF KeyOnItsWay
<1> QED
  BY <1>3, <1>5, <1>6, <1>8, <1>9

\* The farewell is right about its name or blurs it.
LEMMA FarewellPInv ==
  ASSUME PInv, NEW c \in Session, Farewell(c) PROVE PInv'
<1> USE ViewerAssumption DEF PInv
<1> DEFINE n == local[c]
<1>1. /\ pc[c] = "gone" /\ pc' = [pc EXCEPT ![c] = "idle"] /\ Announce(n, "off")
      /\ blurred' = IF Free(n) THEN blurred ELSE blurred \cup {n}
      /\ UNCHANGED <<holds, members, registered, local, pubkey, hide, draft,
                     legacy, login, restored>>
      /\ n \in Address
  BY DEF Farewell, Goto, dvars, LocalIsName, upgrades
<1>2. /\ ann' \in [Viewer -> [Address -> {"none", "on", "off"}]]
      /\ \A w \in Viewer : Connected(w) => ann'[w][n] = "off"
      /\ \A w \in Viewer, m \in Address : m # n \/ ~Connected(w) => ann'[w][m] = ann[w][m]
      /\ known' = known
  BY <1>1, AnnounceChanges
<1>3. blurred \subseteq blurred' /\ blurred' \in SUBSET Address
      /\ (n \notin blurred' => \A d \in Session : holds[d] # n)
  BY <1>1 DEF Free, PTypeOK
<1>4. PTypeOK'
  BY <1>1, <1>2, <1>3 DEF PTypeOK, Handler, Connected
<1>5. OneHolder' /\ MembersAct' /\ LocalIsName' /\ TellsTrue'
  BY <1>1, <1>3 DEF OneHolder, MembersAct, LocalIsName, TellsTrue, Connected, PTypeOK
<1>6. OnJustified'
  <2> SUFFICES ASSUME NEW v \in Viewer, NEW m \in Address,
                      Connected(v), m \notin blurred', ann'[v][m] = "on"
               PROVE  \/ \E d \in members : holds[d] = m
                      \/ \E y \in Session : pc'[y] = "gone" /\ local[y] = m
    BY <1>1 DEF OnJustified, Connected
  <2>1. m # n /\ ann[v][m] = "on" /\ m \notin blurred
    BY <1>2, <1>3
  <2>2. \/ \E d \in members : holds[d] = m
        \/ \E y \in Session : pc[y] = "gone" /\ local[y] = m
    BY <2>1 DEF OnJustified
  <2>3. \A y \in Session : pc[y] = "gone" /\ local[y] = m => pc'[y] = "gone"
    BY <1>1, <2>1 DEF PTypeOK
  <2> QED
    BY <2>2, <2>3
<1>7. \A d \in members : holds[d] \notin blurred' =>
        /\ holds[d] # n /\ holds[d] \notin blurred
        /\ \A v \in Viewer : ann'[v][holds[d]] = ann[v][holds[d]]
  BY <1>2, <1>3, MembersHold
<1>8. \A d \in members : pc'[d] = pc[d]
  BY <1>1, MembersHold DEF PTypeOK
<1>9. OffJustified'
  BY <1>1, <1>7, <1>8 DEF OffJustified, Speaking, Connected
<1>10. KeyOnItsWay'
  BY <1>1, <1>2, <1>7, <1>8 DEF KeyOnItsWay
<1> QED
  BY <1>4, <1>5, <1>6, <1>9, <1>10

\* The steps of /setpassword, of a legacy login's copy and of isOnline.
LEMMA SetPasswordPInv ==
  ASSUME PInv, NEW c \in Session, SetPassword(c) PROVE PInv'
<1>1. /\ legacy' \subseteq legacy
      /\ UNCHANGED <<holds, members, registered, pc, local, pubkey, hide, login, draft, ann,
                     known, blurred, restored>>
  BY DEF SetPassword, dvars, views
<1>2. PTypeOK' /\ OneHolder' /\ MembersAct' /\ LocalIsName' /\ TellsTrue'
  BY <1>1 DEF PInv, PTypeOK, OneHolder, MembersAct, LocalIsName, TellsTrue, Connected
<1>3. OnJustified' /\ OffJustified' /\ KeyOnItsWay'
  BY <1>1 DEF PInv, OnJustified, OffJustified, KeyOnItsWay, Connected
<1> QED
  BY <1>2, <1>3 DEF PInv

LEMMA CopyLegacyPInv ==
  ASSUME PInv, NEW c \in Session, NEW n \in Address, CopyLegacy(c, n) PROVE PInv'
<1> USE ViewerAssumption DEF PInv
<1>1. /\ pc[c] = "ready" /\ pc' = [pc EXCEPT ![c] = "upgrade"]
      /\ login' = [login EXCEPT ![c] = [name |-> n, hide |-> hide[n]]]
      /\ UNCHANGED <<holds, members, registered, local, pubkey, hide, legacy, draft, ann, known,
                     blurred, restored>>
  BY DEF CopyLegacy, Goto, dvars, views
<1>2. PTypeOK'
  <2>1. login' \in [Session -> [name : Address \cup {Nobody}, hide : BOOLEAN]]
    BY <1>1 DEF PTypeOK
  <2>2. \A d \in Session : pc'[d] = "upgrade" => login'[d].name # Nobody
    BY <1>1, NobodyAssumption DEF PTypeOK
  <2> QED
    BY <1>1, <2>1, <2>2 DEF PTypeOK, Handler, Connected
<1>3. OneHolder' /\ MembersAct' /\ LocalIsName' /\ TellsTrue'
  BY <1>1 DEF OneHolder, MembersAct, LocalIsName, TellsTrue, Connected, PTypeOK
<1>4. OnJustified' /\ OffJustified'
  BY <1>1, QuietStep DEF Speaking
<1>5. KeyOnItsWay'
  BY <1>1 DEF KeyOnItsWay, PTypeOK
<1> QED
  BY <1>2, <1>3, <1>4, <1>5

LEMMA IsOnlinePInv ==
  ASSUME PInv, NEW c \in Session, IsOnline(c) PROVE PInv'
<1> USE ViewerAssumption DEF PInv
<1> DEFINE l == IF hide[holds[c]] THEN "sayoff" ELSE "sayon"
<1>1. /\ pc[c] = "profile" /\ pc' = [pc EXCEPT ![c] = l]
      /\ UNCHANGED <<holds, members, registered, local, pubkey, hide, draft, ann, known, blurred,
                     legacy, login, restored>>
  BY DEF IsOnline, Goto, dvars, views, upgrades
<1>2. PTypeOK'
  BY <1>1 DEF PTypeOK, Handler, Connected
<1>3. OneHolder' /\ MembersAct' /\ LocalIsName' /\ TellsTrue'
  BY <1>1 DEF OneHolder, MembersAct, LocalIsName, TellsTrue, Connected, PTypeOK
<1>4. OnJustified' /\ OffJustified'
  BY <1>1, QuietStep DEF Speaking
<1>5. KeyOnItsWay'
  BY <1>1 DEF KeyOnItsWay, PTypeOK
<1> QED
  BY <1>2, <1>3, <1>4, <1>5

\* The write-back changes hide of nobody, or of members it restores.
LEMMA UpgradeHashPInv ==
  ASSUME PInv, NEW c \in Session, UpgradeHash(c) PROVE PInv'
<1> USE ViewerAssumption DEF PInv
<1> DEFINE n == login[c].name
           l == IF n = holds[c] /\ c \notin members THEN "registered" ELSE "ready"
<1>1. /\ pc[c] = "upgrade" /\ pc' = [pc EXCEPT ![c] = l]
      /\ registered' = registered \cup {n}
      /\ hide' = [hide EXCEPT ![n] = login[c].hide]
      /\ legacy' = legacy \ {n}
      /\ restored' = IF hide[n] = login[c].hide
                     THEN restored ELSE restored \cup {d \in members : holds[d] = n}
      /\ login' = [login EXCEPT ![c] = NoLogin]
      /\ UNCHANGED <<holds, members, local, pubkey, draft, ann, known, blurred>>
  BY DEF UpgradeHash, Register, Goto, views
<1>2. n \in Address /\ login[c].hide \in BOOLEAN
  BY <1>1 DEF PTypeOK
<1> HIDE DEF n
<1>3. /\ restored \subseteq restored' /\ restored' \in SUBSET members
      /\ \A d \in members : hide'[holds[d]] = hide[holds[d]] \/ d \in restored'
  BY <1>1, <1>2, MembersHold DEF PTypeOK
<1>4. PTypeOK'
  <2>1. login' \in [Session -> [name : Address \cup {Nobody}, hide : BOOLEAN]]
    BY <1>1 DEF PTypeOK, NoLogin
  <2>2. \A d \in Session : pc'[d] = "upgrade" => login'[d].name # Nobody
    BY <1>1 DEF PTypeOK
  <2>3. hide' \in [Address -> BOOLEAN]
    BY <1>1, <1>2 DEF PTypeOK
  <2> QED
    BY <1>1, <1>2, <1>3, <2>1, <2>2, <2>3 DEF PTypeOK, Handler, Connected
<1>5. OneHolder' /\ MembersAct' /\ LocalIsName'
  BY <1>1 DEF OneHolder, MembersAct, LocalIsName, Connected, PTypeOK
<1>6. \A d \in Session : /\ pc[d] = "gone" => pc'[d] = "gone"
                         /\ pc[d] \in Speaking => pc'[d] = pc[d]
                         /\ pc'[d] = "sayoff" => pc[d] = "sayoff"
  BY <1>1 DEF PTypeOK, Speaking
<1>7. TellsTrue'
  BY <1>1, <1>3, <1>6 DEF TellsTrue, MembersAct
<1>8. OnJustified'
  BY <1>1, <1>6 DEF OnJustified, Connected
<1>9. OffJustified'
  BY <1>1, <1>3, <1>6, MembersHold DEF OffJustified, Connected
<1>10. KeyOnItsWay'
  BY <1>1 DEF KeyOnItsWay, PTypeOK
<1> QED
  BY <1>4, <1>5, <1>7, <1>8, <1>9, <1>10

LEMMA StepPInv == PInv /\ [PNext]_pvars => PInv'
<1> SUFFICES ASSUME PInv, [PNext]_pvars PROVE PInv'
  OBVIOUS
<1>1. CASE PNext
  <2> SUFFICES ASSUME NEW c \in Session,
                      \/ \E n \in Address : Connect(c, n) \/ SetUsername(c, n)
                      \/ SignUp(c) \/ LogIn(c)
                      \/ \E k \in Key : PublishKey(c, k)
                      \/ ReadTable(c) \/ SendTable(c)
                      \/ AnnounceKey(c) \/ AnnounceOnline(c)
                      \/ \E h \in BOOLEAN : SetHide(c, h)
                      \/ SetPassword(c) \/ \E n \in Address : CopyLegacy(c, n)
                      \/ UpgradeHash(c)
                      \/ IsOnline(c) \/ AnnounceProfile(c) \/ Leave(c) \/ Farewell(c)
               PROVE  PInv'
    BY <1>1 DEF PNext
  <2>1. CASE \E n \in Address : Connect(c, n) \/ SetUsername(c, n)
    BY <2>1, ConnectPInv, SetUsernamePInv
  <2>2. CASE SignUp(c) \/ LogIn(c)
    BY <2>2, SignUpPInv, LogInPInv
  <2>3. CASE \E k \in Key : PublishKey(c, k)
    BY <2>3, PublishKeyPInv
  <2>4. CASE ReadTable(c) \/ SendTable(c) \/ AnnounceKey(c)
    BY <2>4, ReadTablePInv, SendTablePInv, AnnounceKeyPInv
  <2>5. CASE AnnounceOnline(c) \/ AnnounceProfile(c)
    BY <2>5, AnnounceOnlinePInv, AnnounceProfilePInv
  <2>6. CASE \E h \in BOOLEAN : SetHide(c, h)
    BY <2>6, SetHidePInv
  <2>7. CASE Leave(c) \/ Farewell(c)
    BY <2>7, LeavePInv, FarewellPInv
  <2>8. CASE SetPassword(c) \/ (\E n \in Address : CopyLegacy(c, n)) \/ IsOnline(c)
    BY <2>8, SetPasswordPInv, CopyLegacyPInv, IsOnlinePInv
  <2>9. CASE UpgradeHash(c)
    BY <2>9, UpgradeHashPInv
  <2> QED
    BY <2>1, <2>2, <2>3, <2>4, <2>5, <2>6, <2>7, <2>8, <2>9
<1>2. CASE UNCHANGED pvars
  <2>1. UNCHANGED <<holds, members, registered, pc, local, pubkey, hide, legacy, login, draft, ann,
                   known, blurred, restored>>
    BY <1>2 DEF pvars
  <2>2. PTypeOK' /\ OneHolder' /\ MembersAct' /\ LocalIsName' /\ TellsTrue'
    BY <2>1 DEF PInv, PTypeOK, OneHolder, MembersAct, LocalIsName, TellsTrue, Connected
  <2>3. OnJustified' /\ OffJustified' /\ KeyOnItsWay'
    BY <2>1 DEF PInv, OnJustified, OffJustified, KeyOnItsWay, Connected
  <2> QED
    BY <2>2, <2>3 DEF PInv
<1> QED
  BY <1>1, <1>2

-----------------------------------------------------------------------------

\* What a client was told of a name: who is shown online is a member or has
\* its farewell to come, who is shown offline hides or has its greeting to
\* come; once the name's handlers have settled neither is left.
LEMMA SettledIsExact == PInv => PresenceIsExact
<1> SUFFICES ASSUME PInv, NEW v \in Viewer, NEW n \in Address,
                    Connected(v), n \notin blurred, ~Unsettled(n)
             PROVE  /\ ann[v][n] = "on" => \E d \in members : holds[d] = n
                    /\ ann[v][n] = "off" => \A d \in members : holds[d] = n => hide[n] \/ d \in restored
  BY DEF PresenceIsExact
<1>1. ann[v][n] = "on" => \E d \in members : holds[d] = n
  BY DEF PInv, OnJustified, Unsettled
<1>2. ASSUME NEW d \in members, ann[v][n] = "off", holds[d] = n PROVE hide[n] \/ d \in restored
  <2>1. pc[d] = "ready"
    BY <1>2, MembersHold DEF PInv, Unsettled
  <2> QED
    BY <1>2, <2>1 DEF PInv, OffJustified, Speaking
<1> QED
  BY <1>1, <1>2

\* Handlers stay within the states and types they are meant for, and a slot
\* is in `clients' exactly while its read loop runs (main.go:457-597).
THEOREM PresenceTypes == PSpec => []PTypeOK
<1>1. PInv => PTypeOK
  BY DEF PInv
<1> QED
  BY <1>1, InitPInv, StepPInv, PTL DEF PSpec

\* However the announcements of different handlers interleave, what every
\* client believes of a settled name is right (main.go:431-455, :597).
THEOREM PresenceSettles == PSpec => []PresenceIsExact
BY InitPInv, StepPInv, SettledIsExact, PTL DEF PSpec

\* Every active client has been told a key of every authorised client whose
\* R frame has been handled (main.go:445-455, :552-570).
THEOREM KeysReachAll == PSpec => []EveryKeyReaches
<1>1. PInv => EveryKeyReaches
  BY DEF PInv, EveryKeyReaches, KeyOnItsWay
<1> QED
  BY <1>1, InitPInv, StepPInv, PTL DEF PSpec

-----------------------------------------------------------------------------
(* MeshRooms: rooms, the members and the GUI *)

\* A creator on its way into its room knows the password.
CreatorsKnow == \A c \in Client : creating[c] # Absent =>
                  roomPw[creating[c]] \in Knows[c] \cup {NoPass}

\* Before a calm text that waits there are only texts, and the server has Me
\* in the text's room, so nothing can move Me before it is served.
CalmWaits ==
  \A i \in DOMAIN cmds : cmds[i].op = "text" /\ cmds[i].calm =>
    /\ cmds[i].room = room[Me]
    /\ creating[Me] = Absent
    /\ \A j \in 1 .. i : cmds[j].op = "text"

RInv == /\ RTypeOK
        /\ MembersKnowPassword
        /\ CreatorsKnow
        /\ RoomAgreement
        /\ CalmWaits
        /\ CalmTextInItsRoom

-----------------------------------------------------------------------------
(* Types of commands *)

LEMMA CmdFields ==
  ASSUME NEW m \in Cmd
  PROVE  /\ m.op \in {"join", "create"} => m.room \in Room /\ m.pass \in Typed(Me)
         /\ m.op = "text" => m.room \in Room /\ m.calm \in BOOLEAN
BY DEF Cmd, JoinCmd, CreateCmd, TextCmd, LeaveCmd

LEMMA CmdTypes ==
  ASSUME NEW r \in Room
  PROVE  /\ \A p \in Typed(Me) : Join(r, p) \in Cmd /\ Join(r, p).op = "join"
         /\ \A p \in Typed(Me) : [op |-> "create", room |-> r, pass |-> p] \in Cmd
         /\ \A b \in BOOLEAN : [op |-> "text", room |-> r, calm |-> b] \in Cmd
         /\ [op |-> "leave"] \in Cmd
<1>1. \A p \in Typed(Me) : Join(r, p) \in JoinCmd /\ Join(r, p).op = "join"
  BY DEF Join, JoinCmd
<1>2. \A p \in Typed(Me) : [op |-> "create", room |-> r, pass |-> p] \in CreateCmd
  BY DEF CreateCmd
<1>3. \A b \in BOOLEAN : [op |-> "text", room |-> r, calm |-> b] \in TextCmd
  BY DEF TextCmd
<1>4. [op |-> "leave"] \in LeaveCmd
  BY DEF LeaveCmd
<1> QED
  BY <1>1, <1>2, <1>3, <1>4 DEF Cmd

LEMMA AppendOne ==
  ASSUME NEW a, NEW b PROVE Append(<<a>>, b) = <<a, b>>
<1> DEFINE S == {a, b}
           s == Append(<<a>>, b)
           t == <<a, b>>
<1>1. <<a>> \in Seq(S) /\ t \in Seq(S)
  OBVIOUS
<1>2. s \in Seq(S) /\ Len(s) = 2 /\ s[1] = a /\ s[2] = b
  BY <1>1
<1>3. Len(t) = 2 /\ t[1] = a /\ t[2] = b
  OBVIOUS
<1> HIDE DEF s, t, S
<1>4. \A i \in 1 .. Len(s) : s[i] = t[i]
  BY <1>2, <1>3
<1>5. s = t
  BY <1>1, <1>2, <1>3, <1>4, SeqEqual
<1> QED
  BY <1>5 DEF s, t

\* The last of several events is the last of the rest.
LEMMA LastOfTail ==
  ASSUME NEW S, NEW s \in Seq(S), s # <<>>, Len(s) # 1
  PROVE  Tail(s) # <<>> /\ Tail(s)[Len(Tail(s))] = s[Len(s)]
<1>1. Len(s) \in Nat /\ Len(s) >= 2
  <2> DEFINE k == Len(s)
  <2>1. k \in Nat \ {0} /\ k # 1
    BY EmptySeq
  <2> HIDE DEF k
  <2>2. k \in Nat /\ k >= 2
    BY <2>1
  <2> QED
    BY <2>2 DEF k
<1>2. Tail(s) \in Seq(S) /\ Len(Tail(s)) = Len(s) - 1
  BY <1>1
<1>3. Tail(s) # <<>>
  BY <1>1, <1>2, EmptySeq
<1>4. \A i \in 1 .. Len(s) - 1 : Tail(s)[i] = s[i + 1]
  OBVIOUS
<1> QED
  BY <1>1, <1>2, <1>3, <1>4

(* The queue of commands *)

\* Serving the first command keeps the calm texts behind it safe: if it is
\* not a text there are none.
LEMMA ServedCalm ==
  ASSUME cmds \in Seq(Cmd), cmds # <<>>, cmds' = Tail(cmds), CalmWaits,
         Head(cmds).op = "text" => room'[Me] = room[Me] /\ creating'[Me] = creating[Me]
  PROVE  CalmWaits' /\ cmds' \in Seq(Cmd)
<1>1. /\ cmds' \in Seq(Cmd) /\ DOMAIN cmds' = 1 .. Len(cmds) - 1
      /\ \A i \in DOMAIN cmds' : i + 1 \in DOMAIN cmds /\ cmds'[i] = cmds[i + 1]
      /\ Head(cmds) = cmds[1]
  OBVIOUS
<1>2. SUFFICES ASSUME NEW i \in DOMAIN cmds', cmds'[i].op = "text", cmds'[i].calm
               PROVE  /\ cmds'[i].room = room'[Me]
                      /\ creating'[Me] = Absent
                      /\ \A j \in 1 .. i : cmds'[j].op = "text"
  BY <1>1 DEF CalmWaits
<1>3. /\ cmds[i + 1].room = room[Me]
      /\ creating[Me] = Absent
      /\ \A j \in 1 .. i + 1 : cmds[j].op = "text"
  BY <1>1, <1>2 DEF CalmWaits
<1>4. Head(cmds).op = "text"
  <2>1. 1 \in 1 .. i + 1 /\ Head(cmds) = cmds[1]
    BY <1>1
  <2> QED
    BY <1>3, <2>1
<1>5. \A j \in 1 .. i : j + 1 \in 1 .. i + 1 /\ cmds'[j] = cmds[j + 1]
  BY <1>1
<1> QED
  BY <1>1, <1>3, <1>4, <1>5

\* Sending commands: those that wait stay in front.
LEMMA SentCalm ==
  ASSUME cmds \in Seq(Cmd), CalmWaits, UNCHANGED <<room, creating>>,
         NEW s \in Seq(Cmd), Send(s),
         \A i \in DOMAIN s : s[i].op = "text" /\ s[i].calm =>
           /\ s[i].room = room[Me]
           /\ creating[Me] = Absent
           /\ \A j \in DOMAIN cmds : cmds[j].op = "text"
           /\ \A j \in 1 .. i : s[j].op = "text"
  PROVE  CalmWaits' /\ cmds' \in Seq(Cmd)
<1> DEFINE n == Len(cmds)
<1>1. cmds' = cmds \o s
  BY DEF Send
<1>2. /\ cmds' \in Seq(Cmd) /\ n \in Nat /\ Len(s) \in Nat
      /\ DOMAIN cmds = 1 .. n /\ DOMAIN s = 1 .. Len(s)
      /\ DOMAIN cmds' = 1 .. n + Len(s)
      /\ \A i \in 1 .. n : cmds'[i] = cmds[i]
      /\ \A i \in n + 1 .. n + Len(s) : cmds'[i] = s[i - n]
  BY <1>1
<1>3. SUFFICES ASSUME NEW i \in DOMAIN cmds', cmds'[i].op = "text", cmds'[i].calm
               PROVE  /\ cmds'[i].room = room[Me]
                      /\ creating[Me] = Absent
                      /\ \A j \in 1 .. i : cmds'[j].op = "text"
  BY <1>2 DEF CalmWaits
<1> HIDE DEF n
<1>4. CASE i \in 1 .. n
  <2>1. i \in DOMAIN cmds /\ cmds[i].op = "text" /\ cmds[i].calm
    BY <1>2, <1>3, <1>4
  <2>2. /\ cmds[i].room = room[Me]
        /\ creating[Me] = Absent
        /\ \A j \in 1 .. i : cmds[j].op = "text"
    BY <2>1 DEF CalmWaits
  <2>3. \A j \in 1 .. i : j \in 1 .. n
    BY <1>2, <1>4
  <2> QED
    BY <1>2, <1>4, <2>2, <2>3
<1>5. CASE i \in n + 1 .. n + Len(s)
  <2>1. i - n \in DOMAIN s /\ cmds'[i] = s[i - n]
    BY <1>2, <1>5
  <2>2. /\ s[i - n].room = room[Me]
        /\ creating[Me] = Absent
        /\ \A j \in DOMAIN cmds : cmds[j].op = "text"
        /\ \A j \in 1 .. i - n : s[j].op = "text"
    BY <1>3, <2>1
  <2>3. ASSUME NEW j \in 1 .. i PROVE cmds'[j].op = "text"
    <3>1. CASE j \in 1 .. n
      BY <1>2, <2>2, <3>1
    <3>2. CASE j \notin 1 .. n
      <4>1. j \in n + 1 .. n + Len(s) /\ j - n \in 1 .. i - n
        BY <1>2, <1>5, <3>2
      <4> QED
        BY <1>2, <2>2, <4>1
    <3> QED
      BY <3>1, <3>2
  <2> QED
    BY <2>1, <2>2, <2>3
<1> QED
  BY <1>2, <1>3, <1>4, <1>5

-----------------------------------------------------------------------------
(* The server *)

\* Commands of the others leave Me alone and give rooms no new password.
LEMMA OtherRInv ==
  ASSUME RInv, OtherNext PROVE RInv'
<1> USE DEF RInv
<1>1. PICK c \in Other :
        \/ \E r \in Room, p \in Typed(c) : OtherJoins(c, r, p)
        \/ \E r \in Room, p \in Typed(c) : OtherCreates(c, r, p)
        \/ OtherEnters(c)
        \/ OtherLeaves(c)
  BY DEF OtherNext
<1>2. c \in Client /\ c # Me /\ Me \in Client
  BY MeAssumption DEF Client
<1>3. UNCHANGED <<cmds, events, asked, gui, drifted>>
  BY <1>1 DEF OtherJoins, OtherCreates, OtherEnters, OtherLeaves
<1>4. \A d \in Client \ {c} : room'[d] = room[d] /\ creating'[d] = creating[d]
  BY <1>1, <1>2 DEF OtherJoins, OtherCreates, OtherEnters, OtherLeaves, Enter, Found, RTypeOK
<1>5. RTypeOK' /\ MembersKnowPassword' /\ CreatorsKnow'
  <2>1. CASE \E r \in Room, p \in Typed(c) : OtherJoins(c, r, p)
    BY <1>2, <1>3, <2>1, MainAssumption, PassAssumption, KnowsAssumption
       DEF OtherJoins, Admits, Enter, Typed, RTypeOK, MembersKnowPassword, CreatorsKnow, gui
  <2>2. CASE \E r \in Room, p \in Typed(c) : OtherCreates(c, r, p)
    <3>1. PICK r \in Room, p \in Typed(c) : OtherCreates(c, r, p)
      BY <2>2
    <3>2. p \in Pass \cup {NoPass} /\ p \in Knows[c] \cup {NoPass} /\ p # Absent
      BY <1>2, PassAssumption, KnowsAssumption DEF Typed
    <3>3. \A d \in Client : Absent \notin Knows[d] \cup {NoPass}
      BY PassAssumption, KnowsAssumption
    <3>4. room' = room /\ roomPw[r] = Absent /\ roomPw' = [roomPw EXCEPT ![r] = p]
          /\ creating' = [creating EXCEPT ![c] = r]
      BY <3>1 DEF OtherCreates, Found
    <3>5. RTypeOK'
      BY <1>2, <1>3, <3>2, <3>4 DEF RTypeOK, gui
    <3>6. MembersKnowPassword'
      BY <3>2, <3>3, <3>4 DEF RTypeOK, MembersKnowPassword
    <3>7. CreatorsKnow'
      BY <1>2, <3>2, <3>3, <3>4, MainAssumption DEF RTypeOK, CreatorsKnow
    <3> QED
      BY <3>5, <3>6, <3>7
  <2>3. CASE OtherEnters(c)
    BY <1>2, <1>3, <2>3 DEF OtherEnters, Enter, RTypeOK, MembersKnowPassword, CreatorsKnow, gui
  <2>4. CASE OtherLeaves(c)
    BY <1>2, <1>3, <2>4, MainAssumption
       DEF OtherLeaves, Enter, RTypeOK, MembersKnowPassword, CreatorsKnow, gui
  <2> QED
    BY <1>1, <2>1, <2>2, <2>3, <2>4
<1>6. room'[Me] = room[Me] /\ creating'[Me] = creating[Me]
  BY <1>2, <1>4
<1>7. RoomAgreement' /\ CalmWaits' /\ CalmTextInItsRoom'
  BY <1>3, <1>6 DEF RoomAgreement, Heard, CalmWaits, CalmTextInItsRoom, gui
<1> QED
  BY <1>5, <1>7

\* A confirmation makes the GUI's idea of the room the server's.
LEMMA ConfirmAgrees ==
  ASSUME RTypeOK, NEW r \in Room, Confirm(r), room'[Me] = r, current' = current
  PROVE  RoomAgreement' /\ events' \in Seq(Room) /\ drifted' = FALSE
<1>1. events' = Append(events, r) /\ events \in Seq(Room)
  BY DEF Confirm, RTypeOK
<1>2. events' \in Seq(Room) /\ events' # <<>> /\ events'[Len(events')] = r
  BY <1>1
<1> QED
  BY <1>2 DEF Confirm, RoomAgreement, Heard

\* What Next1 takes from the queue.
LEMMA Next1Facts ==
  ASSUME RInv, NEW op, Next1(op),
         op = "text" => UNCHANGED <<room, creating>>
  PROVE  /\ Head(cmds) \in Cmd /\ Head(cmds).op = op
         /\ CalmWaits' /\ cmds' \in Seq(Cmd)
         /\ asked = NoText /\ creating[Me] = Absent
<1>1. cmds \in Seq(Cmd) /\ cmds # <<>> /\ Head(cmds).op = op /\ cmds' = Tail(cmds)
  BY DEF Next1, RInv, RTypeOK
<1>2. CalmWaits' /\ cmds' \in Seq(Cmd)
  BY <1>1, ServedCalm DEF RInv
<1> QED
  BY <1>1, <1>2 DEF Next1

LEMMA MoveMe ==
  ASSUME RTypeOK, MembersKnowPassword, NEW r \in Room, Enter(Me, r), UNCHANGED roomPw,
         r # Main => roomPw[r] \in Knows[Me] \cup {NoPass}
  PROVE  /\ room' \in [Client -> Room] /\ room'[Me] = r
         /\ MembersKnowPassword'
<1>1. Me \in Client
  BY DEF Client
<1> QED
  BY <1>1 DEF Enter, RTypeOK, MembersKnowPassword

LEMMA HandleJoinRInv ==
  ASSUME RInv, HandleJoin PROVE RInv'
<1> USE DEF RInv
<1> DEFINE r == Head(cmds).room
           p == Head(cmds).pass
<1>1. /\ Next1("join") /\ Admits(r, p) /\ Enter(Me, r) /\ Confirm(r)
      /\ UNCHANGED <<roomPw, creating, asked, gui>>
  BY DEF HandleJoin
<1>2. /\ Head(cmds) \in Cmd /\ Head(cmds).op = "join"
      /\ CalmWaits' /\ cmds' \in Seq(Cmd)
  BY <1>1, Next1Facts
<1>3. r \in Room /\ p \in Typed(Me)
  BY <1>2, CmdFields
<1> HIDE DEF r, p
<1>4. r # Main => roomPw[r] \in Knows[Me] \cup {NoPass}
  BY <1>1, <1>3 DEF Admits, Typed
<1>5. room' \in [Client -> Room] /\ room'[Me] = r /\ MembersKnowPassword'
  BY <1>1, <1>3, <1>4, MoveMe
<1>6. RoomAgreement' /\ events' \in Seq(Room) /\ drifted' = FALSE
  BY <1>1, <1>3, <1>5, ConfirmAgrees DEF gui
<1>7. RTypeOK'
  BY <1>1, <1>2, <1>5, <1>6 DEF RTypeOK, gui
<1> QED
  BY <1>1, <1>2, <1>5, <1>6, <1>7 DEF CreatorsKnow, CalmTextInItsRoom

\* Refusals take a command and change nothing.
LEMMA RefuseRInv ==
  ASSUME RInv, RefuseJoin \/ RefuseCreate PROVE RInv'
<1> USE DEF RInv
<1>1. PICK op \in {"join", "create"} : Next1(op)
  BY DEF RefuseJoin, RefuseCreate
<1>2. UNCHANGED <<server, events, asked, gui, drifted>>
  BY DEF RefuseJoin, RefuseCreate
<1>3. CalmWaits' /\ cmds' \in Seq(Cmd)
  BY <1>1, Next1Facts
<1>4. RTypeOK'
  BY <1>2, <1>3 DEF RTypeOK, server, gui
<1> QED
  BY <1>2, <1>3, <1>4 DEF server, gui, MembersKnowPassword, CreatorsKnow, RoomAgreement, Heard,
     CalmTextInItsRoom

LEMMA HandleCreateRInv ==
  ASSUME RInv, HandleCreate PROVE RInv'
<1> USE DEF RInv
<1> DEFINE r == Head(cmds).room
           p == Head(cmds).pass
<1>1. /\ Next1("create") /\ Found(Me, r, p)
      /\ UNCHANGED <<room, events, asked, gui, drifted>>
  BY DEF HandleCreate
<1>2. /\ Head(cmds) \in Cmd /\ Head(cmds).op = "create"
      /\ CalmWaits' /\ cmds' \in Seq(Cmd)
  BY <1>1, Next1Facts
<1>3. r \in Room /\ p \in Typed(Me)
  BY <1>2, CmdFields
<1> HIDE DEF r, p
<1>4. Me \in Client /\ p \in Pass \cup {NoPass} /\ p \in Knows[Me] \cup {NoPass}
  BY <1>3, KnowsAssumption DEF Typed, Client
<1>5. \A d \in Client : Absent \notin Knows[d] \cup {NoPass}
  BY PassAssumption, KnowsAssumption
<1>6. /\ roomPw[r] = Absent /\ roomPw' = [roomPw EXCEPT ![r] = p]
      /\ creating' = [creating EXCEPT ![Me] = r]
  BY <1>1 DEF Found
<1>7. RTypeOK'
  BY <1>1, <1>2, <1>3, <1>4, <1>6 DEF RTypeOK, gui
<1>8. MembersKnowPassword'
  BY <1>1, <1>3, <1>5, <1>6 DEF RTypeOK, MembersKnowPassword
<1>9. CreatorsKnow'
  BY <1>3, <1>4, <1>5, <1>6, MainAssumption DEF RTypeOK, CreatorsKnow
<1> QED
  BY <1>1, <1>2, <1>7, <1>8, <1>9 DEF RoomAgreement, Heard, CalmTextInItsRoom, gui

LEMMA EnterCreatedRInv ==
  ASSUME RInv, EnterCreated PROVE RInv'
<1> USE DEF RInv
<1> DEFINE r == creating[Me]
<1>1. /\ r # Absent /\ Enter(Me, r) /\ Confirm(r)
      /\ creating' = [creating EXCEPT ![Me] = Absent]
      /\ UNCHANGED <<roomPw, cmds, asked, gui>>
  BY DEF EnterCreated
<1>2. Me \in Client /\ r \in Room /\ roomPw[r] \in Knows[Me] \cup {NoPass}
  BY <1>1 DEF RTypeOK, CreatorsKnow, Client
<1>3. CalmWaits'
  BY <1>1 DEF CalmWaits
<1> HIDE DEF r
<1>4. room' \in [Client -> Room] /\ room'[Me] = r /\ MembersKnowPassword'
  BY <1>1, <1>2, MoveMe
<1>5. RoomAgreement' /\ events' \in Seq(Room) /\ drifted' = FALSE
  BY <1>1, <1>2, <1>4, ConfirmAgrees DEF gui
<1>6. RTypeOK'
  BY <1>1, <1>4, <1>5 DEF RTypeOK, gui
<1>7. CreatorsKnow'
  BY <1>1, <1>2 DEF RTypeOK, CreatorsKnow
<1> QED
  BY <1>1, <1>3, <1>4, <1>5, <1>6, <1>7 DEF CalmTextInItsRoom

LEMMA HandleLeaveRInv ==
  ASSUME RInv, HandleLeave PROVE RInv'
<1> USE DEF RInv
<1>1. /\ Next1("leave") /\ Enter(Me, Main) /\ drifted' = (drifted \/ room[Me] # Main)
      /\ UNCHANGED <<roomPw, creating, events, asked, gui>>
  BY DEF HandleLeave
<1>2. CalmWaits' /\ cmds' \in Seq(Cmd)
  BY <1>1, Next1Facts
<1>3. room' \in [Client -> Room] /\ room'[Me] = Main /\ MembersKnowPassword'
  BY <1>1, MoveMe, MainAssumption
<1>4. RTypeOK'
  BY <1>1, <1>2, <1>3 DEF RTypeOK, gui
<1>5. RoomAgreement'
  BY <1>1, <1>3 DEF RoomAgreement, Heard, gui
<1> QED
  BY <1>1, <1>2, <1>3, <1>4, <1>5 DEF CreatorsKnow, CalmTextInItsRoom

\* A calm text that is served is still in its room.
LEMMA AskMembersRInv ==
  ASSUME RInv, AskMembers PROVE RInv'
<1> USE DEF RInv
<1> DEFINE m == Head(cmds)
<1>1. /\ Next1("text")
      /\ asked' = [label |-> m.room, room |-> room[Me], calm |-> m.calm,
                   to |-> {c \in Other : room[c] = room[Me]}]
      /\ UNCHANGED <<server, events, gui, drifted>>
  BY DEF AskMembers
<1>2. m \in Cmd /\ m.op = "text" /\ CalmWaits' /\ cmds' \in Seq(Cmd)
  BY <1>1, Next1Facts DEF server
<1>3. m.room \in Room /\ m.calm \in BOOLEAN
  BY <1>2, CmdFields
<1>4. m.calm => m.room = room[Me]
  <2>1. 1 \in DOMAIN cmds /\ m = cmds[1]
    BY <1>1 DEF Next1, RTypeOK
  <2> QED
    BY <1>2, <2>1 DEF CalmWaits
<1> HIDE DEF m
<1>5. asked' \in Text
  BY <1>1, <1>3 DEF Text, RTypeOK, Client
<1>6. CalmTextInItsRoom'
  BY <1>1, <1>4 DEF CalmTextInItsRoom
<1>7. RTypeOK'
  BY <1>1, <1>2, <1>5 DEF RTypeOK, server, gui
<1> QED
  BY <1>1, <1>2, <1>6, <1>7 DEF server, gui, MembersKnowPassword, CreatorsKnow, RoomAgreement, Heard

LEMMA SendTextRInv ==
  ASSUME RInv, SendText PROVE RInv'
BY DEF RInv, SendText, RTypeOK, server, gui, MembersKnowPassword, CreatorsKnow, RoomAgreement,
   Heard, CalmWaits, CalmTextInItsRoom

-----------------------------------------------------------------------------
(* The GUI *)

\* Steps that only send, commands that cannot be mistaken for calm texts.
LEMMA SendRInv ==
  ASSUME RInv, NEW s \in Seq(Cmd), Send(s),
         UNCHANGED <<server, events, asked, current, chats, drifted>>, active' \in chats,
         \A i \in DOMAIN s : s[i].op = "text" /\ s[i].calm =>
           /\ s[i].room = room[Me]
           /\ creating[Me] = Absent
           /\ \A j \in DOMAIN cmds : cmds[j].op = "text"
           /\ \A j \in 1 .. i : s[j].op = "text"
  PROVE  RInv'
<1> USE DEF RInv
<1>1. CalmWaits' /\ cmds' \in Seq(Cmd)
  BY SentCalm DEF server, RTypeOK
<1>2. RTypeOK'
  BY <1>1 DEF RTypeOK, server
<1> QED
  BY <1>1, <1>2 DEF server, MembersKnowPassword, CreatorsKnow, RoomAgreement, Heard,
     CalmTextInItsRoom

\* One command that is no text.
LEMMA SendOneRInv ==
  ASSUME RInv, NEW m \in Cmd, m.op # "text", Send(<<m>>),
         UNCHANGED <<server, events, asked, current, chats, drifted>>, active' \in chats
  PROVE  RInv'
<1>1. <<m>> \in Seq(Cmd) /\ \A i \in DOMAIN <<m>> : <<m>>[i] = m
  OBVIOUS
<1> QED
  BY <1>1, SendRInv

LEMMA SwitchRInv ==
  ASSUME RInv, NEW r \in Room, Switch(r) PROVE RInv'
<1>1. /\ UNCHANGED <<server, events, asked, current, chats, drifted>>
      /\ active' \in chats /\ Send(JoinFirst(r))
  BY DEF Switch
<1>2. CASE current # r
  <2>1. JoinFirst(r) = <<Join(r, NoPass)>>
    BY <1>2 DEF JoinFirst
  <2>2. Join(r, NoPass) \in Cmd /\ Join(r, NoPass).op # "text"
    BY CmdTypes DEF Typed
  <2> QED
    BY <1>1, <2>1, <2>2, SendOneRInv
<1>3. CASE current = r
  <2>1. JoinFirst(r) = <<>>
    BY <1>3 DEF JoinFirst
  <2>2. <<>> \in Seq(Cmd) /\ DOMAIN <<>> = {}
    BY EmptySeq
  <2> QED
    BY <1>1, <2>1, <2>2, SendRInv
<1> QED
  BY <1>2, <1>3

LEMMA DialogRInv ==
  ASSUME RInv, NEW r \in Room, NEW p \in Typed(Me), JoinDialog(r, p) \/ CreateDialog(r, p)
  PROVE  RInv'
<1>1. PICK m \in Cmd : m.op # "text" /\ Send(<<m>>)
  <2>1. CASE JoinDialog(r, p)
    <3>1. Join(r, p) \in Cmd /\ Join(r, p).op # "text"
      BY CmdTypes
    <3> QED
      BY <2>1, <3>1 DEF JoinDialog
  <2>2. CASE CreateDialog(r, p)
    <3> DEFINE m == [op |-> "create", room |-> r, pass |-> p]
    <3>1. m \in Cmd /\ m.op # "text"
      BY CmdTypes
    <3> QED
      BY <2>2, <3>1 DEF CreateDialog
  <2> QED
    BY <2>1, <2>2
<1>2. UNCHANGED <<server, events, asked, gui, drifted>>
  BY DEF JoinDialog, CreateDialog
<1>3. active' \in chats
  BY <1>2 DEF RInv, RTypeOK, gui
<1> QED
  BY <1>1, <1>2, <1>3, SendOneRInv DEF gui

LEMMA TypeLeaveRInv ==
  ASSUME RInv, TypeLeave PROVE RInv'
<1> DEFINE m == [op |-> "leave"]
<1>1. m \in Cmd /\ m.op # "text"
  BY CmdTypes, MainAssumption
<1>2. active' \in chats /\ Send(<<m>>) /\ UNCHANGED <<server, events, asked, gui, drifted>>
  BY DEF TypeLeave, RInv, RTypeOK, gui
<1> HIDE DEF m
<1> QED
  BY <1>1, <1>2, SendOneRInv DEF gui

\* A text is calm only when nothing is before it but texts and GUI and
\* server agree on the room.
LEMMA CalmIsSafe ==
  ASSUME RInv, NEW r \in Room, Calm(r)
  PROVE  /\ r = room[Me] /\ creating[Me] = Absent
         /\ \A j \in DOMAIN cmds : cmds[j].op = "text"
         /\ current = r
BY DEF RInv, RoomAgreement, Heard, Calm

LEMMA TextRInv ==
  ASSUME RInv, TypeText \/ SendFile PROVE RInv'
<1> DEFINE m == TextTo(active)
           j == Join(active, NoPass)
<1>1. active \in Room /\ active \in chats
  BY DEF RInv, RTypeOK
<1>2. m \in Cmd /\ m.op = "text" /\ m.room = active /\ m.calm = Calm(active)
  <2>1. Calm(active) \in BOOLEAN
    BY DEF Calm
  <2> QED
    BY <1>1, <2>1, CmdTypes DEF TextTo
<1>3. j \in Cmd /\ j.op # "text"
  BY <1>1, CmdTypes DEF Typed
<1>4. m.calm => /\ m.room = room[Me] /\ creating[Me] = Absent
                /\ \A i \in DOMAIN cmds : cmds[i].op = "text"
                /\ current = active
  BY <1>1, <1>2, CalmIsSafe
<1>5. /\ UNCHANGED <<server, events, asked, gui, drifted>>
      /\ Send(<<m>>) \/ (current # active /\ Send(<<j, m>>))
  <2>1. CASE SendFile
    BY <2>1 DEF SendFile
  <2>2. CASE TypeText /\ current = active
    BY <2>2 DEF TypeText, JoinFirst
  <2>3. CASE TypeText /\ current # active
    <3>1. Append(<<j>>, m) = <<j, m>>
      BY AppendOne
    <3> QED
      BY <2>3, <3>1 DEF TypeText, JoinFirst
  <2> QED
    BY <2>1, <2>2, <2>3
<1> HIDE DEF m, j
<1>6. active' \in chats
  BY <1>1, <1>5 DEF gui
<1>7. CASE Send(<<m>>)
  <2>1. <<m>> \in Seq(Cmd) /\ DOMAIN <<m>> = {1} /\ <<m>>[1] = m /\ 1 .. 1 = {1}
    BY <1>2
  <2> QED
    BY <1>2, <1>4, <1>5, <1>6, <1>7, <2>1, SendRInv DEF gui
<1>8. CASE current # active /\ Send(<<j, m>>)
  <2>1. /\ <<j, m>> \in Seq(Cmd) /\ DOMAIN <<j, m>> = {1, 2}
        /\ <<j, m>>[1] = j /\ <<j, m>>[2] = m
    BY <1>2, <1>3
  <2>2. ~m.calm
    BY <1>4, <1>8
  <2> QED
    BY <1>3, <1>5, <1>6, <1>8, <2>1, <2>2, SendRInv DEF gui
<1> QED
  BY <1>5, <1>7, <1>8

\* Polling an event brings the GUI nearer to what it has yet to hear.
LEMMA PollRInv ==
  ASSUME RInv, Poll PROVE RInv'
<1> USE DEF RInv
<1>1. /\ events # <<>> /\ events \in Seq(Room)
      /\ current' = Head(events) /\ events' = Tail(events)
      /\ active' = Head(events) /\ chats' = chats \cup {Head(events)}
      /\ UNCHANGED <<server, cmds, asked, drifted>>
  BY DEF Poll, RTypeOK
<1>2. Head(events) \in Room /\ Tail(events) \in Seq(Room)
  BY <1>1
<1>3. Heard' = Heard
  <2>1. CASE Len(events) = 1
    <3>1. Tail(events) = <<>> /\ Head(events) = events[Len(events)]
      BY <1>1, <2>1
    <3> QED
      BY <1>1, <3>1 DEF Heard
  <2>2. CASE Len(events) # 1
    <3>1. Tail(events) # <<>> /\ Tail(events)[Len(Tail(events))] = events[Len(events)]
      BY <1>1, <2>2, LastOfTail
    <3> QED
      BY <1>1, <3>1 DEF Heard
  <2> QED
    BY <2>1, <2>2
<1>4. RTypeOK'
  BY <1>1, <1>2 DEF RTypeOK, server
<1> QED
  BY <1>1, <1>3, <1>4 DEF server, MembersKnowPassword, CreatorsKnow, RoomAgreement, CalmWaits,
     CalmTextInItsRoom

LEMMA HearRInv ==
  ASSUME RInv, NEW r \in Room, Hear(r) PROVE RInv'
BY DEF Hear, RInv, RTypeOK, server, MembersKnowPassword, CreatorsKnow, RoomAgreement, Heard,
   CalmWaits, CalmTextInItsRoom

LEMMA ReconnectRInv ==
  ASSUME RInv, Reconnect PROVE RInv'
<1> USE DEF RInv, Reconnect
<1>1. room' \in [Client -> Room] /\ room'[Me] = Main /\ MembersKnowPassword'
  BY MoveMe, MainAssumption
<1>2. cmds' \in Seq(Cmd) /\ events' \in Seq(Room) /\ DOMAIN cmds' = {}
  BY EmptySeq
<1>3. RTypeOK'
  BY <1>1, <1>2 DEF RTypeOK, gui
<1>4. RoomAgreement' /\ CreatorsKnow'
  BY <1>1 DEF RoomAgreement, Heard, CreatorsKnow, RTypeOK, gui
<1> QED
  BY <1>1, <1>2, <1>3, <1>4 DEF CalmWaits, CalmTextInItsRoom

-----------------------------------------------------------------------------

LEMMA InitRInv == RInit => RInv
<1> SUFFICES ASSUME RInit PROVE RInv
  OBVIOUS
<1>1. cmds \in Seq(Cmd) /\ events \in Seq(Room) /\ DOMAIN cmds = {}
  BY EmptySeq DEF RInit
<1>2. RTypeOK
  BY <1>1, MainAssumption DEF RInit, RTypeOK
<1> QED
  BY <1>1, <1>2 DEF RInit, RInv, MembersKnowPassword, CreatorsKnow, RoomAgreement, Heard,
     CalmWaits, CalmTextInItsRoom, Client

LEMMA StepRInv == RInv /\ [RNext]_rvars => RInv'
<1> SUFFICES ASSUME RInv, [RNext]_rvars PROVE RInv'
  OBVIOUS
<1>1. CASE UNCHANGED rvars
  BY <1>1 DEF rvars, server, gui, RInv, RTypeOK, MembersKnowPassword, CreatorsKnow,
     RoomAgreement, Heard, CalmWaits, CalmTextInItsRoom
<1>2. CASE OtherNext
  BY <1>2, OtherRInv
<1>3. CASE ServerNext
  BY <1>3, HandleJoinRInv, RefuseRInv, HandleCreateRInv, EnterCreatedRInv, HandleLeaveRInv,
     AskMembersRInv, SendTextRInv DEF ServerNext
<1>4. CASE GuiNext
  BY <1>4, SwitchRInv, DialogRInv, TypeLeaveRInv, TextRInv, PollRInv, HearRInv, ReconnectRInv
     DEF GuiNext
<1> QED
  BY <1>1, <1>2, <1>3, <1>4 DEF RNext

\* Only who knows a room's password is in it (main.go:909-973).
THEOREM PasswordsHold == RSpec => [](RTypeOK /\ MembersKnowPassword)
<1>1. RInv => RTypeOK /\ MembersKnowPassword
  BY DEF RInv
<1> QED
  BY <1>1, InitRInv, StepRInv, PTL DEF RSpec

\* GUI and server part only by /leave and reconnection (net.rs:326).
THEOREM RoomsAgree == RSpec => []RoomAgreement
<1>1. RInv => RoomAgreement
  BY DEF RInv
<1> QED
  BY <1>1, InitRInv, StepRInv, PTL DEF RSpec

\* A calm text goes to its room (main.rs:787).
THEOREM CalmTextsArrive == RSpec => []CalmTextInItsRoom
<1>1. RInv => CalmTextInItsRoom
  BY DEF RInv
<1> QED
  BY <1>1, InitRInv, StepRInv, PTL DEF RSpec

=============================================================================
