------------------------ MODULE ConsoleClientProofs -------------------------
(***************************************************************************)
(* Proofs about ConsoleClient for any names, keys and bounds: that a mutex *)
(* is held by who has still to free it, that nothing is encrypted for a    *)
(* key that was neither pinned nor reported, and that no one is written to *)
(* under two keys without a warning, across kills.                         *)
(*                                                                         *)
(* What the threads have still to do is a sequence of steps, so most of    *)
(* the invariant is about sequences: how the steps of one are ordered      *)
(* (Orderly, which no state but the sequence decides), and what those      *)
(* before a place in it will have done for a key by then (Clears).         *)
(***************************************************************************)
EXTENDS ConsoleClient, FunctionTheorems, FiniteSetTheorems, SequenceTheorems, TLAPS

\* From place i on, s frees m before it takes it.
HeldFrom(s, i, m) == \E k \in i .. Len(s) : s[k] = Drop(m) /\ \A j \in i .. k - 1 : s[j] # Take(m)
Held(s, m) == HeldFrom(s, 1, m)

\* What is taken is freed, and is not freed twice.
Balanced(s) ==
  \A i \in 1 .. Len(s), m \in Mutex : /\ s[i] = Take(m) => HeldFrom(s, i + 1, m)
                                      /\ s[i] = Drop(m) => ~HeldFrom(s, i + 1, m)

Pairs == Peer \X Entry
Reqs == {AskKey(n) : n \in Peer} \cup {AskMembers}
Steps ==
  {Take(m) : m \in Mutex} \cup {Drop(m) : m \in Mutex} \cup {Truncate, Write}
  \cup {Put(e) : e \in Pairs} \cup {Test(e) : e \in Pairs} \cup {Warn(e[1], e[2]) : e \in Pairs}
  \cup {Look(n) : n \in Peer} \cup {Recall(n) : n \in Peer}
  \cup {Pin(e[1], e[2]) : e \in Pairs} \cup {Send(e) : e \in Pairs}
  \cup {Ask(r) : r \in Reqs} \cup {Await(r) : r \in Reqs}
ReaderSteps == {"take", "drop", "put", "test", "warn", "truncate", "write"}

\* Fingerprints are compared and saved under their mutex.
Sheltered(s) ==
  \A i \in 1 .. Len(s) : s[i].do \in {"test", "truncate", "write"} => HeldFrom(s, i + 1, "tofu")

\* No line is printed meanwhile.
Quiet(s) ==
  \A i \in 1 .. Len(s) : s[i].do = "test" => ~HeldFrom(s, i + 1, "print")

\* A key that is stored is compared later.
Tested(s) ==
  \A i \in 1 .. Len(s) : \A e \in Pairs :
    s[i] = Put(e) => \E j \in i + 1 .. Len(s) : s[j] = Test(e)

\* The main thread waits for a request last, and reads the known keys under
\* their mutex before anything else.
Waits(s) ==
  \A i \in 1 .. Len(s) :
    /\ s[i].do = "ask" => i = Len(s)
    /\ s[i].do = "await" => Len(s) = 1
    /\ s[i].do \in {"look", "recall"} =>
         /\ Len(s) = i + 1 /\ s[i + 1] = Drop("known")
         /\ i = 1 \/ (i = 2 /\ s[1] = Take("known"))

\* The reader has the known keys to itself until it is through with a frame.
Reads(s) ==
  \A i \in 1 .. Len(s) : /\ s[i].do \in ReaderSteps
                         /\ s[i] = Take("known") => i = 1
                         /\ s[i] = Drop("known") => i = Len(s)
                         /\ s[i].do = "put" => s[Len(s)] = Drop("known")

Orderly(t, s) == /\ s \in Seq(Steps)
                 /\ Balanced(s)
                 /\ Sheltered(s)
                 /\ Quiet(s)
                 /\ Tested(s)
                 /\ t = "main" => Waits(s)
                 /\ t = "reader" => Reads(s)

-----------------------------------------------------------------------------
(* Steps *)

\* The kinds of steps and what they hold.
LEMMA LockFields ==
  /\ \A m : Take(m).do = "take" /\ Take(m).mutex = m
  /\ \A m : Drop(m).do = "drop" /\ Drop(m).mutex = m
  /\ \A m, n : Take(m) # Drop(n)
BY DEF Take, Drop

LEMMA KeyFields ==
  ASSUME NEW e \in Pairs
  PROVE  /\ Put(e).do = "put" /\ Put(e).name = e[1] /\ Put(e).key = e[2]
         /\ Test(e).do = "test" /\ Test(e).name = e[1] /\ Test(e).key = e[2]
         /\ Send(e).do = "send" /\ Send(e).name = e[1] /\ Send(e).key = e[2]
BY DEF Put, Test, Send

LEMMA NameFields ==
  /\ \A n, k : Warn(n, k).do = "warn" /\ Warn(n, k).name = n /\ Warn(n, k).key = k
  /\ \A n, k : Pin(n, k).do = "pin" /\ Pin(n, k).name = n /\ Pin(n, k).key = k
  /\ \A n : Look(n).do = "look" /\ Look(n).name = n
  /\ \A n : Recall(n).do = "recall" /\ Recall(n).name = n
BY DEF Warn, Pin, Look, Recall

LEMMA OtherFields ==
  /\ \A r : Ask(r).do = "ask" /\ Ask(r).req = r
  /\ \A r : Await(r).do = "await" /\ Await(r).req = r
  /\ Truncate.do = "truncate" /\ Write.do = "write"
BY DEF Ask, Await, Truncate, Write

LEMMA PairParts ==
  ASSUME NEW e \in Pairs
  PROVE  e[1] \in Peer /\ e[2] \in Entry /\ e = <<e[1], e[2]>>
BY DEF Pairs

\* A step is told by its kind.
LEMMA StepIs ==
  ASSUME NEW x \in Steps
  PROVE  /\ x.do = "take" => x.mutex \in Mutex /\ x = Take(x.mutex)
         /\ x.do = "drop" => x.mutex \in Mutex /\ x = Drop(x.mutex)
         /\ x.do \in {"put", "test", "warn", "pin", "send"} =>
              x.name \in Peer /\ x.key \in Entry /\ <<x.name, x.key>> \in Pairs
         /\ x.do = "put" => x = Put(<<x.name, x.key>>)
         /\ x.do = "test" => x = Test(<<x.name, x.key>>)
         /\ x.do = "warn" => x = Warn(x.name, x.key)
         /\ x.do = "pin" => x = Pin(x.name, x.key)
         /\ x.do = "send" => x = Send(<<x.name, x.key>>)
         /\ x.do = "look" => x.name \in Peer /\ x = Look(x.name)
         /\ x.do = "recall" => x.name \in Peer /\ x = Recall(x.name)
         /\ x.do = "ask" => x.req \in Reqs /\ x = Ask(x.req)
         /\ x.do = "await" => x.req \in Reqs /\ x = Await(x.req)
         /\ x.do = "truncate" => x = Truncate
         /\ x.do = "write" => x = Write
<1>1. \A e \in Pairs : e[1] \in Peer /\ e[2] \in Entry /\ e = <<e[1], e[2]>>
  BY PairParts
<1>2. PICK m, e, n, r :
        \/ m \in Mutex /\ x \in {Take(m), Drop(m)}
        \/ x \in {Truncate, Write}
        \/ e \in Pairs /\ x \in {Put(e), Test(e), Warn(e[1], e[2]), Pin(e[1], e[2]), Send(e)}
        \/ n \in Peer /\ x \in {Look(n), Recall(n)}
        \/ r \in Reqs /\ x \in {Ask(r), Await(r)}
  BY DEF Steps
<1>3. CASE m \in Mutex /\ x \in {Take(m), Drop(m)}
  BY <1>3, LockFields
<1>4. CASE x \in {Truncate, Write}
  BY <1>4, OtherFields
<1>5. CASE e \in Pairs /\ x \in {Put(e), Test(e), Warn(e[1], e[2]), Pin(e[1], e[2]), Send(e)}
  BY <1>1, <1>5, KeyFields, NameFields
<1>6. CASE n \in Peer /\ x \in {Look(n), Recall(n)}
  BY <1>6, NameFields
<1>7. CASE r \in Reqs /\ x \in {Ask(r), Await(r)}
  BY <1>7, OtherFields
<1> QED
  BY <1>2, <1>3, <1>4, <1>5, <1>6, <1>7

-----------------------------------------------------------------------------
(* Sequences of steps *)

LEMMA TailPlaces ==
  ASSUME NEW S, NEW s \in Seq(S), s # <<>>
  PROVE  /\ Tail(s) \in Seq(S) /\ Len(Tail(s)) = Len(s) - 1 /\ Len(s) \in Nat \ {0}
         /\ \A i \in 1 .. Len(s) - 1 : Tail(s)[i] = s[i + 1]
         /\ \A i \in 2 .. Len(s) : i - 1 \in 1 .. Len(Tail(s)) /\ s[i] = Tail(s)[i - 1]
         /\ Head(s) = s[1] /\ Head(s) \in S
OBVIOUS

LEMMA JoinPlaces ==
  ASSUME NEW S, NEW a \in Seq(S), NEW b \in Seq(S)
  PROVE  /\ a \o b \in Seq(S) /\ Len(a \o b) = Len(a) + Len(b)
         /\ Len(a) \in Nat /\ Len(b) \in Nat
         /\ \A i \in 1 .. Len(a) : (a \o b)[i] = a[i]
         /\ \A i \in 1 .. Len(b) : (a \o b)[Len(a) + i] = b[i]
         /\ \A i \in Len(a) + 1 .. Len(a) + Len(b) :
              i - Len(a) \in 1 .. Len(b) /\ (a \o b)[i] = b[i - Len(a)]
OBVIOUS

\* One step less.
LEMMA HeldTail ==
  ASSUME NEW s \in Seq(Steps), s # <<>>, NEW m, NEW i \in 1 .. Len(s)
  PROVE  HeldFrom(Tail(s), i, m) <=> HeldFrom(s, i + 1, m)
<1> DEFINE q == Tail(s)
<1>1. /\ Len(q) = Len(s) - 1 /\ Len(s) \in Nat
      /\ \A k \in 1 .. Len(s) - 1 : q[k] = s[k + 1]
      /\ \A k \in 2 .. Len(s) : s[k] = q[k - 1]
  BY TailPlaces
<1> HIDE DEF q
<1>2. ASSUME NEW k \in i .. Len(q), q[k] = Drop(m), \A j \in i .. k - 1 : q[j] # Take(m)
      PROVE  HeldFrom(s, i + 1, m)
  <2>1. k + 1 \in i + 1 .. Len(s) /\ s[k + 1] = Drop(m)
    BY <1>1, <1>2
  <2>2. \A j \in i + 1 .. k : j - 1 \in i .. k - 1 /\ s[j] = q[j - 1]
    BY <1>1, <1>2
  <2>3. \A j \in i + 1 .. (k + 1) - 1 : s[j] # Take(m)
    BY <1>2, <2>2
  <2> QED
    BY <2>1, <2>3 DEF HeldFrom
<1>3. ASSUME NEW k \in i + 1 .. Len(s), s[k] = Drop(m), \A j \in i + 1 .. k - 1 : s[j] # Take(m)
      PROVE  HeldFrom(q, i, m)
  <2>1. k - 1 \in i .. Len(q) /\ q[k - 1] = Drop(m)
    BY <1>1, <1>3
  <2>2. \A j \in i .. (k - 1) - 1 : j + 1 \in i + 1 .. k - 1 /\ q[j] = s[j + 1]
    BY <1>1, <1>3
  <2>3. \A j \in i .. (k - 1) - 1 : q[j] # Take(m)
    BY <1>3, <2>2
  <2> QED
    BY <2>1, <2>3 DEF HeldFrom
<1> QED
  BY <1>2, <1>3 DEF HeldFrom, q

\* What is held before the first step is what it leaves held, unless it takes
\* or frees it.
LEMMA HeldHead ==
  ASSUME NEW s \in Seq(Steps), s # <<>>, Balanced(s), NEW m \in Mutex
  PROVE  /\ Held(Tail(s), m) <=> HeldFrom(s, 2, m)
         /\ s[1] = Take(m) => ~Held(s, m) /\ Held(Tail(s), m)
         /\ s[1] = Drop(m) => Held(s, m) /\ ~Held(Tail(s), m)
         /\ s[1] \notin {Take(m), Drop(m)} => (Held(Tail(s), m) <=> Held(s, m))
<1>1. Len(s) \in Nat \ {0} /\ 1 \in 1 .. Len(s)
  BY TailPlaces
<1>2. Held(Tail(s), m) <=> HeldFrom(s, 2, m)
  BY <1>1, HeldTail DEF Held
<1>3. Take(m) # Drop(m)
  BY LockFields
<1>4. s[1] = Take(m) => ~Held(s, m)
  BY <1>1, <1>3 DEF Held, HeldFrom
<1>5. s[1] = Drop(m) => Held(s, m)
  <2>1. \A j \in 1 .. 1 - 1 : s[j] # Take(m)
    OBVIOUS
  <2> QED
    BY <1>1, <2>1 DEF Held, HeldFrom
<1>6. ASSUME s[1] \notin {Take(m), Drop(m)}
      PROVE  HeldFrom(s, 2, m) <=> Held(s, m)
  <2>1. ASSUME NEW k \in 2 .. Len(s), s[k] = Drop(m), \A j \in 2 .. k - 1 : s[j] # Take(m)
        PROVE  Held(s, m)
    <3>1. \A j \in 1 .. k - 1 : j = 1 \/ j \in 2 .. k - 1
      OBVIOUS
    <3> QED
      BY <1>1, <1>6, <2>1, <3>1 DEF Held, HeldFrom
  <2>2. ASSUME NEW k \in 1 .. Len(s), s[k] = Drop(m), \A j \in 1 .. k - 1 : s[j] # Take(m)
        PROVE  HeldFrom(s, 2, m)
    <3>1. k \in 2 .. Len(s)
      BY <1>6, <2>2
    <3> QED
      BY <1>1, <2>2, <3>1 DEF HeldFrom
  <2> QED
    BY <2>1, <2>2 DEF Held, HeldFrom
<1> QED
  BY <1>1, <1>2, <1>4, <1>5, <1>6 DEF Balanced

LEMMA BalancedTail ==
  ASSUME NEW s \in Seq(Steps), s # <<>>, Balanced(s)
  PROVE  Balanced(Tail(s))
<1>1. SUFFICES ASSUME NEW i \in 1 .. Len(Tail(s)), NEW m \in Mutex
               PROVE  /\ Tail(s)[i] = Take(m) => HeldFrom(Tail(s), i + 1, m)
                      /\ Tail(s)[i] = Drop(m) => ~HeldFrom(Tail(s), i + 1, m)
  BY DEF Balanced
<1>2. i + 1 \in 1 .. Len(s) /\ Tail(s)[i] = s[i + 1]
  BY TailPlaces
<1>3. HeldFrom(Tail(s), i + 1, m) <=> HeldFrom(s, (i + 1) + 1, m)
  BY <1>2, HeldTail
<1> QED
  BY <1>2, <1>3 DEF Balanced

\* s neither takes nor frees m.
Apart(s, m) == \A i \in 1 .. Len(s) : s[i] \notin {Take(m), Drop(m)}

\* s leaves the mutexes as it finds them, free.
Closed(s) == Balanced(s) /\ \A m \in Mutex : ~Held(s, m)

\* Of two sequences one after the other, in the second.
LEMMA HeldSecond ==
  ASSUME NEW a \in Seq(Steps), NEW b \in Seq(Steps), NEW m, NEW i \in Nat \ {0}
  PROVE  HeldFrom(a \o b, Len(a) + i, m) <=> HeldFrom(b, i, m)
<1> DEFINE q == a \o b
<1>1. /\ Len(q) = Len(a) + Len(b) /\ Len(a) \in Nat /\ Len(b) \in Nat
      /\ \A j \in 1 .. Len(b) : q[Len(a) + j] = b[j]
      /\ \A j \in Len(a) + 1 .. Len(a) + Len(b) :
              j - Len(a) \in 1 .. Len(b) /\ q[j] = b[j - Len(a)]
  BY JoinPlaces
<1> HIDE DEF q
<1>2. ASSUME NEW k \in i .. Len(b), b[k] = Drop(m), \A j \in i .. k - 1 : b[j] # Take(m)
      PROVE  HeldFrom(q, Len(a) + i, m)
  <2>1. Len(a) + k \in Len(a) + i .. Len(q) /\ q[Len(a) + k] = Drop(m)
    BY <1>1, <1>2
  <2>2. \A j \in Len(a) + i .. (Len(a) + k) - 1 :
          j - Len(a) \in i .. k - 1 /\ q[j] = b[j - Len(a)]
    BY <1>1, <1>2
  <2>3. \A j \in Len(a) + i .. (Len(a) + k) - 1 : q[j] # Take(m)
    BY <1>2, <2>2
  <2> QED
    BY <2>1, <2>3 DEF HeldFrom
<1>3. ASSUME NEW k \in Len(a) + i .. Len(q), q[k] = Drop(m),
             \A j \in Len(a) + i .. k - 1 : q[j] # Take(m)
      PROVE  HeldFrom(b, i, m)
  <2>1. k - Len(a) \in i .. Len(b) /\ b[k - Len(a)] = Drop(m)
    BY <1>1, <1>3
  <2>2. \A j \in i .. (k - Len(a)) - 1 :
          Len(a) + j \in Len(a) + i .. k - 1 /\ q[Len(a) + j] = b[j]
    BY <1>1, <1>3
  <2>3. \A j \in i .. (k - Len(a)) - 1 : b[j] # Take(m)
    BY <1>3, <2>2
  <2> QED
    BY <2>1, <2>3 DEF HeldFrom
<1> QED
  BY <1>2, <1>3 DEF HeldFrom, q

\* In the first, when the second holds nothing.
LEMMA HeldFirst ==
  ASSUME NEW a \in Seq(Steps), NEW b \in Seq(Steps), NEW m, ~Held(b, m), NEW i \in Nat \ {0}
  PROVE  i <= Len(a) + 1 => (HeldFrom(a \o b, i, m) <=> HeldFrom(a, i, m))
<1> DEFINE q == a \o b
<1>1. /\ Len(q) = Len(a) + Len(b) /\ Len(a) \in Nat /\ Len(b) \in Nat
      /\ \A j \in 1 .. Len(a) : q[j] = a[j]
      /\ \A j \in 1 .. Len(b) : q[Len(a) + j] = b[j]
      /\ \A j \in Len(a) + 1 .. Len(a) + Len(b) :
              j - Len(a) \in 1 .. Len(b) /\ q[j] = b[j - Len(a)]
  BY JoinPlaces
<1> HIDE DEF q
<1> SUFFICES ASSUME i <= Len(a) + 1
             PROVE  HeldFrom(q, i, m) <=> HeldFrom(a, i, m)
  BY DEF q
<1>2. ASSUME NEW k \in i .. Len(a), a[k] = Drop(m), \A j \in i .. k - 1 : a[j] # Take(m)
      PROVE  HeldFrom(q, i, m)
  <2>1. k \in i .. Len(q) /\ q[k] = Drop(m)
    BY <1>1, <1>2
  <2>2. \A j \in i .. k - 1 : q[j] # Take(m)
    BY <1>1, <1>2
  <2> QED
    BY <2>1, <2>2 DEF HeldFrom
<1>3. ASSUME NEW k \in i .. Len(q), q[k] = Drop(m), \A j \in i .. k - 1 : q[j] # Take(m)
      PROVE  HeldFrom(a, i, m)
  <2>1. CASE k <= Len(a)
    <3>1. k \in i .. Len(a) /\ a[k] = Drop(m)
      BY <1>1, <1>3, <2>1
    <3>2. \A j \in i .. k - 1 : a[j] # Take(m)
      BY <1>1, <1>3, <2>1
    <3> QED
      BY <3>1, <3>2 DEF HeldFrom
  <2>2. CASE k > Len(a)
    <3>1. k - Len(a) \in 1 .. Len(b) /\ b[k - Len(a)] = Drop(m)
      BY <1>1, <1>3, <2>2
    <3>2. \A j \in 1 .. (k - Len(a)) - 1 : Len(a) + j \in i .. k - 1 /\ q[Len(a) + j] = b[j]
      BY <1>1, <1>3, <2>2
    <3>3. \A j \in 1 .. (k - Len(a)) - 1 : b[j] # Take(m)
      BY <1>3, <3>2
    <3> QED
      BY <3>1, <3>3 DEF Held, HeldFrom
  <2> QED
    BY <1>1, <2>1, <2>2
<1> QED
  BY <1>2, <1>3 DEF HeldFrom

\* In the second, through a first that leaves it alone.
LEMMA HeldThrough ==
  ASSUME NEW a \in Seq(Steps), NEW b \in Seq(Steps), NEW m, Apart(a, m), NEW i \in Nat \ {0}
  PROVE  i <= Len(a) + 1 => (HeldFrom(a \o b, i, m) <=> Held(b, m))
<1> DEFINE q == a \o b
<1>1. /\ Len(q) = Len(a) + Len(b) /\ Len(a) \in Nat /\ Len(b) \in Nat
      /\ \A j \in 1 .. Len(a) : q[j] = a[j]
      /\ \A j \in Len(a) + 1 .. Len(a) + Len(b) :
              j - Len(a) \in 1 .. Len(b) /\ q[j] = b[j - Len(a)]
  BY JoinPlaces
<1>2. HeldFrom(q, Len(a) + 1, m) <=> Held(b, m)
  BY HeldSecond DEF Held
<1> HIDE DEF q
<1> SUFFICES ASSUME i <= Len(a) + 1
             PROVE  HeldFrom(q, i, m) <=> HeldFrom(q, Len(a) + 1, m)
  BY <1>2 DEF q
<1>3. \A j \in i .. Len(a) : q[j] \notin {Take(m), Drop(m)}
  BY <1>1 DEF Apart
<1>4. ASSUME NEW k \in Len(a) + 1 .. Len(q), q[k] = Drop(m),
             \A j \in Len(a) + 1 .. k - 1 : q[j] # Take(m)
      PROVE  HeldFrom(q, i, m)
  <2>1. k \in i .. Len(q)
    BY <1>1, <1>4
  <2>2. \A j \in i .. k - 1 : j \in i .. Len(a) \/ j \in Len(a) + 1 .. k - 1
    BY <1>1, <1>4
  <2> QED
    BY <1>3, <1>4, <2>1, <2>2 DEF HeldFrom
<1>5. ASSUME NEW k \in i .. Len(q), q[k] = Drop(m), \A j \in i .. k - 1 : q[j] # Take(m)
      PROVE  HeldFrom(q, Len(a) + 1, m)
  <2>1. k \in Len(a) + 1 .. Len(q)
    BY <1>1, <1>3, <1>5
  <2>2. \A j \in Len(a) + 1 .. k - 1 : j \in i .. k - 1
    BY <1>1, <1>5
  <2> QED
    BY <1>5, <2>1, <2>2 DEF HeldFrom
<1> QED
  BY <1>4, <1>5 DEF HeldFrom

\* What the second holds the first must leave alone.
LEMMA BalancedJoin ==
  ASSUME NEW a \in Seq(Steps), NEW b \in Seq(Steps), Balanced(a), Balanced(b),
         \A m \in Mutex : Held(b, m) => Apart(a, m)
  PROVE  /\ Balanced(a \o b)
         /\ \A m \in Mutex : Held(a \o b, m) <=> Held(a, m) \/ Held(b, m)
<1>1. /\ Len(a \o b) = Len(a) + Len(b) /\ Len(a) \in Nat /\ Len(b) \in Nat
      /\ \A j \in 1 .. Len(a) : (a \o b)[j] = a[j]
      /\ \A j \in Len(a) + 1 .. Len(a) + Len(b) :
              j - Len(a) \in 1 .. Len(b) /\ (a \o b)[j] = b[j - Len(a)]
  BY JoinPlaces
<1>2. ASSUME NEW i \in 1 .. Len(a \o b), NEW m \in Mutex
      PROVE  /\ (a \o b)[i] = Take(m) => HeldFrom(a \o b, i + 1, m)
             /\ (a \o b)[i] = Drop(m) => ~HeldFrom(a \o b, i + 1, m)
  <2>1. CASE i > Len(a)
    <3>1. i - Len(a) \in 1 .. Len(b) /\ (a \o b)[i] = b[i - Len(a)]
      BY <1>1, <2>1
    <3>2. i + 1 = Len(a) + ((i - Len(a)) + 1) /\ (i - Len(a)) + 1 \in Nat \ {0}
      BY <1>1, <2>1
    <3>3. HeldFrom(a \o b, i + 1, m) <=> HeldFrom(b, (i - Len(a)) + 1, m)
      BY <3>2, HeldSecond
    <3> QED
      BY <3>1, <3>3 DEF Balanced
  <2>2. CASE i <= Len(a) /\ ~Held(b, m)
    <3>1. i \in 1 .. Len(a) /\ (a \o b)[i] = a[i] /\ i + 1 \in Nat \ {0} /\ i + 1 <= Len(a) + 1
      BY <1>1, <2>2
    <3>2. HeldFrom(a \o b, i + 1, m) <=> HeldFrom(a, i + 1, m)
      BY <2>2, <3>1, HeldFirst
    <3> QED
      BY <3>1, <3>2 DEF Balanced
  <2>3. CASE i <= Len(a) /\ Held(b, m)
    BY <1>1, <2>3 DEF Apart
  <2> QED
    BY <1>1, <2>1, <2>2, <2>3
<1>3. ASSUME NEW m \in Mutex
      PROVE  Held(a \o b, m) <=> Held(a, m) \/ Held(b, m)
  <2>1. 1 \in Nat \ {0} /\ 1 <= Len(a) + 1
    BY <1>1
  <2>2. CASE ~Held(b, m)
    BY <2>1, <2>2, HeldFirst DEF Held
  <2>3. CASE Held(b, m)
    BY <2>1, <2>3, HeldThrough DEF Held
  <2> QED
    BY <2>2, <2>3
<1> QED
  BY <1>2, <1>3 DEF Balanced

LEMMA ClosedJoin ==
  ASSUME NEW a \in Seq(Steps), NEW b \in Seq(Steps), Closed(a), Closed(b)
  PROVE  a \o b \in Seq(Steps) /\ Closed(a \o b)
BY BalancedJoin DEF Closed

\* A sequence under a mutex that it leaves alone.
LEMMA ClosedUnder ==
  ASSUME NEW s \in Seq(Steps), NEW m \in Mutex, Closed(s), Apart(s, m)
  PROVE  /\ (<<Take(m)>> \o s) \o <<Drop(m)>> \in Seq(Steps)
         /\ Closed((<<Take(m)>> \o s) \o <<Drop(m)>>)
<1> DEFINE t == <<Take(m)>>
           d == <<Drop(m)>>
<1>1. /\ t \in Seq(Steps) /\ d \in Seq(Steps)
      /\ Len(t) = 1 /\ t[1] = Take(m) /\ Len(d) = 1 /\ d[1] = Drop(m)
  BY DEF Steps
<1>2. s \o d \in Seq(Steps) /\ t \o (s \o d) = (t \o s) \o d
  BY <1>1
<1> HIDE DEF t, d
<1>3. Balanced(d) /\ \A n \in Mutex : Held(d, n) <=> n = m
  BY <1>1, LockFields DEF Balanced, Held, HeldFrom
<1>4. Balanced(s \o d) /\ \A n \in Mutex : Held(s \o d, n) <=> n = m
  BY <1>1, <1>3, BalancedJoin DEF Closed
<1>5. \A n \in Mutex : ~Held(t, n) /\ (n # m => Apart(t, n))
  BY <1>1, LockFields DEF Held, HeldFrom, Apart
<1> DEFINE q == t \o (s \o d)
<1>6. /\ Len(q) = 1 + Len(s \o d) /\ Len(s \o d) \in Nat
      /\ q[1] = Take(m)
      /\ \A j \in 2 .. 1 + Len(s \o d) : j - 1 \in 1 .. Len(s \o d) /\ q[j] = (s \o d)[j - 1]
      /\ q \in Seq(Steps)
  <2>1. PICK r \in Seq(Steps) : r = s \o d
    BY <1>2
  <2>2. /\ t \o r \in Seq(Steps) /\ Len(t \o r) = Len(t) + Len(r) /\ Len(r) \in Nat
        /\ \A i \in 1 .. Len(t) : (t \o r)[i] = t[i]
        /\ \A i \in Len(t) + 1 .. Len(t) + Len(r) :
             i - Len(t) \in 1 .. Len(r) /\ (t \o r)[i] = r[i - Len(t)]
    BY <1>1, JoinPlaces, ZenonT(60)
  <2>3. q = t \o r
    BY <2>1
  <2> HIDE DEF q
  <2> QED
    BY <1>1, <2>1, <2>2, <2>3
<1>7. \A i \in Nat \ {0}, n \in Mutex : HeldFrom(q, 1 + i, n) <=> HeldFrom(s \o d, i, n)
  BY <1>1, <1>2, HeldSecond
<1>8. Balanced(q)
  <2> SUFFICES ASSUME NEW i \in 1 .. Len(q), NEW n \in Mutex
               PROVE  /\ q[i] = Take(n) => HeldFrom(q, i + 1, n)
                      /\ q[i] = Drop(n) => ~HeldFrom(q, i + 1, n)
    BY DEF Balanced
  <2>1. CASE i = 1
    <3>1. HeldFrom(q, 1 + 1, n) <=> n = m
      BY <1>4, <1>7 DEF Held
    <3> QED
      BY <1>6, <2>1, <3>1, LockFields
  <2>2. CASE i # 1
    <3>1. i - 1 \in 1 .. Len(s \o d) /\ q[i] = (s \o d)[i - 1]
      BY <1>6, <2>2
    <3>2. i \in Nat \ {0} /\ i + 1 = 1 + i /\ i = (i - 1) + 1
      BY <3>1
    <3>3. HeldFrom(q, i + 1, n) <=> HeldFrom(s \o d, (i - 1) + 1, n)
      BY <1>7, <3>2
    <3> QED
      BY <1>4, <3>1, <3>3 DEF Balanced
  <2> QED
    BY <2>1, <2>2
<1>9. ASSUME NEW n \in Mutex
      PROVE  ~Held(q, n)
  <2>1. CASE n = m
    BY <1>6, <2>1, LockFields DEF Held, HeldFrom
  <2>2. CASE n # m
    <3>1. 1 \in Nat \ {0} /\ 1 <= Len(t) + 1 /\ Apart(t, n)
      BY <1>1, <1>5, <2>2
    <3> QED
      BY <1>1, <1>2, <1>4, <2>2, <3>1, HeldThrough DEF Held
  <2> QED
    BY <2>1, <2>2
<1> QED
  BY <1>2, <1>6, <1>8, <1>9 DEF Closed, t, d

-----------------------------------------------------------------------------
(* What the threads do for a line or a frame *)

Sound(s) == s \in Seq(Steps) /\ Closed(s) /\ Sheltered(s) /\ Tested(s)

\* Every step of s is of one of these kinds.
Kinds(s, K) == \A i \in 1 .. Len(s) : s[i].do \in K

LEMMA KindsJoin ==
  ASSUME NEW K, NEW a \in Seq(Steps), NEW b \in Seq(Steps), Kinds(a, K), Kinds(b, K)
  PROVE  Kinds(a \o b, K)
BY JoinPlaces DEF Kinds

LEMMA ApartJoin ==
  ASSUME NEW m, NEW a \in Seq(Steps), NEW b \in Seq(Steps), Apart(a, m), Apart(b, m)
  PROVE  Apart(a \o b, m)
<1>1. \A i \in 1 .. Len(a \o b) : (i \in 1 .. Len(a) /\ (a \o b)[i] = a[i])
        \/ (i - Len(a) \in 1 .. Len(b) /\ (a \o b)[i] = b[i - Len(a)])
  BY JoinPlaces
<1> QED
  BY <1>1 DEF Apart

LEMMA ShelteredJoin ==
  ASSUME NEW a \in Seq(Steps), NEW b \in Seq(Steps), Sheltered(a), Sheltered(b), ~Held(b, "tofu")
  PROVE  Sheltered(a \o b)
<1>0. /\ Len(a \o b) = Len(a) + Len(b) /\ Len(a) \in Nat /\ Len(b) \in Nat
      /\ \A i \in 1 .. Len(a) : (a \o b)[i] = a[i]
      /\ \A i \in 1 .. Len(b) : (a \o b)[Len(a) + i] = b[i]
      /\ \A i \in Len(a) + 1 .. Len(a) + Len(b) :
              i - Len(a) \in 1 .. Len(b) /\ (a \o b)[i] = b[i - Len(a)]
  BY JoinPlaces
<1> SUFFICES ASSUME NEW i \in 1 .. Len(a \o b),
                    (a \o b)[i].do \in {"test", "truncate", "write"}
             PROVE  HeldFrom(a \o b, i + 1, "tofu")
  BY DEF Sheltered
<1>1. CASE i <= Len(a)
  <2>1. i \in 1 .. Len(a) /\ i + 1 \in Nat \ {0} /\ i + 1 <= Len(a) + 1 /\ a[i] = (a \o b)[i]
    BY <1>0, <1>1
  <2>2. ~Held(b, "tofu") /\ HeldFrom(a, i + 1, "tofu")
    BY <2>1 DEF Sheltered
  <2> QED
    BY <2>1, <2>2, HeldFirst
<1>2. CASE i > Len(a)
  <2>1. /\ i - Len(a) \in 1 .. Len(b) /\ b[i - Len(a)] = (a \o b)[i]
        /\ (i - Len(a)) + 1 \in Nat \ {0} /\ Len(a) + ((i - Len(a)) + 1) = i + 1
    BY <1>0, <1>2
  <2>2. HeldFrom(b, (i - Len(a)) + 1, "tofu")
    BY <2>1 DEF Sheltered
  <2>3. HeldFrom(a \o b, Len(a) + ((i - Len(a)) + 1), "tofu")
    BY <2>1, <2>2, HeldSecond
  <2> QED
    BY <2>1, <2>3
<1> QED
  BY <1>0, <1>1, <1>2

LEMMA SoundJoin ==
  ASSUME NEW a, NEW b, Sound(a), Sound(b)
  PROVE  Sound(a \o b)
<1>1. a \in Seq(Steps) /\ b \in Seq(Steps)
  BY DEF Sound
<1>2. a \o b \in Seq(Steps) /\ Closed(a \o b)
  BY <1>1, ClosedJoin DEF Sound
<1>3. /\ Len(a \o b) = Len(a) + Len(b) /\ Len(a) \in Nat /\ Len(b) \in Nat
      /\ \A i \in 1 .. Len(a) : (a \o b)[i] = a[i]
      /\ \A i \in 1 .. Len(b) : (a \o b)[Len(a) + i] = b[i]
      /\ \A i \in Len(a) + 1 .. Len(a) + Len(b) :
              i - Len(a) \in 1 .. Len(b) /\ (a \o b)[i] = b[i - Len(a)]
  BY <1>1, JoinPlaces
<1>4. Sheltered(a \o b)
  BY <1>1, ShelteredJoin DEF Sound, Closed, Mutex
<1>5. Tested(a \o b)
  <2> SUFFICES ASSUME NEW i \in 1 .. Len(a \o b), NEW e \in Pairs, (a \o b)[i] = Put(e)
               PROVE  \E j \in i + 1 .. Len(a \o b) : (a \o b)[j] = Test(e)
    BY DEF Tested
  <2>1. CASE i <= Len(a)
    <3>1. i \in 1 .. Len(a) /\ a[i] = Put(e)
      BY <1>3, <2>1
    <3>2. PICK j \in i + 1 .. Len(a) : a[j] = Test(e)
      BY <3>1 DEF Sound, Tested
    <3> QED
      BY <1>3, <3>2
  <2>2. CASE i > Len(a)
    <3>1. i - Len(a) \in 1 .. Len(b) /\ b[i - Len(a)] = Put(e)
      BY <1>3, <2>2
    <3>2. PICK j \in (i - Len(a)) + 1 .. Len(b) : b[j] = Test(e)
      BY <3>1 DEF Sound, Tested
    <3>3. j \in 1 .. Len(b) /\ Len(a) + j \in i + 1 .. Len(a \o b)
      BY <1>3, <3>1, <3>2
    <3>4. (a \o b)[Len(a) + j] = Test(e)
      BY <1>3, <3>2, <3>3
    <3> QED
      BY <3>3, <3>4
  <2> QED
    BY <1>3, <2>1, <2>2
<1> QED
  BY <1>2, <1>4, <1>5 DEF Sound

\* Steps that do nothing to the mutexes or the keys.
Plain == {"warn", "pin", "look", "recall", "ask", "await", "send"}

LEMMA SoundPlain ==
  ASSUME NEW s \in Seq(Steps), Kinds(s, Plain)
  PROVE  Sound(s) /\ \A m : Apart(s, m)
<1>1. \A i \in 1 .. Len(s) : s[i].do \notin {"take", "drop", "put", "test", "truncate", "write"}
  BY DEF Kinds, Plain
<1>2. \A m : \A i \in 1 .. Len(s) : s[i] \notin {Take(m), Drop(m)}
  BY <1>1, LockFields
<1>3. \A e \in Pairs, i \in 1 .. Len(s) : s[i] # Put(e)
  BY <1>1, KeyFields
<1>4. Closed(s)
  BY <1>2 DEF Closed, Balanced, Held, HeldFrom
<1> QED
  BY <1>1, <1>2, <1>3, <1>4 DEF Sound, Sheltered, Tested, Apart

\* A sequence under a mutex.
LEMMA SoundUnder ==
  ASSUME NEW s \in Seq(Steps), NEW m \in Mutex, Closed(s), Apart(s, m), Tested(s),
         m = "tofu" \/ Sheltered(s)
  PROVE  Sound((<<Take(m)>> \o s) \o <<Drop(m)>>)
<1> DEFINE q == (<<Take(m)>> \o s) \o <<Drop(m)>>
<1>1. q \in Seq(Steps) /\ Closed(q)
  BY ClosedUnder
<1>2. /\ Len(q) = Len(s) + 2 /\ Len(s) \in Nat
      /\ q[1] = Take(m) /\ q[Len(s) + 2] = Drop(m)
      /\ \A i \in 1 .. Len(s) : q[i + 1] = s[i]
      /\ \A i \in 2 .. Len(s) + 1 : i - 1 \in 1 .. Len(s) /\ q[i] = s[i - 1]
  OBVIOUS
<1> HIDE DEF q
<1>3. Sheltered(q)
  <2> SUFFICES ASSUME NEW i \in 1 .. Len(q), q[i].do \in {"test", "truncate", "write"}
               PROVE  HeldFrom(q, i + 1, "tofu")
    BY DEF Sheltered
  <2>1. q[1].do = "take" /\ q[Len(s) + 2].do = "drop"
    BY <1>2, LockFields
  <2>2. i \in 2 .. Len(s) + 1
    BY <1>2, <2>1
  <2>3. CASE m = "tofu"
    <3>1. Len(s) + 2 \in i + 1 .. Len(q) /\ q[Len(s) + 2] = Drop("tofu")
      BY <1>2, <2>2, <2>3
    <3>2. \A j \in i + 1 .. (Len(s) + 2) - 1 : j - 1 \in 1 .. Len(s) /\ q[j] = s[j - 1]
      BY <1>2, <2>2
    <3>3. \A j \in i + 1 .. (Len(s) + 2) - 1 : q[j] # Take("tofu")
      BY <2>3, <3>2 DEF Apart
    <3> QED
      BY <3>1, <3>3 DEF HeldFrom
  <2>4. CASE m # "tofu"
    <3>1. i - 1 \in 1 .. Len(s) /\ s[i - 1].do \in {"test", "truncate", "write"}
      BY <1>2, <2>2
    <3>2. PICK k \in (i - 1) + 1 .. Len(s) : /\ s[k] = Drop("tofu")
                                             /\ \A j \in (i - 1) + 1 .. k - 1 : s[j] # Take("tofu")
      BY <2>4, <3>1 DEF Sheltered, HeldFrom
    <3>3. k + 1 \in i + 1 .. Len(q) /\ q[k + 1] = Drop("tofu")
      BY <1>2, <3>1, <3>2
    <3>4. \A j \in i + 1 .. (k + 1) - 1 : j - 1 \in (i - 1) + 1 .. k - 1 /\ q[j] = s[j - 1]
      BY <1>2, <3>1, <3>2
    <3>5. \A j \in i + 1 .. (k + 1) - 1 : q[j] # Take("tofu")
      BY <3>2, <3>4
    <3> QED
      BY <3>3, <3>5 DEF HeldFrom
  <2> QED
    BY <2>3, <2>4
<1>4. Tested(q)
  <2> SUFFICES ASSUME NEW i \in 1 .. Len(q), NEW e \in Pairs, q[i] = Put(e)
               PROVE  \E j \in i + 1 .. Len(q) : q[j] = Test(e)
    BY DEF Tested
  <2>1. q[i].do = "put" /\ q[1].do = "take" /\ q[Len(s) + 2].do = "drop"
    BY <1>2, LockFields, KeyFields
  <2>2. i - 1 \in 1 .. Len(s) /\ s[i - 1] = Put(e)
    BY <1>2, <2>1
  <2>3. PICK j \in (i - 1) + 1 .. Len(s) : s[j] = Test(e)
    BY <2>2 DEF Tested
  <2>4. j + 1 \in i + 1 .. Len(q) /\ q[j + 1] = Test(e)
    BY <1>2, <2>2, <2>3
  <2> QED
    BY <2>4
<1> QED
  BY <1>1, <1>3, <1>4 DEF Sound, q

LEMMA Brackets ==
  ASSUME NEW S, NEW x \in S, NEW y \in S
  PROVE  /\ <<x, y>> = (<<x>> \o << >>) \o <<y>>
         /\ \A z \in S : <<x, z, y>> = (<<x>> \o <<z>>) \o <<y>>
<1>1. ASSUME NEW s \in Seq(S)
      PROVE  /\ (<<x>> \o s) \o <<y>> \in Seq(S)
             /\ Len((<<x>> \o s) \o <<y>>) = Len(s) + 2
             /\ ((<<x>> \o s) \o <<y>>)[1] = x
             /\ ((<<x>> \o s) \o <<y>>)[Len(s) + 2] = y
             /\ \A i \in 1 .. Len(s) : ((<<x>> \o s) \o <<y>>)[i + 1] = s[i]
  OBVIOUS
<1>2. <<x, y>> = (<<x>> \o << >>) \o <<y>>
  <2>1. << >> \in Seq(S) /\ Len(<< >>) = 0
    OBVIOUS
  <2>2. PICK q \in Seq(S) : q = (<<x>> \o << >>) \o <<y>>
    BY <1>1, <2>1
  <2>3. Len(q) = 2 /\ q[1] = x /\ q[2] = y
    BY <1>1, <2>1, <2>2
  <2>4. q = <<x, y>>
    BY <2>3
  <2> QED
    BY <2>2, <2>4
<1>3. ASSUME NEW z \in S
      PROVE  <<x, z, y>> = (<<x>> \o <<z>>) \o <<y>>
  <2>1. <<z>> \in Seq(S) /\ Len(<<z>>) = 1 /\ <<z>>[1] = z
    OBVIOUS
  <2>2. PICK q \in Seq(S) : q = (<<x>> \o <<z>>) \o <<y>>
    BY <1>1, <2>1
  <2>3. Len(q) = 3 /\ q[1] = x /\ q[3] = y /\ q[1 + 1] = z
    BY <1>1, <2>1, <2>2
  <2>4. q = <<x, z, y>>
    BY <2>3
  <2> QED
    BY <2>2, <2>4
<1> QED
  BY <1>2, <1>3

LEMMA PPrintSound ==
  Sound(PPrint) /\ Apart(PPrint, "known") /\ Apart(PPrint, "tofu") /\ Kinds(PPrint, {"take", "drop"})
<1>1. << >> \in Seq(Steps) /\ Kinds(<< >>, Plain)
  BY DEF Kinds
<1>2. Sound(<< >>) /\ Apart(<< >>, "print")
  BY <1>1, SoundPlain
<1>3. Sound((<<Take("print")>> \o << >>) \o <<Drop("print")>>)
  BY <1>2, SoundUnder DEF Sound, Mutex
<1>4. PPrint = (<<Take("print")>> \o << >>) \o <<Drop("print")>>
  <2>1. Take("print") \in Steps /\ Drop("print") \in Steps
    BY DEF Steps, Mutex
  <2> QED
    BY <2>1, Brackets DEF PPrint
<1>5. Len(PPrint) = 2 /\ PPrint[1] = Take("print") /\ PPrint[2] = Drop("print")
  BY DEF PPrint
<1>6. \A i \in 1 .. Len(PPrint) : i \in {1, 2}
  BY <1>5
<1> QED
  BY <1>3, <1>4, <1>5, <1>6, LockFields DEF Apart, Kinds

LEMMA CheckTofuSound ==
  ASSUME NEW e \in Pairs
  PROVE  /\ Sound(CheckTofu(e)) /\ Apart(CheckTofu(e), "known") /\ Apart(CheckTofu(e), "print")
         /\ Kinds(CheckTofu(e), {"take", "test", "drop"})
         /\ Len(CheckTofu(e)) = 3 /\ CheckTofu(e)[2] = Test(e)
<1> DEFINE s == <<Test(e)>>
<1>1. s \in Seq(Steps) /\ Len(s) = 1 /\ s[1] = Test(e)
  BY DEF Steps
<1> HIDE DEF s
<1>2. s[1].do = "test"
  BY <1>1, KeyFields
<1>3. Apart(s, "tofu") /\ Tested(s) /\ Closed(s)
  BY <1>1, <1>2, KeyFields, LockFields DEF Apart, Tested, Closed, Balanced, Held, HeldFrom
<1>4. Sound((<<Take("tofu")>> \o s) \o <<Drop("tofu")>>)
  BY <1>1, <1>3, SoundUnder DEF Mutex
<1>5. CheckTofu(e) = (<<Take("tofu")>> \o s) \o <<Drop("tofu")>>
  <2>1. Take("tofu") \in Steps /\ Drop("tofu") \in Steps /\ Test(e) \in Steps
    BY DEF Steps, Mutex
  <2> QED
    BY <2>1, Brackets DEF CheckTofu, s
<1>6. /\ Len(CheckTofu(e)) = 3 /\ CheckTofu(e)[1] = Take("tofu") /\ CheckTofu(e)[2] = Test(e)
      /\ CheckTofu(e)[3] = Drop("tofu")
  BY DEF CheckTofu
<1>7. \A i \in 1 .. Len(CheckTofu(e)) : i \in {1, 2, 3}
  BY <1>6
<1> QED
  BY <1>4, <1>5, <1>6, <1>7, LockFields, KeyFields DEF Apart, Kinds

LEMMA PutCheckedIs ==
  ASSUME NEW e \in Pairs
  PROVE  /\ PutChecked(e)[1] = Put(e) /\ PutChecked(e)[2] = Take("tofu")
         /\ PutChecked(e)[3] = Test(e) /\ PutChecked(e)[4] = Drop("tofu")
<1>1. /\ CheckTofu(e) \in Seq(Steps) /\ Len(CheckTofu(e)) = 3
      /\ CheckTofu(e)[1] = Take("tofu") /\ CheckTofu(e)[2] = Test(e)
      /\ CheckTofu(e)[3] = Drop("tofu")
  <2>1. CheckTofu(e) \in Seq(Steps)
    BY CheckTofuSound DEF Sound
  <2> QED
    BY <2>1 DEF CheckTofu
<1>2. <<Put(e)>> \in Seq(Steps) /\ Len(<<Put(e)>>) = 1 /\ <<Put(e)>>[1] = Put(e)
  BY DEF Steps
<1>3. PICK a \in Seq(Steps), b \in Seq(Steps) : a = <<Put(e)>> /\ b = CheckTofu(e)
  BY <1>1, <1>2
<1>4. PICK c : /\ c = a \o b
               /\ \A i \in 1 .. Len(b) : c[Len(a) + i] = b[i]
               /\ \A i \in 1 .. Len(a) : c[i] = a[i]
  <2> DEFINE d == a \o b
  <2>1. /\ \A i \in 1 .. Len(b) : d[Len(a) + i] = b[i]
        /\ \A i \in 1 .. Len(a) : d[i] = a[i]
    BY JoinPlaces
  <2> HIDE DEF d
  <2>2. d = a \o b
    BY DEF d
  <2> QED
    BY <2>1, <2>2, Zenon
<1>5. Len(a) = 1 /\ Len(b) = 3 /\ PutChecked(e) = c
  BY <1>1, <1>2, <1>3, <1>4 DEF PutChecked
<1>6. c[1] = a[1]
  BY <1>4, <1>5, SMTT(30)
<1>7. c[1 + 1] = b[1] /\ c[1 + 2] = b[2] /\ c[1 + 3] = b[3]
  <2>1. 1 \in 1 .. Len(b) /\ 2 \in 1 .. Len(b) /\ 3 \in 1 .. Len(b)
    BY <1>5
  <2> QED
    BY <1>4, <1>5, <2>1
<1>8. a[1] = Put(e) /\ b[1] = Take("tofu") /\ b[2] = Test(e) /\ b[3] = Drop("tofu")
  BY <1>1, <1>2, <1>3
<1> QED
  BY <1>5, <1>6, <1>7, <1>8

\* Of each pair: it is stored, then checked.
EachPut(l) == Each(4, PutChecked, l)

LEMMA EachPutPlaces ==
  ASSUME NEW l \in Seq(Pairs), NEW q, q = EachPut(l)
  PROVE  /\ q \in Seq(Steps) /\ Len(q) = 4 * Len(l) /\ Len(l) \in Nat
         /\ \A x \in 1 .. Len(l) : /\ q[4 * x - 3] = Put(l[x])
                                   /\ q[4 * x - 2] = Take("tofu")
                                   /\ q[4 * x - 1] = Test(l[x])
                                   /\ q[4 * x] = Drop("tofu")
                                   /\ l[x] \in Pairs
         /\ \A i \in 1 .. Len(q) : \E x \in 1 .. Len(l) :
              i \in {4 * x - 3, 4 * x - 2, 4 * x - 1, 4 * x}
<1> DEFINE f(i) == PutChecked(l[(i - 1) \div 4 + 1])[((i - 1) % 4) + 1]
<1>1. q = [i \in 1 .. 4 * Len(l) |-> f(i)]
  BY DEF EachPut, Each
<1>2. Len(l) \in Nat /\ \A x \in 1 .. Len(l) : l[x] \in Pairs
  OBVIOUS
<1>3. ASSUME NEW i \in 1 .. 4 * Len(l)
      PROVE  \E x \in 1 .. Len(l) : i \in {4 * x - 3, 4 * x - 2, 4 * x - 1, 4 * x}
  <2>1. PICK x \in Int, y \in Int : x = (i - 1) \div 4 /\ y = (i - 1) % 4
    OBVIOUS
  <2>2. i - 1 = 4 * x + y /\ y \in {0, 1, 2, 3}
    BY <2>1
  <2>3. x + 1 \in 1 .. Len(l)
    BY <1>2, <2>2
  <2>4. i \in {4 * (x + 1) - 3, 4 * (x + 1) - 2, 4 * (x + 1) - 1, 4 * (x + 1)}
    BY <2>2
  <2> QED
    BY <2>3, <2>4
<1>4. ASSUME NEW x \in 1 .. Len(l)
      PROVE  /\ f(4 * x - 3) = Put(l[x]) /\ f(4 * x - 2) = Take("tofu")
             /\ f(4 * x - 1) = Test(l[x]) /\ f(4 * x) = Drop("tofu")
  <2>1. /\ ((4 * x - 3) - 1) \div 4 + 1 = x /\ (((4 * x - 3) - 1) % 4) + 1 = 1
        /\ ((4 * x - 2) - 1) \div 4 + 1 = x /\ (((4 * x - 2) - 1) % 4) + 1 = 2
        /\ ((4 * x - 1) - 1) \div 4 + 1 = x /\ (((4 * x - 1) - 1) % 4) + 1 = 3
        /\ ((4 * x) - 1) \div 4 + 1 = x /\ (((4 * x) - 1) % 4) + 1 = 4
    BY <1>2
  <2> QED
    BY <1>2, <2>1, PutCheckedIs
<1>5. ASSUME NEW i \in 1 .. 4 * Len(l)
      PROVE  f(i) \in Steps
  <2>1. PICK x \in 1 .. Len(l) : i \in {4 * x - 3, 4 * x - 2, 4 * x - 1, 4 * x}
    BY <1>3
  <2>2. l[x] \in Pairs
    BY <1>2
  <2>3. {Put(l[x]), Take("tofu"), Test(l[x]), Drop("tofu")} \subseteq Steps
    BY <2>2 DEF Steps, Mutex
  <2> HIDE DEF f
  <2> QED
    BY <1>4, <2>1, <2>3
<1> HIDE DEF f
<1>6. q \in Seq(Steps) /\ Len(q) = 4 * Len(l)
  BY <1>1, <1>2, <1>5
<1>7. \A x \in 1 .. Len(l) : {4 * x - 3, 4 * x - 2, 4 * x - 1, 4 * x} \subseteq 1 .. 4 * Len(l)
  BY <1>2
<1> QED
  BY <1>1, <1>2, <1>3, <1>4, <1>6, <1>7

LEMMA EachPutSound ==
  ASSUME NEW l \in Seq(Pairs), NEW q, q = EachPut(l)
  PROVE  /\ Sound(q) /\ Apart(q, "known") /\ Apart(q, "print")
         /\ Kinds(q, {"put", "take", "test", "drop"})
<1>1. /\ q \in Seq(Steps) /\ Len(q) = 4 * Len(l) /\ Len(l) \in Nat
      /\ \A x \in 1 .. Len(l) : /\ q[4 * x - 3] = Put(l[x])
                                /\ q[4 * x - 2] = Take("tofu")
                                /\ q[4 * x - 1] = Test(l[x])
                                /\ q[4 * x] = Drop("tofu")
                                /\ l[x] \in Pairs
      /\ \A i \in 1 .. Len(q) : \E x \in 1 .. Len(l) :
           i \in {4 * x - 3, 4 * x - 2, 4 * x - 1, 4 * x}
  BY EachPutPlaces
<1>2. ASSUME NEW x \in 1 .. Len(l)
      PROVE  /\ q[4 * x - 3].do = "put" /\ q[4 * x - 2].do = "take"
             /\ q[4 * x - 1].do = "test" /\ q[4 * x].do = "drop"
  BY <1>1, LockFields, KeyFields
<1>14. ASSUME NEW x \in 1 .. Len(l), NEW i \in {4 * x - 3, 4 * x - 2, 4 * x - 1, 4 * x}
       PROVE  \/ i = 4 * x - 3 /\ q[i].do = "put"
              \/ i = 4 * x - 2 /\ q[i] = Take("tofu") /\ q[i].do = "take"
              \/ i = 4 * x - 1 /\ q[i].do = "test"
              \/ i = 4 * x /\ q[i] = Drop("tofu") /\ q[i].do = "drop"
  <2>1. CASE i = 4 * x - 3
    BY <1>2, <2>1
  <2>2. CASE i = 4 * x - 2
    BY <1>1, <1>2, <2>2
  <2>3. CASE i = 4 * x - 1
    BY <1>2, <2>3
  <2>4. CASE i = 4 * x
    BY <1>1, <1>2, <2>4
  <2> QED
    BY <1>14, <2>1, <2>2, <2>3, <2>4
<1>3. Kinds(q, {"put", "take", "test", "drop"})
  BY <1>1, <1>14 DEF Kinds
<1>4. ASSUME NEW m, m # "tofu"
      PROVE  Apart(q, m)
  <2> SUFFICES ASSUME NEW i \in 1 .. Len(q)
               PROVE  q[i] \notin {Take(m), Drop(m)}
    BY DEF Apart
  <2>1. PICK x \in 1 .. Len(l) : i \in {4 * x - 3, 4 * x - 2, 4 * x - 1, 4 * x}
    BY <1>1
  <2>2. Take(m) # Take("tofu") /\ Drop(m) # Drop("tofu")
    BY <1>4, LockFields
  <2> QED
    BY <1>14, <2>1, <2>2, LockFields, ZenonT(60)
<1>5. ASSUME NEW x \in 1 .. Len(l)
      PROVE  HeldFrom(q, (4 * x - 2) + 1, "tofu") /\ HeldFrom(q, (4 * x - 1) + 1, "tofu")
  <2>1. 4 * x \in (4 * x - 2) + 1 .. Len(q) /\ 4 * x \in (4 * x - 1) + 1 .. Len(q)
    BY <1>1
  <2>2. \A j \in (4 * x - 2) + 1 .. 4 * x - 1 : j = 4 * x - 1
    OBVIOUS
  <2>3. q[4 * x - 1] # Take("tofu") /\ q[4 * x] = Drop("tofu")
    BY <1>1, <1>2, LockFields
  <2>4. \A j \in (4 * x - 1) + 1 .. 4 * x - 1 : FALSE
    OBVIOUS
  <2> QED
    BY <2>1, <2>2, <2>3, <2>4 DEF HeldFrom
\* Between a place where nothing is held and the next Drop there is a Take.
<1>6. ASSUME NEW x \in 1 .. Len(l), NEW k \in 4 * x - 3 .. Len(q), q[k] = Drop("tofu")
      PROVE  \E j \in 4 * x - 3 .. k - 1 : q[j] = Take("tofu")
  <2>1. PICK y \in 1 .. Len(l) : k \in {4 * y - 3, 4 * y - 2, 4 * y - 1, 4 * y}
    BY <1>1
  <2>2. q[k].do = "drop"
    BY <1>6, LockFields
  <2>3. k = 4 * y
    BY <1>2, <2>1, <2>2
  <2>4. y >= x
    BY <2>3
  <2>5. 4 * y - 2 \in 4 * x - 3 .. k - 1 /\ q[4 * y - 2] = Take("tofu")
    BY <1>1, <2>3, <2>4
  <2> QED
    BY <2>5
<1>7. ASSUME NEW x \in 1 .. Len(l)
      PROVE  ~HeldFrom(q, 4 * x - 3, "tofu")
  BY <1>6 DEF HeldFrom
<1>8. ASSUME NEW x \in 1 .. Len(l)
      PROVE  ~HeldFrom(q, 4 * x + 1, "tofu")
  <2>1. CASE x + 1 \in 1 .. Len(l)
    <3>1. 4 * (x + 1) - 3 = 4 * x + 1
      OBVIOUS
    <3> QED
      BY <1>7, <2>1, <3>1
  <2>2. CASE x + 1 \notin 1 .. Len(l)
    <3>1. \A k \in 4 * x + 1 .. Len(q) : FALSE
      BY <1>1, <2>2
    <3> QED
      BY <3>1 DEF HeldFrom
  <2> QED
    BY <2>1, <2>2
<1>9. ~Held(q, "tofu")
  <2>1. CASE Len(l) = 0
    BY <1>1, <2>1 DEF Held, HeldFrom
  <2>2. CASE Len(l) # 0
    <3>1. 1 \in 1 .. Len(l) /\ 4 * 1 - 3 = 1
      BY <1>1, <2>2
    <3> QED
      BY <1>7, <3>1 DEF Held
  <2> QED
    BY <2>1, <2>2
<1>10. Balanced(q)
  <2> SUFFICES ASSUME NEW i \in 1 .. Len(q), NEW m \in Mutex
               PROVE  /\ q[i] = Take(m) => HeldFrom(q, i + 1, m)
                      /\ q[i] = Drop(m) => ~HeldFrom(q, i + 1, m)
    BY DEF Balanced
  <2>1. PICK x \in 1 .. Len(l) : i \in {4 * x - 3, 4 * x - 2, 4 * x - 1, 4 * x}
    BY <1>1
  <2>2. CASE m = "tofu"
    <3>1. /\ q[i].do = "take" => i = 4 * x - 2
          /\ q[i].do = "drop" => i = 4 * x
      <4>1. \/ i = 4 * x - 3 /\ q[i].do = "put"
            \/ i = 4 * x - 2 /\ q[i] = Take("tofu") /\ q[i].do = "take"
            \/ i = 4 * x - 1 /\ q[i].do = "test"
            \/ i = 4 * x /\ q[i] = Drop("tofu") /\ q[i].do = "drop"
        BY <1>14, <2>1
      <4> QED
        BY <4>1
    <3>2. /\ q[i] = Take(m) => i = 4 * x - 2
          /\ q[i] = Drop(m) => i = 4 * x
      BY <3>1, LockFields
    <3> QED
      BY <1>5, <1>8, <2>2, <3>2
  <2>3. CASE m # "tofu"
    BY <1>4, <2>3 DEF Apart
  <2> QED
    BY <2>2, <2>3
<1>11. Closed(q)
  <2>1. ASSUME NEW m \in Mutex
        PROVE  ~Held(q, m)
    BY <1>4, <1>9 DEF Apart, Held, HeldFrom
  <2> QED
    BY <1>10, <2>1 DEF Closed
<1>12. Sheltered(q)
  <2> SUFFICES ASSUME NEW i \in 1 .. Len(q), q[i].do \in {"test", "truncate", "write"}
               PROVE  HeldFrom(q, i + 1, "tofu")
    BY DEF Sheltered
  <2>1. PICK x \in 1 .. Len(l) : i \in {4 * x - 3, 4 * x - 2, 4 * x - 1, 4 * x}
    BY <1>1
  <2>2. i = 4 * x - 1
    BY <1>2, <2>1
  <2> QED
    BY <1>5, <2>2
<1>13. Tested(q)
  <2> SUFFICES ASSUME NEW i \in 1 .. Len(q), NEW e \in Pairs, q[i] = Put(e)
               PROVE  \E j \in i + 1 .. Len(q) : q[j] = Test(e)
    BY DEF Tested
  <2>1. PICK x \in 1 .. Len(l) : i \in {4 * x - 3, 4 * x - 2, 4 * x - 1, 4 * x}
    BY <1>1
  <2>2. q[i].do = "put" /\ Put(e).name = e[1] /\ Put(e).key = e[2]
    BY KeyFields
  <2>3. i = 4 * x - 3 /\ q[i] = Put(l[x]) /\ l[x] \in Pairs
    BY <1>1, <1>2, <2>1, <2>2, ZenonT(60)
  <2>4. e[1] = l[x][1] /\ e[2] = l[x][2]
    BY <2>2, <2>3, KeyFields
  <2>5. l[x] = e
    BY <2>3, <2>4, PairParts
  <2>6. 4 * x - 1 \in i + 1 .. Len(q) /\ q[4 * x - 1] = Test(e)
    BY <1>1, <2>3, <2>5
  <2> QED
    BY <2>6
<1> QED
  BY <1>1, <1>3, <1>4, <1>11, <1>12, <1>13 DEF Sound

-----------------------------------------------------------------------------
(* One step of a thread *)

LEMMA TailOrderly ==
  ASSUME NEW t \in Thread, NEW s, Orderly(t, s), s # << >>
  PROVE  Orderly(t, Tail(s))
<1> DEFINE q == Tail(s)
<1>1. s \in Seq(Steps)
  BY DEF Orderly
<1>2. /\ q \in Seq(Steps) /\ Len(q) = Len(s) - 1 /\ Len(s) \in Nat \ {0}
      /\ \A i \in 1 .. Len(s) - 1 : q[i] = s[i + 1]
      /\ \A i \in 2 .. Len(s) : i - 1 \in 1 .. Len(q) /\ s[i] = q[i - 1]
  BY <1>1, TailPlaces
<1>3. \A i \in 1 .. Len(s) : \A m : HeldFrom(q, i, m) <=> HeldFrom(s, i + 1, m)
  BY <1>1, HeldTail
<1>4. Balanced(q)
  BY <1>1, BalancedTail DEF Orderly
<1> HIDE DEF q
<1>5. \A i \in 1 .. Len(q) : i + 1 \in 1 .. Len(s) /\ q[i] = s[i + 1]
  BY <1>2
<1>6. Sheltered(q) /\ Quiet(q)
  <2> SUFFICES ASSUME NEW i \in 1 .. Len(q)
               PROVE  /\ q[i].do \in {"test", "truncate", "write"} => HeldFrom(q, i + 1, "tofu")
                      /\ q[i].do = "test" => ~HeldFrom(q, i + 1, "print")
    BY DEF Sheltered, Quiet
  <2>1. i + 1 \in 1 .. Len(s) /\ q[i] = s[i + 1]
    BY <1>5
  <2>2. \A m : HeldFrom(q, i + 1, m) <=> HeldFrom(s, (i + 1) + 1, m)
    BY <1>3, <2>1
  <2> QED
    BY <2>1, <2>2 DEF Orderly, Sheltered, Quiet
<1>7. Tested(q)
  <2> SUFFICES ASSUME NEW i \in 1 .. Len(q), NEW e \in Pairs, q[i] = Put(e)
               PROVE  \E j \in i + 1 .. Len(q) : q[j] = Test(e)
    BY DEF Tested
  <2>1. PICK j \in (i + 1) + 1 .. Len(s) : s[j] = Test(e)
    BY <1>5 DEF Orderly, Tested
  <2>2. j - 1 \in i + 1 .. Len(q) /\ q[j - 1] = Test(e)
    BY <1>2, <2>1
  <2> QED
    BY <2>2
<1>8. ASSUME t = "main"
      PROVE  Waits(q)
  <2> SUFFICES ASSUME NEW i \in 1 .. Len(q)
               PROVE  /\ q[i].do = "ask" => i = Len(q)
                      /\ q[i].do = "await" => Len(q) = 1
                      /\ q[i].do \in {"look", "recall"} =>
                           /\ Len(q) = i + 1 /\ q[i + 1] = Drop("known")
                           /\ i = 1
    BY DEF Waits
  <2>1. /\ s[i + 1].do = "ask" => i + 1 = Len(s)
        /\ s[i + 1].do = "await" => Len(s) = 1
        /\ s[i + 1].do \in {"look", "recall"} =>
             /\ Len(s) = (i + 1) + 1 /\ s[(i + 1) + 1] = Drop("known")
             /\ i + 1 = 1 \/ i + 1 = 2
    BY <1>5, <1>8 DEF Orderly, Waits
  <2> QED
    BY <1>2, <1>5, <2>1
<1>9. ASSUME t = "reader"
      PROVE  Reads(q)
  <2> SUFFICES ASSUME NEW i \in 1 .. Len(q)
               PROVE  /\ q[i].do \in ReaderSteps
                      /\ q[i] # Take("known")
                      /\ q[i] = Drop("known") => i = Len(q)
                      /\ q[i].do = "put" => q[Len(q)] = Drop("known")
    BY DEF Reads
  <2>1. /\ s[i + 1].do \in ReaderSteps
        /\ s[i + 1] = Take("known") => i + 1 = 1
        /\ s[i + 1] = Drop("known") => i + 1 = Len(s)
        /\ s[i + 1].do = "put" => s[Len(s)] = Drop("known")
    BY <1>5, <1>9 DEF Orderly, Reads
  <2> QED
    BY <1>2, <1>5, <2>1
<1> QED
  BY <1>2, <1>4, <1>6, <1>7, <1>8, <1>9 DEF Orderly, q

\* Steps put before the rest of what a thread does that has compared a
\* fingerprint: the first to be saved, or another reported.
LEMMA InsertOrderly ==
  ASSUME NEW t \in Thread, NEW s, Orderly(t, s), s # << >>, s[1].do = "test",
         NEW a \in Seq(Steps), Balanced(a), Apart(a, "known"), Apart(a, "tofu"),
         Kinds(a, {"take", "drop", "warn", "truncate", "write"})
  PROVE  /\ Orderly(t, a \o Tail(s))
         /\ \A m \in Mutex : Held(a \o Tail(s), m) <=> Held(a, m) \/ Held(Tail(s), m)
<1>1. s \in Seq(Steps) /\ Orderly(t, Tail(s))
  BY TailOrderly DEF Orderly
<1>2. PICK b : b = Tail(s)
  OBVIOUS
<1>3. /\ b \in Seq(Steps) /\ Len(b) = Len(s) - 1 /\ Len(s) \in Nat \ {0}
      /\ \A i \in 1 .. Len(s) - 1 : b[i] = s[i + 1]
      /\ Held(b, "tofu") /\ ~Held(b, "print")
  <2>1. 1 \in 1 .. Len(s) /\ s[1] # Take("tofu") /\ s[1] # Take("print")
    BY <1>1, TailPlaces, LockFields
  <2>2. HeldFrom(s, 1 + 1, "tofu") /\ ~HeldFrom(s, 1 + 1, "print")
    BY <2>1 DEF Orderly, Sheltered, Quiet
  <2>3. \A m \in Mutex : Held(b, m) <=> HeldFrom(s, 2, m)
    BY <1>1, <1>2, HeldHead DEF Orderly
  <2> QED
    BY <1>1, <1>2, <2>2, <2>3, TailPlaces DEF Mutex
<1>4. /\ a \o b \in Seq(Steps) /\ Len(a \o b) = Len(a) + Len(b) /\ Len(a) \in Nat /\ Len(b) \in Nat
      /\ \A i \in 1 .. Len(a) : (a \o b)[i] = a[i]
      /\ \A i \in 1 .. Len(b) : (a \o b)[Len(a) + i] = b[i]
      /\ \A i \in Len(a) + 1 .. Len(a) + Len(b) :
              i - Len(a) \in 1 .. Len(b) /\ (a \o b)[i] = b[i - Len(a)]
  <2>1. b \in Seq(Steps)
    BY <1>3
  <2> QED
    BY <2>1, JoinPlaces
<1>5. Balanced(a \o b) /\ \A m \in Mutex : Held(a \o b, m) <=> Held(a, m) \/ Held(b, m)
  <2>1. \A m \in Mutex : Held(b, m) => Apart(a, m)
    BY <1>3 DEF Mutex
  <2> QED
    BY <1>1, <1>2, <1>3, <2>1, BalancedJoin DEF Orderly
<1>6. ASSUME NEW i \in 1 .. Len(a \o b), i > Len(a)
      PROVE  /\ i - Len(a) \in 1 .. Len(b) /\ (a \o b)[i] = b[i - Len(a)]
             /\ \A m : HeldFrom(a \o b, i + 1, m) <=> HeldFrom(b, (i - Len(a)) + 1, m)
  <2>1. /\ i - Len(a) \in 1 .. Len(b) /\ (a \o b)[i] = b[i - Len(a)]
        /\ (i - Len(a)) + 1 \in Nat \ {0} /\ Len(a) + ((i - Len(a)) + 1) = i + 1
    BY <1>4, <1>6
  <2>2. \A m : HeldFrom(a \o b, Len(a) + ((i - Len(a)) + 1), m) <=> HeldFrom(b, (i - Len(a)) + 1, m)
    BY <1>3, <2>1, HeldSecond
  <2> QED
    BY <2>1, <2>2
<1>7. ASSUME NEW i \in 1 .. Len(a \o b), i <= Len(a)
      PROVE  /\ i \in 1 .. Len(a) /\ (a \o b)[i] = a[i]
             /\ (a \o b)[i].do \in {"take", "drop", "warn", "truncate", "write"}
             /\ HeldFrom(a \o b, i + 1, "tofu")
  <2>1. /\ i \in 1 .. Len(a) /\ (a \o b)[i] = a[i]
        /\ i + 1 \in Nat \ {0} /\ i + 1 <= Len(a) + 1
    BY <1>4, <1>7
  <2>2. HeldFrom(a \o b, i + 1, "tofu")
    BY <1>3, <2>1, HeldThrough
  <2> QED
    BY <2>1, <2>2 DEF Kinds
<1>8. Sheltered(a \o b) /\ Quiet(a \o b)
  <2> SUFFICES ASSUME NEW i \in 1 .. Len(a \o b)
               PROVE  /\ (a \o b)[i].do \in {"test", "truncate", "write"}
                           => HeldFrom(a \o b, i + 1, "tofu")
                      /\ (a \o b)[i].do = "test" => ~HeldFrom(a \o b, i + 1, "print")
    BY DEF Sheltered, Quiet
  <2>1. CASE i <= Len(a)
    BY <1>7, <2>1
  <2>2. CASE i > Len(a)
    BY <1>1, <1>2, <1>6, <2>2 DEF Orderly, Sheltered, Quiet
  <2> QED
    BY <1>4, <2>1, <2>2
<1>9. Tested(a \o b)
  <2> SUFFICES ASSUME NEW i \in 1 .. Len(a \o b), NEW e \in Pairs, (a \o b)[i] = Put(e)
               PROVE  \E j \in i + 1 .. Len(a \o b) : (a \o b)[j] = Test(e)
    BY DEF Tested
  <2>1. i > Len(a)
    BY <1>4, <1>7, KeyFields
  <2>2. i - Len(a) \in 1 .. Len(b) /\ b[i - Len(a)] = Put(e)
    BY <1>6, <2>1
  <2>3. PICK j \in (i - Len(a)) + 1 .. Len(b) : b[j] = Test(e)
    BY <1>1, <1>2, <2>2 DEF Orderly, Tested
  <2>4. j \in 1 .. Len(b) /\ Len(a) + j \in i + 1 .. Len(a \o b)
    BY <1>4, <2>2, <2>3
  <2>5. (a \o b)[Len(a) + j] = Test(e)
    BY <1>4, <2>3, <2>4
  <2> QED
    BY <2>4, <2>5
<1>10. ASSUME t = "main"
       PROVE  Waits(a \o b)
  <2>1. Waits(s)
    BY <1>10 DEF Orderly
  <2> SUFFICES ASSUME NEW i \in 1 .. Len(a \o b)
               PROVE  /\ (a \o b)[i].do = "ask" => i = Len(a \o b)
                      /\ (a \o b)[i].do \notin {"await", "look", "recall"}
    BY DEF Waits
  <2>2. CASE i <= Len(a)
    BY <1>7, <2>2
  <2>3. CASE i > Len(a)
    <3>1. i - Len(a) \in 1 .. Len(b) /\ (a \o b)[i] = b[i - Len(a)]
      BY <1>6, <2>3
    <3>2. PICK j \in 2 .. Len(s) : j = (i - Len(a)) + 1 /\ (a \o b)[i] = s[j]
      BY <1>3, <3>1, SMTT(30)
    <3>3. j \in 1 .. Len(s) /\ j # 1 /\ Len(s) # 1
      BY <1>3, <3>2
    <3>4. /\ s[j].do = "ask" => j = Len(s)
          /\ s[j].do = "await" => Len(s) = 1
          /\ s[j].do \in {"look", "recall"} => j = 1 \/ s[1] = Take("known")
      BY <2>1, <3>3 DEF Waits
    <3>5. s[1] # Take("known")
      BY LockFields
    <3>6. j = Len(s) => i = Len(a \o b)
      BY <1>3, <1>4, <3>2
    <3> QED
      BY <3>2, <3>3, <3>4, <3>5, <3>6
  <2> QED
    BY <1>4, <2>2, <2>3
<1>11. ASSUME t = "reader"
       PROVE  Reads(a \o b)
  <2>1. Reads(s)
    BY <1>11 DEF Orderly
  <2> SUFFICES ASSUME NEW i \in 1 .. Len(a \o b)
               PROVE  /\ (a \o b)[i].do \in ReaderSteps
                      /\ (a \o b)[i] # Take("known")
                      /\ (a \o b)[i] = Drop("known") => i = Len(a \o b)
                      /\ (a \o b)[i].do = "put" => (a \o b)[Len(a \o b)] = Drop("known")
    BY DEF Reads
  <2>2. CASE i <= Len(a)
    BY <1>7, <2>2 DEF Apart, ReaderSteps
  <2>3. CASE i > Len(a)
    <3>1. i - Len(a) \in 1 .. Len(b) /\ (a \o b)[i] = b[i - Len(a)]
      BY <1>6, <2>3
    <3>2. PICK j \in 2 .. Len(s) : j = (i - Len(a)) + 1 /\ (a \o b)[i] = s[j]
      BY <1>3, <3>1, SMTT(30)
    <3>3. /\ s[j].do \in ReaderSteps
          /\ s[j] = Take("known") => j = 1
          /\ s[j] = Drop("known") => j = Len(s)
          /\ s[j].do = "put" => s[Len(s)] = Drop("known")
      BY <2>1, <3>2, SMTT(30) DEF Reads
    <3>4. (a \o b)[Len(a) + Len(b)] = s[Len(s)]
      <4>1. Len(b) \in 1 .. Len(b) /\ Len(b) \in 1 .. Len(s) - 1 /\ Len(b) + 1 = Len(s)
        BY <1>3, <1>4, <3>1
      <4>2. (a \o b)[Len(a) + Len(b)] = b[Len(b)] /\ b[Len(b)] = s[Len(b) + 1]
        BY <1>3, <1>4, <4>1
      <4> QED
        BY <4>1, <4>2
    <3> QED
      BY <1>3, <1>4, <3>2, <3>3, <3>4
  <2> QED
    BY <1>4, <2>2, <2>3
<1> QED
  BY <1>2, <1>4, <1>5, <1>8, <1>9, <1>10, <1>11 DEF Orderly

-----------------------------------------------------------------------------
(* Lines and frames *)

\* The main thread asks last, and nothing it has begun it begins again.
Goes(s) ==
  \A i \in 1 .. Len(s) : /\ s[i].do \notin {"await", "look", "recall"}
                         /\ s[i].do = "ask" => i = Len(s)

\* Nothing is sent under a key that is not compared before.
SendsTested(s) ==
  \A i \in 1 .. Len(s) : \A e \in Pairs :
    s[i] = Send(e) => \E j \in 1 .. i - 1 : s[j] = Test(e)

LEMMA ApartQuiet ==
  ASSUME NEW s, Apart(s, "print")
  PROVE  Quiet(s)
BY DEF Apart, Quiet, HeldFrom

LEMMA QuietJoin ==
  ASSUME NEW a \in Seq(Steps), NEW b \in Seq(Steps), Quiet(a), Quiet(b), ~Held(b, "print")
  PROVE  Quiet(a \o b)
<1>1. /\ Len(a \o b) = Len(a) + Len(b) /\ Len(a) \in Nat /\ Len(b) \in Nat
      /\ \A i \in 1 .. Len(a) : (a \o b)[i] = a[i]
      /\ \A i \in Len(a) + 1 .. Len(a) + Len(b) :
              i - Len(a) \in 1 .. Len(b) /\ (a \o b)[i] = b[i - Len(a)]
  BY JoinPlaces
<1>2. SUFFICES ASSUME NEW i \in 1 .. Len(a \o b), (a \o b)[i].do = "test"
               PROVE  ~HeldFrom(a \o b, i + 1, "print")
  BY DEF Quiet
<1>3. CASE i <= Len(a)
  <2>1. i \in 1 .. Len(a) /\ i + 1 \in Nat \ {0} /\ i + 1 <= Len(a) + 1 /\ a[i] = (a \o b)[i]
    BY <1>1, <1>3
  <2>2. ~HeldFrom(a, i + 1, "print")
    BY <1>2, <2>1 DEF Quiet
  <2> QED
    BY <2>1, <2>2, HeldFirst
<1>4. CASE i > Len(a)
  <2>1. /\ i - Len(a) \in 1 .. Len(b) /\ b[i - Len(a)] = (a \o b)[i]
        /\ (i - Len(a)) + 1 \in Nat \ {0} /\ Len(a) + ((i - Len(a)) + 1) = i + 1
    BY <1>1, <1>4
  <2>2. ~HeldFrom(b, (i - Len(a)) + 1, "print")
    BY <1>2, <2>1 DEF Quiet
  <2>3. ~HeldFrom(a \o b, Len(a) + ((i - Len(a)) + 1), "print")
    BY <2>1, <2>2, HeldSecond
  <2> QED
    BY <2>1, <2>3
<1> QED
  BY <1>1, <1>3, <1>4

LEMMA UnderPlaces ==
  ASSUME NEW s \in Seq(Steps), NEW m \in Mutex, NEW q, q = (<<Take(m)>> \o s) \o <<Drop(m)>>
  PROVE  /\ Len(q) = Len(s) + 2 /\ Len(s) \in Nat
         /\ q[1] = Take(m) /\ q[Len(s) + 2] = Drop(m)
         /\ \A i \in 1 .. Len(s) : q[i + 1] = s[i]
         /\ \A i \in 1 .. Len(q) : \/ i = 1
                                   \/ i = Len(q)
                                   \/ i - 1 \in 1 .. Len(s) /\ q[i] = s[i - 1]
         /\ \A n : n # m /\ Apart(s, n) => Apart(q, n)
<1>1. /\ Len(q) = Len(s) + 2 /\ Len(s) \in Nat
      /\ q[1] = Take(m) /\ q[Len(s) + 2] = Drop(m)
      /\ \A i \in 1 .. Len(s) : q[i + 1] = s[i]
  OBVIOUS
<1>2. ASSUME NEW i \in 1 .. Len(q)
      PROVE  \/ i = 1
             \/ i = Len(q)
             \/ i - 1 \in 1 .. Len(s) /\ q[i] = s[i - 1]
  <2>1. CASE i # 1 /\ i # Len(q)
    <3>1. i - 1 \in 1 .. Len(s) /\ (i - 1) + 1 = i
      BY <1>1, <2>1
    <3> QED
      BY <1>1, <3>1
  <2> QED
    BY <2>1
<1>3. ASSUME NEW n, n # m, Apart(s, n)
      PROVE  Apart(q, n)
  <2>1. Take(m) \notin {Take(n), Drop(n)} /\ Drop(m) \notin {Take(n), Drop(n)}
    BY <1>3, LockFields
  <2> QED
    BY <1>1, <1>2, <1>3, <2>1 DEF Apart
<1> QED
  BY <1>1, <1>2, <1>3

\* q is s with m taken before and freed after.
Under(q, s, m) ==
  /\ Len(q) = Len(s) + 2 /\ Len(s) \in Nat
  /\ q[1] = Take(m) /\ q[Len(s) + 2] = Drop(m)
  /\ \A i \in 1 .. Len(s) : q[i + 1] = s[i]
  /\ \A i \in 1 .. Len(q) : \/ i = 1
                            \/ i = Len(q)
                            \/ i - 1 \in 1 .. Len(s) /\ q[i] = s[i - 1]

LEMMA IsUnder ==
  ASSUME NEW s \in Seq(Steps), NEW m \in Mutex
  PROVE  Under((<<Take(m)>> \o s) \o <<Drop(m)>>, s, m)
<1>1. PICK q : q = (<<Take(m)>> \o s) \o <<Drop(m)>>
  OBVIOUS
<1>2. Under(q, s, m)
  BY <1>1, UnderPlaces DEF Under
<1> QED
  BY <1>1, <1>2

LEMMA ApartUnder ==
  ASSUME NEW s \in Seq(Steps), NEW m \in Mutex, NEW q, q = (<<Take(m)>> \o s) \o <<Drop(m)>>,
         NEW n, n # m, Apart(s, n)
  PROVE  Apart(q, n)
BY UnderPlaces, ZenonT(60)

LEMMA KindsUnder ==
  ASSUME NEW s \in Seq(Steps), NEW m \in Mutex, NEW q, q = (<<Take(m)>> \o s) \o <<Drop(m)>>,
         NEW K, Kinds(s, K)
  PROVE  Kinds(q, K \cup {"take", "drop"})
<1>1. /\ Len(q) = Len(s) + 2 /\ Len(s) \in Nat
      /\ q[1] = Take(m) /\ q[Len(s) + 2] = Drop(m)
      /\ \A i \in 1 .. Len(q) : \/ i = 1
                                \/ i = Len(q)
                                \/ i - 1 \in 1 .. Len(s) /\ q[i] = s[i - 1]
  BY UnderPlaces
<1>2. Take(m).do = "take" /\ Drop(m).do = "drop"
  BY LockFields
<1> SUFFICES ASSUME NEW i \in 1 .. Len(q)
             PROVE  q[i].do \in K \cup {"take", "drop"}
  BY DEF Kinds
<1>3. CASE i = 1
  BY <1>1, <1>2, <1>3
<1>4. CASE i = Len(q)
  BY <1>1, <1>2, <1>4
<1>5. CASE i - 1 \in 1 .. Len(s) /\ q[i] = s[i - 1]
  BY <1>5 DEF Kinds
<1> QED
  BY <1>1, <1>3, <1>4, <1>5

LEMMA MainOrderly ==
  ASSUME NEW s, Sound(s), Quiet(s), Goes(s)
  PROVE  Orderly("main", s)
BY DEF Sound, Closed, Goes, Orderly, Waits

\* After the key has been looked up.
LEMMA DropOrderly ==
  ASSUME NEW s, Sound(s), Quiet(s), Goes(s)
  PROVE  Orderly("main", <<Drop("known")>> \o s)
<1> DEFINE a == <<Drop("known")>>
<1>1. a \in Seq(Steps) /\ Len(a) = 1 /\ a[1] = Drop("known") /\ s \in Seq(Steps)
  BY DEF Steps, Mutex, Sound
<1> HIDE DEF a
<1>2. \A i \in 1 .. Len(a) : i = 1 /\ a[i].do = "drop"
  BY <1>1, LockFields
<1>3. Balanced(a)
  BY <1>1, LockFields DEF Balanced, HeldFrom
<1>4. Balanced(a \o s)
  BY <1>1, <1>3, BalancedJoin DEF Sound, Closed
<1>5. Quiet(a \o s)
  <2>1. Quiet(a) /\ ~Held(s, "print")
    BY <1>2 DEF Quiet, Sound, Closed, Mutex
  <2> QED
    BY <1>1, <2>1, QuietJoin
<1>13. /\ a \o s \in Seq(Steps) /\ Len(a \o s) = Len(a) + Len(s) /\ Len(s) \in Nat
       /\ \A i \in 1 .. Len(a) : (a \o s)[i] = a[i]
       /\ \A i \in 1 .. Len(s) : (a \o s)[Len(a) + i] = s[i]
       /\ \A i \in Len(a) + 1 .. Len(a) + Len(s) :
             i - Len(a) \in 1 .. Len(s) /\ (a \o s)[i] = s[i - Len(a)]
  <2>1. a \in Seq(Steps) /\ s \in Seq(Steps)
    BY <1>1
  <2> QED
    BY <2>1, JoinPlaces
<1> DEFINE q == a \o s
<1>6. /\ q \in Seq(Steps) /\ Len(q) = 1 + Len(s) /\ Len(s) \in Nat /\ q[1] = Drop("known")
      /\ \A i \in 1 .. Len(s) : q[1 + i] = s[i]
      /\ \A i \in 2 .. Len(s) + 1 : i - 1 \in 1 .. Len(s) /\ q[i] = s[i - 1]
      /\ \A i \in Nat \ {0} : \A m : HeldFrom(q, 1 + i, m) <=> HeldFrom(s, i, m)
  <2>1. \A i \in Nat \ {0} : \A m : HeldFrom(q, 1 + i, m) <=> HeldFrom(s, i, m)
    BY <1>1, HeldSecond
  <2>2. /\ q \in Seq(Steps) /\ Len(q) = Len(a) + Len(s) /\ Len(s) \in Nat
        /\ \A i \in 1 .. Len(a) : q[i] = a[i]
        /\ \A i \in 1 .. Len(s) : q[Len(a) + i] = s[i]
        /\ \A i \in Len(a) + 1 .. Len(a) + Len(s) :
              i - Len(a) \in 1 .. Len(s) /\ q[i] = s[i - Len(a)]
    BY <1>13
  <2> HIDE DEF q
  <2> QED
    BY <1>1, <2>1, <2>2
<1>7. Balanced(q) /\ Quiet(q)
  BY <1>4, <1>5
<1> HIDE DEF q
<1>8. ASSUME NEW i \in 1 .. Len(q)
      PROVE  i = 1 \/ (i - 1 \in 1 .. Len(s) /\ q[i] = s[i - 1])
  BY <1>6
<1>9. q[1].do = "drop"
  BY <1>6, LockFields
<1>10. Sheltered(q)
  <2> SUFFICES ASSUME NEW i \in 1 .. Len(q), q[i].do \in {"test", "truncate", "write"}
               PROVE  HeldFrom(q, i + 1, "tofu")
    BY DEF Sheltered
  <2>1. i - 1 \in 1 .. Len(s) /\ q[i] = s[i - 1]
    BY <1>8, <1>9
  <2>2. HeldFrom(s, (i - 1) + 1, "tofu")
    BY <2>1 DEF Sound, Sheltered
  <2>3. i \in Nat \ {0} /\ (i - 1) + 1 = i /\ 1 + i = i + 1
    OBVIOUS
  <2> QED
    BY <1>6, <2>2, <2>3
<1>11. Tested(q)
  <2> SUFFICES ASSUME NEW i \in 1 .. Len(q), NEW e \in Pairs, q[i] = Put(e)
               PROVE  \E j \in i + 1 .. Len(q) : q[j] = Test(e)
    BY DEF Tested
  <2>1. i - 1 \in 1 .. Len(s) /\ q[i] = s[i - 1]
    BY <1>8, <1>9, KeyFields
  <2>2. PICK j \in (i - 1) + 1 .. Len(s) : s[j] = Test(e)
    BY <2>1 DEF Sound, Tested
  <2>3. j \in 1 .. Len(s) /\ 1 + j \in i + 1 .. Len(q)
    BY <1>6, <2>1, <2>2
  <2> QED
    BY <1>6, <2>2, <2>3
<1>12. Waits(q)
  <2> SUFFICES ASSUME NEW i \in 1 .. Len(q)
               PROVE  /\ q[i].do = "ask" => i = Len(q)
                      /\ q[i].do \notin {"await", "look", "recall"}
    BY DEF Waits
  <2>1. CASE i = 1
    BY <1>9, <2>1
  <2>2. CASE i - 1 \in 1 .. Len(s) /\ q[i] = s[i - 1]
    BY <1>6, <2>2 DEF Goes
  <2> QED
    BY <1>8, <2>1, <2>2
<1> QED
  BY <1>6, <1>7, <1>10, <1>11, <1>12 DEF Orderly, q, a

\* insert_keys.
LEMMA InsertKeysOrderly ==
  ASSUME NEW l \in Seq(Pairs)
  PROVE  /\ Sound(InsertKeys(l)) /\ Quiet(InsertKeys(l)) /\ Orderly("reader", InsertKeys(l))
         /\ Kinds(InsertKeys(l), {"take", "drop", "put", "test"})
         /\ \A x \in 1 .. Len(l) : \E j \in 1 .. Len(InsertKeys(l)) : InsertKeys(l)[j] = Test(l[x])
<1>1. PICK s : s = EachPut(l)
  OBVIOUS
<1>2. /\ s \in Seq(Steps) /\ Len(s) = 4 * Len(l) /\ Len(l) \in Nat
      /\ \A x \in 1 .. Len(l) : s[4 * x - 1] = Test(l[x])
  BY <1>1, EachPutPlaces
<1>3. Sound(s) /\ Apart(s, "known") /\ Apart(s, "print") /\ Kinds(s, {"put", "take", "test", "drop"})
  BY <1>1, EachPutSound
<1>4. PICK q : q = (<<Take("known")>> \o s) \o <<Drop("known")>>
  OBVIOUS
<1>5. InsertKeys(l) = q
  BY <1>1, <1>4 DEF InsertKeys, EachPut
<1>6. Sound(q)
  BY <1>2, <1>3, <1>4, SoundUnder DEF Sound, Mutex
<1>7. /\ Len(q) = Len(s) + 2 /\ Len(s) \in Nat
      /\ q[1] = Take("known") /\ q[Len(s) + 2] = Drop("known")
      /\ \A i \in 1 .. Len(s) : q[i + 1] = s[i]
      /\ \A i \in 1 .. Len(q) : \/ i = 1
                                \/ i = Len(q)
                                \/ i - 1 \in 1 .. Len(s) /\ q[i] = s[i - 1]
      /\ Apart(q, "print")
      /\ Kinds(q, {"put", "take", "test", "drop"} \cup {"take", "drop"})
  <2>1. "known" \in Mutex /\ "print" # "known"
    BY DEF Mutex
  <2>2. /\ Len(q) = Len(s) + 2 /\ Len(s) \in Nat
        /\ q[1] = Take("known") /\ q[Len(s) + 2] = Drop("known")
        /\ \A i \in 1 .. Len(s) : q[i + 1] = s[i]
        /\ \A i \in 1 .. Len(q) : \/ i = 1
                                  \/ i = Len(q)
                                  \/ i - 1 \in 1 .. Len(s) /\ q[i] = s[i - 1]
    <3>1. Under((<<Take("known")>> \o s) \o <<Drop("known")>>, s, "known")
      BY <1>2, <2>1, IsUnder
    <3>2. Under(q, s, "known")
      BY <1>4, <3>1
    <3> QED
      BY <3>2 DEF Under
  <2>3. \A n : n # "known" /\ Apart(s, n) => Apart(q, n)
    BY <1>2, <1>4, <2>1, UnderPlaces, ZenonT(60)
  <2>4. Kinds(q, {"put", "take", "test", "drop"} \cup {"take", "drop"})
    BY <1>2, <1>3, <1>4, <2>1, KindsUnder
  <2> QED
    BY <1>3, <2>1, <2>2, <2>3, <2>4
<1>8. Kinds(q, {"take", "drop", "put", "test"})
  BY <1>7 DEF Kinds
<1>9. Quiet(q)
  BY <1>7, ApartQuiet
<1>10. Reads(q)
  <2> SUFFICES ASSUME NEW i \in 1 .. Len(q)
               PROVE  /\ q[i].do \in ReaderSteps
                      /\ q[i] = Take("known") => i = 1
                      /\ q[i] = Drop("known") => i = Len(q)
                      /\ q[i].do = "put" => q[Len(q)] = Drop("known")
    BY DEF Reads
  <2>1. q[i].do \in ReaderSteps
    BY <1>8 DEF Kinds, ReaderSteps
  <2>2. q[1] # Drop("known") /\ q[Len(q)] # Take("known")
    BY <1>7, LockFields
  <2> QED
    BY <1>3, <1>7, <2>1, <2>2 DEF Apart
<1>11. ASSUME NEW x \in 1 .. Len(l)
       PROVE  \E j \in 1 .. Len(q) : q[j] = Test(l[x])
  <2>1. 4 * x - 1 \in 1 .. Len(s) /\ (4 * x - 1) + 1 \in 1 .. Len(q)
    BY <1>2, <1>7
  <2> QED
    BY <1>2, <1>7, <2>1
<1>12. Orderly("reader", q)
  BY <1>6, <1>9, <1>10 DEF Sound, Closed, Orderly
<1> QED
  BY <1>5, <1>6, <1>8, <1>9, <1>11, <1>12

LEMMA SendsAfter ==
  ASSUME NEW a \in Seq(Steps), NEW b \in Seq(Steps), SendsTested(a),
         \A i \in 1 .. Len(b) : \A e \in Pairs : b[i] = Send(e) =>
           \/ \E j \in 1 .. i - 1 : b[j] = Test(e)
           \/ \E j \in 1 .. Len(a) : a[j] = Test(e)
  PROVE  SendsTested(a \o b)
<1>1. /\ Len(a \o b) = Len(a) + Len(b) /\ Len(a) \in Nat /\ Len(b) \in Nat
      /\ \A i \in 1 .. Len(a) : (a \o b)[i] = a[i]
      /\ \A i \in 1 .. Len(b) : (a \o b)[Len(a) + i] = b[i]
      /\ \A i \in Len(a) + 1 .. Len(a) + Len(b) :
              i - Len(a) \in 1 .. Len(b) /\ (a \o b)[i] = b[i - Len(a)]
  BY JoinPlaces
<1> SUFFICES ASSUME NEW i \in 1 .. Len(a \o b), NEW e \in Pairs, (a \o b)[i] = Send(e)
             PROVE  \E j \in 1 .. i - 1 : (a \o b)[j] = Test(e)
  BY DEF SendsTested
<1>2. CASE i <= Len(a)
  <2>1. i \in 1 .. Len(a) /\ a[i] = Send(e)
    BY <1>1, <1>2
  <2>2. PICK j \in 1 .. i - 1 : a[j] = Test(e)
    BY <2>1 DEF SendsTested
  <2>3. j \in 1 .. Len(a)
    BY <2>1, <2>2
  <2> QED
    BY <1>1, <2>2, <2>3
<1>3. CASE i > Len(a)
  <2>1. i - Len(a) \in 1 .. Len(b) /\ b[i - Len(a)] = Send(e)
    BY <1>1, <1>3
  <2>2. CASE \E j \in 1 .. (i - Len(a)) - 1 : b[j] = Test(e)
    <3>1. PICK j \in 1 .. (i - Len(a)) - 1 : b[j] = Test(e)
      BY <2>2
    <3>2. j \in 1 .. Len(b) /\ Len(a) + j \in 1 .. i - 1
      BY <1>1, <2>1, <3>1
    <3> QED
      BY <1>1, <3>1, <3>2
  <2>3. CASE \E j \in 1 .. Len(a) : a[j] = Test(e)
    <3>1. PICK j \in 1 .. Len(a) : a[j] = Test(e)
      BY <2>3
    <3>2. j \in 1 .. i - 1
      BY <1>1, <1>3, <3>1
    <3> QED
      BY <1>1, <3>1, <3>2
  <2> QED
    BY <2>1, <2>2, <2>3
<1> QED
  BY <1>1, <1>2, <1>3

LEMMA NoSends ==
  ASSUME NEW s, NEW K, Kinds(s, K), "send" \notin K
  PROVE  \A i \in 1 .. Len(s) : \A e \in Pairs : s[i] # Send(e)
BY KeyFields DEF Kinds

LEMMA KindsGo ==
  ASSUME NEW s, NEW K, Kinds(s, K), K \cap {"ask", "await", "look", "recall"} = {}
  PROVE  Goes(s)
BY DEF Kinds, Goes

\* Printing, and the end of what is sent.
LEMMA PPrintOrderly ==
  /\ Quiet(PPrint) /\ Orderly("main", PPrint) /\ Orderly("reader", PPrint)
<1>1. Sound(PPrint) /\ Apart(PPrint, "known") /\ Kinds(PPrint, {"take", "drop"})
  BY PPrintSound
<1>2. Quiet(PPrint) /\ Goes(PPrint)
  BY <1>1, KindsGo DEF Kinds, Quiet
<1>3. Reads(PPrint)
  BY <1>1 DEF Reads, Kinds, Apart, ReaderSteps
<1> QED
  BY <1>1, <1>2, <1>3, MainOrderly DEF Orderly, Sound, Closed

LEMMA OneStepSound ==
  ASSUME NEW x \in Steps, x.do \in Plain
  PROVE  /\ <<x>> \in Seq(Steps) /\ Sound(<<x>>) /\ Quiet(<<x>>) /\ Kinds(<<x>>, {x.do})
         /\ \A m : Apart(<<x>>, m)
<1>1. PICK s : s = <<x>>
  OBVIOUS
<1>2. s \in Seq(Steps) /\ Len(s) = 1 /\ s[1] = x
  BY <1>1
<1>3. Kinds(s, {x.do}) /\ Kinds(s, Plain)
  BY <1>2 DEF Kinds
<1>4. Sound(s) /\ \A m : Apart(s, m)
  BY <1>2, <1>3, SoundPlain
<1>5. Quiet(s)
  BY <1>4, ApartQuiet
<1> QED
  BY <1>1, <1>2, <1>3, <1>4, <1>5

LEMMA SendToSound ==
  ASSUME NEW e \in Pairs
  PROVE  /\ Sound(SendTo(e[1], e[2])) /\ Quiet(SendTo(e[1], e[2]))
         /\ Kinds(SendTo(e[1], e[2]), {"send", "take", "drop"})
         /\ \A f \in Pairs, i \in 1 .. Len(SendTo(e[1], e[2])) :
              SendTo(e[1], e[2])[i] = Send(f) => f = e
<1>1. Send(e) \in Steps /\ Send(e).do = "send" /\ "send" \in Plain
  BY KeyFields DEF Steps, Plain
<1>2. PICK a : a = <<Send(e)>>
  OBVIOUS
<1>3. /\ a \in Seq(Steps) /\ Sound(a) /\ Quiet(a) /\ Kinds(a, {"send"})
      /\ \A m : Apart(a, m)
  BY <1>1, <1>2, OneStepSound
<1>4. PICK b : b = PPrint
  OBVIOUS
<1>5. b \in Seq(Steps) /\ Sound(b) /\ Quiet(b) /\ Kinds(b, {"take", "drop"}) /\ ~Held(b, "print")
  BY <1>4, PPrintSound, PPrintOrderly DEF Sound, Closed, Mutex
<1>6. SendTo(e[1], e[2]) = a \o b
  BY <1>2, <1>4, PairParts DEF SendTo
<1>7. Sound(a \o b) /\ Quiet(a \o b)
  BY <1>3, <1>5, SoundJoin, QuietJoin
<1>8. Kinds(a, {"send", "take", "drop"}) /\ Kinds(b, {"send", "take", "drop"})
  BY <1>3, <1>5 DEF Kinds
<1>9. Kinds(a \o b, {"send", "take", "drop"})
  BY <1>3, <1>5, <1>8, KindsJoin
<1>10. ASSUME NEW f \in Pairs, NEW i \in 1 .. Len(a \o b), (a \o b)[i] = Send(f)
       PROVE  f = e
  <2>1. \/ i \in 1 .. Len(a) /\ (a \o b)[i] = a[i]
        \/ i - Len(a) \in 1 .. Len(b) /\ (a \o b)[i] = b[i - Len(a)]
    BY <1>3, <1>5, JoinPlaces
  <2>2. \A j \in 1 .. Len(b) : b[j] # Send(f)
    BY <1>5, NoSends
  <2>3. i \in 1 .. Len(a) /\ a[i] = Send(f)
    BY <1>10, <2>1, <2>2
  <2>4. Send(f) = Send(e)
    BY <1>2, <2>3
  <2>5. f[1] = e[1] /\ f[2] = e[2]
    BY <2>4, KeyFields
  <2> QED
    BY <2>5, PairParts
<1> QED
  BY <1>6, <1>7, <1>9, <1>10

\* The texts for a list.
EachSend(l) == Each(1, LAMBDA e : <<Send(e)>>, l)

LEMMA EachSendIs ==
  ASSUME NEW l \in Seq(Pairs), NEW q, q = EachSend(l)
  PROVE  /\ q \in Seq(Steps) /\ Len(q) = Len(l) /\ Kinds(q, {"send"})
         /\ \A i \in 1 .. Len(q) : i \in 1 .. Len(l) /\ q[i] = Send(l[i]) /\ l[i] \in Pairs
<1> DEFINE f(i) == <<Send(l[(i - 1) \div 1 + 1])>>[((i - 1) % 1) + 1]
<1>1. q = [i \in 1 .. 1 * Len(l) |-> f(i)]
  BY DEF EachSend, Each
<1>2. Len(l) \in Nat /\ \A i \in 1 .. Len(l) : l[i] \in Pairs
  OBVIOUS
<1>3. ASSUME NEW i \in 1 .. Len(l)
      PROVE  f(i) = Send(l[i])
  <2>1. (i - 1) \div 1 + 1 = i /\ ((i - 1) % 1) + 1 = 1
    OBVIOUS
  <2> QED
    BY <2>1
<1> HIDE DEF f
<1>4. 1 .. 1 * Len(l) = 1 .. Len(l)
  BY <1>2
<1>5. \A i \in 1 .. Len(l) : Send(l[i]) \in Steps /\ Send(l[i]).do = "send"
  BY <1>2, KeyFields DEF Steps
<1>6. q = [i \in 1 .. Len(l) |-> Send(l[i])]
  BY <1>1, <1>3, <1>4
<1>7. q \in Seq(Steps) /\ Len(q) = Len(l)
  BY <1>2, <1>5, <1>6
<1> QED
  BY <1>2, <1>5, <1>6, <1>7 DEF Kinds

\* The answer to a question for a room: its keys are stored and checked, then
\* the text goes to each.
LEMMA ListOrderly ==
  ASSUME NEW l \in Seq(Pairs), NEW q, q = (InsertKeys(l) \o EachSend(l)) \o PPrint
  PROVE  /\ Orderly("main", q) /\ Sound(q) /\ SendsTested(q)
         /\ Kinds(q, {"take", "drop", "put", "test", "send"})
<1> DEFINE K == {"take", "drop", "put", "test", "send"}
<1>1. PICK a, b, c : a = InsertKeys(l) /\ b = EachSend(l) /\ c = PPrint
  OBVIOUS
<1>2. /\ Sound(a) /\ Quiet(a) /\ Kinds(a, {"take", "drop", "put", "test"})
      /\ \A x \in 1 .. Len(l) : \E j \in 1 .. Len(a) : a[j] = Test(l[x])
      /\ a \in Seq(Steps)
  BY <1>1, InsertKeysOrderly DEF Sound
<1>3. /\ b \in Seq(Steps) /\ Len(b) = Len(l) /\ Kinds(b, {"send"})
      /\ \A i \in 1 .. Len(b) : i \in 1 .. Len(l) /\ b[i] = Send(l[i]) /\ l[i] \in Pairs
  BY <1>1, EachSendIs
<1>4. c \in Seq(Steps) /\ Sound(c) /\ Quiet(c) /\ Kinds(c, {"take", "drop"})
  BY <1>1, PPrintSound, PPrintOrderly DEF Sound
<1>5. Sound(b) /\ Quiet(b)
  <2>1. Kinds(b, Plain)
    BY <1>3 DEF Kinds, Plain
  <2> QED
    BY <1>3, <2>1, SoundPlain, ApartQuiet
<1>6. /\ ~Held(b, "print") /\ ~Held(c, "print")
  BY <1>4, <1>5 DEF Sound, Closed, Mutex
<1>7. Sound(a \o b) /\ Quiet(a \o b) /\ a \o b \in Seq(Steps)
  BY <1>2, <1>3, <1>5, <1>6, SoundJoin, QuietJoin DEF Sound
<1>8. Sound((a \o b) \o c) /\ Quiet((a \o b) \o c)
  BY <1>4, <1>6, <1>7, SoundJoin, QuietJoin
<1>9. Kinds(a, K) /\ Kinds(b, K) /\ Kinds(c, K)
  BY <1>2, <1>3, <1>4 DEF Kinds
<1>10. Kinds((a \o b) \o c, K)
  <2>1. Kinds(a \o b, K)
    BY <1>2, <1>3, <1>9, KindsJoin
  <2> QED
    BY <1>4, <1>7, <1>9, <2>1, KindsJoin
<1>11. SendsTested(a \o b)
  <2>1. SendsTested(a)
    BY <1>2, NoSends DEF SendsTested
  <2>2. ASSUME NEW i \in 1 .. Len(b), NEW e \in Pairs, b[i] = Send(e)
        PROVE  \E j \in 1 .. Len(a) : a[j] = Test(e)
    <3>1. i \in 1 .. Len(l) /\ Send(e) = Send(l[i]) /\ l[i] \in Pairs
      BY <1>3, <2>2
    <3>2. e[1] = l[i][1] /\ e[2] = l[i][2]
      BY <3>1, KeyFields
    <3>3. e = l[i]
      BY <3>1, <3>2, PairParts
    <3> QED
      BY <1>2, <3>1, <3>3
  <2> QED
    BY <1>2, <1>3, <2>1, <2>2, SendsAfter
<1>12. SendsTested((a \o b) \o c)
  <2>1. \A i \in 1 .. Len(c) : \A e \in Pairs : c[i] # Send(e)
    BY <1>4, NoSends
  <2> QED
    BY <1>4, <1>7, <1>11, <2>1, SendsAfter
<1>13. Goes((a \o b) \o c)
  BY <1>10, KindsGo
<1> QED
  BY <1>1, <1>8, <1>10, <1>12, <1>13, MainOrderly

\* The answer to a question for a key.
LEMMA KeyOrderly ==
  ASSUME NEW e \in Pairs, NEW q,
         q = (<<Take("known"), Put(e), Drop("known")>> \o CheckTofu(e)) \o SendTo(e[1], e[2])
  PROVE  /\ Orderly("main", q) /\ Sound(q) /\ SendsTested(q)
         /\ Kinds(q, {"take", "drop", "put", "test", "send"})
<1> DEFINE K == {"take", "drop", "put", "test", "send"}
<1>1. PICK a, b, c : /\ a = <<Take("known"), Put(e), Drop("known")>>
                     /\ b = CheckTofu(e) /\ c = SendTo(e[1], e[2])
  OBVIOUS
<1>2. /\ a \in Seq(Steps) /\ Len(a) = 3
      /\ a[1] = Take("known") /\ a[2] = Put(e) /\ a[3] = Drop("known")
  BY <1>1 DEF Steps, Mutex
<1>3. a[1].do = "take" /\ a[2].do = "put" /\ a[3].do = "drop"
  BY <1>2, LockFields, KeyFields
<1>4. \A i \in 1 .. Len(a) : i \in {1, 2, 3}
  BY <1>2
<1>5. Closed(a)
  <2>1. PICK s : s = <<Put(e)>>
    OBVIOUS
  <2>2. s \in Seq(Steps) /\ Len(s) = 1 /\ s[1] = Put(e) /\ s[1].do = "put"
    BY <2>1, KeyFields DEF Steps
  <2>3. \A m : Apart(s, m)
    BY <2>2, LockFields DEF Apart
  <2>4. Closed(s)
    BY <2>3 DEF Apart, Closed, Balanced, Held, HeldFrom
  <2>5. a = (<<Take("known")>> \o s) \o <<Drop("known")>>
    <3>1. Take("known") \in Steps /\ Drop("known") \in Steps /\ Put(e) \in Steps
      BY DEF Steps, Mutex
    <3> QED
      BY <1>1, <2>1, <3>1, Brackets
  <2> QED
    BY <2>2, <2>3, <2>4, <2>5, ClosedUnder DEF Mutex
<1>6. Sheltered(a) /\ Quiet(a) /\ Kinds(a, K)
  BY <1>3, <1>4 DEF Sheltered, Quiet, Kinds
<1>7. /\ b \in Seq(Steps) /\ Sound(b) /\ Quiet(b) /\ Kinds(b, {"take", "test", "drop"})
      /\ Len(b) = 3 /\ b[2] = Test(e)
  <2>1. /\ Sound(b) /\ Apart(b, "print") /\ Kinds(b, {"take", "test", "drop"})
        /\ Len(b) = 3 /\ b[2] = Test(e)
    BY <1>1, CheckTofuSound
  <2>2. Quiet(b)
    BY <2>1, ApartQuiet
  <2> QED
    BY <2>1, <2>2 DEF Sound
<1>8. /\ c \in Seq(Steps) /\ Sound(c) /\ Quiet(c) /\ Kinds(c, {"send", "take", "drop"})
      /\ \A f \in Pairs, i \in 1 .. Len(c) : c[i] = Send(f) => f = e
  BY <1>1, SendToSound DEF Sound
<1>9. /\ ~Held(b, "print") /\ ~Held(c, "print") /\ ~Held(b, "tofu")
  BY <1>7, <1>8 DEF Sound, Closed, Mutex
<1>10. PICK p : p = a \o b
  OBVIOUS
<1>11. /\ p \in Seq(Steps) /\ Len(p) = 6
       /\ \A i \in 1 .. Len(a) : p[i] = a[i]
       /\ \A i \in 1 .. Len(b) : p[Len(a) + i] = b[i]
       /\ \A i \in Len(a) + 1 .. Len(a) + Len(b) :
             i - Len(a) \in 1 .. Len(b) /\ p[i] = b[i - Len(a)]
  <2>1. a \in Seq(Steps) /\ b \in Seq(Steps)
    BY <1>2, <1>7
  <2>2. /\ a \o b \in Seq(Steps) /\ Len(a \o b) = Len(a) + Len(b)
        /\ \A i \in 1 .. Len(a) : (a \o b)[i] = a[i]
        /\ \A i \in 1 .. Len(b) : (a \o b)[Len(a) + i] = b[i]
        /\ \A i \in Len(a) + 1 .. Len(a) + Len(b) :
              i - Len(a) \in 1 .. Len(b) /\ (a \o b)[i] = b[i - Len(a)]
    BY <2>1, JoinPlaces
  <2>3. /\ p \in Seq(Steps) /\ Len(p) = Len(a) + Len(b)
        /\ \A i \in 1 .. Len(a) : p[i] = a[i]
        /\ \A i \in 1 .. Len(b) : p[Len(a) + i] = b[i]
        /\ \A i \in Len(a) + 1 .. Len(a) + Len(b) :
              i - Len(a) \in 1 .. Len(b) /\ p[i] = b[i - Len(a)]
    BY <1>10, <2>2, Zenon
  <2> QED
    BY <1>2, <1>7, <2>3
<1>12. p[5] = Test(e) /\ p[2] = Put(e)
  <2>1. 2 \in 1 .. Len(b) /\ 2 \in 1 .. Len(a) /\ Len(a) + 2 = 5
    BY <1>2, <1>7
  <2> QED
    BY <1>2, <1>7, <1>11, <2>1
<1>13. Tested(p)
  <2> SUFFICES ASSUME NEW i \in 1 .. Len(p), NEW f \in Pairs, p[i] = Put(f)
               PROVE  \E j \in i + 1 .. Len(p) : p[j] = Test(f)
    BY DEF Tested
  <2>1. p[i].do = "put"
    BY KeyFields
  <2>2. i <= 3
    <3>1. CASE i > 3
      <4>1. i - Len(a) \in 1 .. Len(b) /\ p[i] = b[i - Len(a)]
        BY <1>2, <1>7, <1>11, <3>1
      <4> QED
        BY <1>7, <2>1, <4>1 DEF Kinds
    <3> QED
      BY <3>1
  <2>3. i \in 1 .. Len(a) /\ p[i] = a[i]
    BY <1>2, <1>11, <2>2
  <2>4. i = 2
    BY <1>3, <1>4, <2>1, <2>3
  <2>5. f[1] = e[1] /\ f[2] = e[2]
    BY <1>12, <2>4, KeyFields
  <2>6. f = e
    BY <2>5, PairParts
  <2> QED
    BY <1>11, <1>12, <2>4, <2>6
<1>14. Sound(p) /\ Quiet(p)
  <2>1. Closed(p) /\ Sheltered(p)
    BY <1>2, <1>5, <1>6, <1>7, <1>9, <1>10, ClosedJoin, ShelteredJoin DEF Sound
  <2>2. Quiet(p)
    BY <1>2, <1>6, <1>7, <1>9, <1>10, QuietJoin
  <2> QED
    BY <1>11, <1>13, <2>1, <2>2 DEF Sound
<1>15. Sound(p \o c) /\ Quiet(p \o c)
  BY <1>8, <1>9, <1>11, <1>14, SoundJoin, QuietJoin
<1>16. Kinds(b, K) /\ Kinds(c, K)
  BY <1>7, <1>8 DEF Kinds
<1>17. Kinds(p \o c, K)
  <2>1. Kinds(p, K)
    BY <1>2, <1>6, <1>7, <1>10, <1>16, KindsJoin
  <2> QED
    BY <1>8, <1>11, <1>16, <2>1, KindsJoin
<1>18. SendsTested(p \o c)
  <2>1. SendsTested(p)
    <3>1. Kinds(a, {"take", "drop", "put", "test"}) /\ Kinds(b, {"take", "drop", "put", "test"})
      BY <1>3, <1>4, <1>7 DEF Kinds
    <3>2. Kinds(p, {"take", "drop", "put", "test"})
      BY <1>2, <1>7, <1>10, <3>1, KindsJoin
    <3> QED
      BY <3>2, NoSends DEF SendsTested
  <2>2. 5 \in 1 .. Len(p)
    BY <1>11
  <2>3. \A i \in 1 .. Len(c) : \A f \in Pairs : c[i] = Send(f) => \E j \in 1 .. Len(p) : p[j] = Test(f)
    BY <1>8, <1>12, <2>2
  <2> QED
    BY <1>8, <1>11, <2>1, <2>3, SendsAfter
<1>19. Goes(p \o c)
  BY <1>17, KindsGo
<1> QED
  BY <1>1, <1>10, <1>15, <1>17, <1>18, <1>19, MainOrderly

\* Concatenation is associative; four steps before the others are three and one.
LEMMA Assoc ==
  ASSUME NEW S, NEW a \in Seq(S), NEW b \in Seq(S), NEW c \in Seq(S),
         NEW x, NEW y, x = a \o b, y = b \o c
  PROVE  x \o c = a \o y
OBVIOUS

LEMMA Sevenfold ==
  ASSUME NEW S, NEW x1 \in S, NEW x2 \in S, NEW x3 \in S, NEW x4 \in S,
         NEW c \in Seq(S), NEW d \in Seq(S),
         NEW p, p = (<<x1, x2, x3, x4>> \o c) \o d,
         NEW q, q = <<x1, x2, x3>> \o ((<<x4>> \o c) \o d)
  PROVE  p = q
<1>1. PICK a, b, x, g, h : /\ a = <<x1, x2, x3>> /\ b = <<x4>> /\ x = <<x1, x2, x3, x4>>
                           /\ g = b \o c /\ h = g \o d
  OBVIOUS
<1>2. x = a \o b /\ a \in Seq(S) /\ b \in Seq(S)
  <2>1. <<x1, x2, x3, x4>> = <<x1, x2, x3>> \o <<x4>>
    OBVIOUS
  <2>2. <<x1, x2, x3>> \in Seq(S) /\ <<x4>> \in Seq(S)
    OBVIOUS
  <2> QED
    BY <1>1, <2>1, <2>2
<1>3. g \in Seq(S) /\ x \in Seq(S)
  <2>1. <<x4>> \o c \in Seq(S)
    OBVIOUS
  <2>2. <<x1, x2, x3, x4>> \in Seq(S)
    OBVIOUS
  <2> QED
    BY <1>1, <2>1, <2>2
<1>4. x \o c = a \o g
  BY <1>1, <1>2, Assoc
<1>5. (x \o c) \o d = a \o h
  BY <1>1, <1>2, <1>3, <1>4, Assoc, SMTT(30)
<1> QED
  BY <1>1, <1>5

\* What a comparison may go on with: the file is written, or the user warned.
LEMMA SaveBalanced ==
  /\ Save \in Seq(Steps) /\ Closed(Save) /\ Tested(Save) /\ Kinds(Save, {"truncate", "write"})
  /\ \A m : Apart(Save, m)
  /\ Len(Save) = 2 /\ Save[1] = Truncate /\ Save[2] = Write
<1>1. PICK s : s = Save
  OBVIOUS
<1>2. s \in Seq(Steps) /\ Len(s) = 2 /\ s[1] = Truncate /\ s[2] = Write
  BY <1>1 DEF Save, Steps
<1>3. \A i \in 1 .. Len(s) : i \in {1, 2}
  BY <1>2
<1>4. Kinds(s, {"truncate", "write"})
  BY <1>2, <1>3, OtherFields DEF Kinds
<1>5. \A m : Apart(s, m)
  BY <1>4, LockFields DEF Apart, Kinds
<1>6. Closed(s)
  BY <1>5 DEF Apart, Closed, Balanced, Held, HeldFrom
<1>7. Tested(s)
  BY <1>4, KeyFields DEF Tested, Kinds
<1> QED
  BY <1>1, <1>2, <1>4, <1>5, <1>6, <1>7

LEMMA WarnBalanced ==
  ASSUME NEW e \in Pairs, NEW q, q = <<Take("print"), Warn(e[1], e[2]), Drop("print")>>
  PROVE  /\ q \in Seq(Steps) /\ Closed(q) /\ Apart(q, "known") /\ Apart(q, "tofu")
         /\ Kinds(q, {"take", "warn", "drop"}) /\ q[1] = Take("print")
         /\ Len(q) = 3 /\ q[2] = Warn(e[1], e[2])
<1>1. PICK s : s = <<Warn(e[1], e[2])>>
  OBVIOUS
<1>2. Warn(e[1], e[2]) \in Steps /\ Warn(e[1], e[2]).do \in Plain /\ Warn(e[1], e[2]).do = "warn"
  BY NameFields DEF Steps, Plain
<1>3. s \in Seq(Steps) /\ Sound(s) /\ Kinds(s, {"warn"}) /\ \A m : Apart(s, m)
  BY <1>1, <1>2, OneStepSound
<1>4. q = (<<Take("print")>> \o s) \o <<Drop("print")>>
  <2>1. Take("print") \in Steps /\ Drop("print") \in Steps
    BY DEF Steps, Mutex
  <2> QED
    BY <1>1, <1>2, <2>1, Brackets, ZenonT(60)
<1>5. "print" \in Mutex
  BY DEF Mutex
<1>6. q \in Seq(Steps) /\ Closed(q)
  BY <1>3, <1>4, <1>5, ClosedUnder DEF Sound
<1>7. Apart(q, "known") /\ Apart(q, "tofu")
  BY <1>3, <1>4, <1>5, UnderPlaces
<1>8. Len(q) = 3 /\ q[1] = Take("print") /\ q[2] = Warn(e[1], e[2]) /\ q[3] = Drop("print")
  OBVIOUS
<1>9. Kinds(q, {"take", "warn", "drop"})
  <2>1. \A i \in 1 .. Len(q) : i \in {1, 2, 3}
    BY <1>8
  <2> QED
    BY <1>2, <1>8, <2>1, LockFields DEF Kinds
<1> QED
  BY <1>6, <1>7, <1>8, <1>9

\* What is done under the fingerprints' mutex alone.
LEMMA UnderTofu ==
  ASSUME NEW s \in Seq(Steps), Closed(s), Tested(s), Apart(s, "tofu"), Apart(s, "print"),
         NEW q, q = (<<Take("tofu")>> \o s) \o <<Drop("tofu")>>
  PROVE  /\ q \in Seq(Steps) /\ Sound(q) /\ Quiet(q) /\ ~Held(q, "print")
         /\ \A K : Kinds(s, K) => Kinds(q, K \cup {"take", "drop"})
<1>1. "tofu" \in Mutex /\ "print" \in Mutex /\ "print" # "tofu"
  BY DEF Mutex
<1>2. Sound(q)
  BY <1>1, SoundUnder
<1>3. Apart(q, "print")
  BY <1>1, ApartUnder
<1>4. \A K : Kinds(s, K) => Kinds(q, K \cup {"take", "drop"})
  BY <1>1, KindsUnder
<1> QED
  BY <1>1, <1>2, <1>3, <1>4, ApartQuiet DEF Sound, Closed

LEMMA TrustSteps ==
  ASSUME NEW e \in Pairs
  PROVE  (<<Take("tofu"), Pin(e[1], e[2]), Drop("tofu"), Take("tofu")>> \o <<Truncate, Write>>)
             \o <<Drop("tofu")>>
           = ((<<Take("tofu")>> \o <<Pin(e[1], e[2])>>) \o <<Drop("tofu")>>)
               \o ((<<Take("tofu")>> \o <<Truncate, Write>>) \o <<Drop("tofu")>>)
<1>1. /\ Take("tofu") \in Steps /\ Drop("tofu") \in Steps /\ Pin(e[1], e[2]) \in Steps
      /\ Truncate \in Steps /\ Write \in Steps
  BY DEF Steps, Mutex
<1>2. PICK t \in Steps, p \in Steps, d \in Steps, u \in Steps, w \in Steps :
        t = Take("tofu") /\ p = Pin(e[1], e[2]) /\ d = Drop("tofu") /\ u = Truncate /\ w = Write
  BY <1>1
<1>3. (<<t, p, d, t>> \o <<u, w>>) \o <<d>>
        = ((<<t>> \o <<p>>) \o <<d>>) \o ((<<t>> \o <<u, w>>) \o <<d>>)
  <2>1. <<u, w>> \in Seq(Steps) /\ <<d>> \in Seq(Steps)
    OBVIOUS
  <2>2. (<<t, p, d, t>> \o <<u, w>>) \o <<d>> = <<t, p, d>> \o ((<<t>> \o <<u, w>>) \o <<d>>)
    BY <2>1, Sevenfold
  <2>3. <<t, p, d>> = (<<t>> \o <<p>>) \o <<d>>
    BY Brackets, ZenonT(60)
  <2> QED
    BY <2>2, <2>3
<1> QED
  BY <1>2, <1>3, Zenon

\* /trust, with the key known: it is pinned, and the file written.
LEMMA TrustOrderly ==
  ASSUME NEW e \in Pairs, NEW q,
         q = ((<<Take("tofu"), Pin(e[1], e[2]), Drop("tofu"), Take("tofu")>> \o Save)
                \o <<Drop("tofu")>>) \o PPrint
  PROVE  /\ Sound(q) /\ Quiet(q) /\ Kinds(q, {"take", "drop", "pin", "truncate", "write"})
         /\ \A f \in Pairs, i \in 1 .. Len(q) : q[i] = Pin(f[1], f[2]) => f = e
<1> DEFINE K == {"take", "drop", "pin", "truncate", "write"}
<1>1. PICK s, b, c : s = <<Pin(e[1], e[2])>> /\ b = Save /\ c = PPrint
  OBVIOUS
<1>2. /\ Take("tofu") \in Steps /\ Drop("tofu") \in Steps /\ Pin(e[1], e[2]) \in Steps
      /\ Pin(e[1], e[2]).do = "pin" /\ "pin" \in Plain /\ Truncate \in Steps /\ Write \in Steps
      /\ "tofu" \in Mutex /\ "tofu" # "print"
  BY NameFields DEF Steps, Mutex, Plain
<1>3. s \in Seq(Steps) /\ Sound(s) /\ Quiet(s) /\ Kinds(s, {"pin"}) /\ \A m : Apart(s, m)
  BY <1>1, <1>2, OneStepSound
<1>4. /\ b \in Seq(Steps) /\ Closed(b) /\ Tested(b) /\ Kinds(b, {"truncate", "write"})
      /\ \A m : Apart(b, m)
  BY <1>1, SaveBalanced
<1>5. c \in Seq(Steps) /\ Sound(c) /\ Quiet(c) /\ Kinds(c, {"take", "drop"}) /\ ~Held(c, "print")
  BY <1>1, PPrintSound, PPrintOrderly DEF Sound, Closed, Mutex
<1>6. PICK x, y : /\ x = (<<Take("tofu")>> \o s) \o <<Drop("tofu")>>
                  /\ y = (<<Take("tofu")>> \o b) \o <<Drop("tofu")>>
  OBVIOUS
<1>7. q = (x \o y) \o c
  <2>1. (<<Take("tofu"), Pin(e[1], e[2]), Drop("tofu"), Take("tofu")>> \o <<Truncate, Write>>)
            \o <<Drop("tofu")>>
          = ((<<Take("tofu")>> \o <<Pin(e[1], e[2])>>) \o <<Drop("tofu")>>)
              \o ((<<Take("tofu")>> \o <<Truncate, Write>>) \o <<Drop("tofu")>>)
    BY TrustSteps
  <2> QED
    BY <1>1, <1>6, <2>1 DEF Save
<1>8. /\ x \in Seq(Steps) /\ Sound(x) /\ Quiet(x) /\ ~Held(x, "print")
      /\ \A J : Kinds(s, J) => Kinds(x, J \cup {"take", "drop"})
  BY <1>3, <1>6, UnderTofu DEF Sound
<1>9. /\ y \in Seq(Steps) /\ Sound(y) /\ Quiet(y) /\ ~Held(y, "print")
      /\ \A J : Kinds(b, J) => Kinds(y, J \cup {"take", "drop"})
  BY <1>4, <1>6, UnderTofu
<1>10. x \in Seq(Steps) /\ y \in Seq(Steps)
  BY <1>8, <1>9
<1>11. Sound(x \o y) /\ Quiet(x \o y) /\ x \o y \in Seq(Steps)
  BY <1>8, <1>9, SoundJoin, QuietJoin DEF Sound
<1>12. Sound(q) /\ Quiet(q)
  BY <1>5, <1>7, <1>11, SoundJoin, QuietJoin
<1>13. Kinds(x, {"pin", "take", "drop"}) /\ Kinds(y, {"truncate", "write", "take", "drop"})
  <2>1. Kinds(x, {"pin"} \cup {"take", "drop"})
    BY <1>3, <1>8
  <2>2. Kinds(y, {"truncate", "write"} \cup {"take", "drop"})
    BY <1>4, <1>9
  <2> QED
    BY <2>1, <2>2 DEF Kinds
<1>14. Kinds(q, K)
  <2>1. Kinds(x, K) /\ Kinds(y, K) /\ Kinds(c, K)
    BY <1>5, <1>13 DEF Kinds
  <2>2. Kinds(x \o y, K)
    BY <1>10, <2>1, KindsJoin
  <2> QED
    BY <1>5, <1>7, <1>11, <2>1, <2>2, KindsJoin
<1>15. ASSUME NEW f \in Pairs, NEW i \in 1 .. Len(q), q[i] = Pin(f[1], f[2])
       PROVE  f = e
  <2>1. q[i].do = "pin"
    BY <1>15, NameFields
  <2>2. \/ i \in 1 .. Len(x \o y) /\ q[i] = (x \o y)[i]
        \/ i - Len(x \o y) \in 1 .. Len(c) /\ q[i] = c[i - Len(x \o y)]
    <3>1. PICK z \in Seq(Steps) : z = x \o y
      BY <1>11
    <3>2. \/ i \in 1 .. Len(z) /\ (z \o c)[i] = z[i]
          \/ i - Len(z) \in 1 .. Len(c) /\ (z \o c)[i] = c[i - Len(z)]
      BY <1>5, <1>7, <3>1, JoinPlaces
    <3> QED
      BY <1>7, <3>1, <3>2
  <2>3. i \in 1 .. Len(x \o y) /\ q[i] = (x \o y)[i]
    BY <1>5, <2>1, <2>2 DEF Kinds
  <2>4. \/ i \in 1 .. Len(x) /\ (x \o y)[i] = x[i]
        \/ i - Len(x) \in 1 .. Len(y) /\ (x \o y)[i] = y[i - Len(x)]
    BY <1>10, <2>3, JoinPlaces
  <2>5. i \in 1 .. Len(x) /\ q[i] = x[i]
    BY <1>13, <2>1, <2>3, <2>4 DEF Kinds
  <2>6. q[i] = Pin(e[1], e[2])
    <3>1. /\ Len(x) = Len(s) + 2 /\ x[1] = Take("tofu") /\ x[Len(s) + 2] = Drop("tofu")
          /\ \/ i = 1
             \/ i = Len(x)
             \/ i - 1 \in 1 .. Len(s) /\ x[i] = s[i - 1]
      BY <1>2, <1>3, <1>6, <2>5, UnderPlaces
    <3>2. i - 1 \in 1 .. Len(s) /\ x[i] = s[i - 1]
      BY <2>1, <2>5, <3>1, LockFields
    <3>3. Len(s) = 1 /\ s[1] = Pin(e[1], e[2])
      BY <1>1
    <3> QED
      BY <2>5, <3>2, <3>3
  <2>7. f[1] = e[1] /\ f[2] = e[2]
    <3>1. Pin(f[1], f[2]).name = f[1] /\ Pin(f[1], f[2]).key = f[2]
      BY NameFields
    <3>2. Pin(e[1], e[2]).name = e[1] /\ Pin(e[1], e[2]).key = e[2]
      BY NameFields
    <3> QED
      BY <1>15, <2>6, <3>1, <3>2
  <2> QED
    BY <2>7, PairParts
<1> QED
  BY <1>12, <1>14, <1>15

\* A text that is printed with the known keys held, and the list of /fingerprints.
LEMMA HandleTextOrderly ==
  Orderly("reader", HandleText) /\ Sound(HandleText) /\ Kinds(HandleText, {"take", "drop"})
<1>1. PICK s, q : s = PPrint /\ q = HandleText
  OBVIOUS
<1>2. "known" \in Mutex /\ "known" # "print"
  BY DEF Mutex
<1>3. /\ s \in Seq(Steps) /\ Sound(s) /\ Apart(s, "known") /\ Kinds(s, {"take", "drop"})
  BY <1>1, PPrintSound DEF Sound
<1>4. q = (<<Take("known")>> \o s) \o <<Drop("known")>>
  BY <1>1 DEF HandleText
<1>5. Sound(q)
  BY <1>2, <1>3, <1>4, SoundUnder DEF Sound
<1>6. Kinds(q, {"take", "drop"})
  <2>1. Kinds(q, {"take", "drop"} \cup {"take", "drop"})
    BY <1>2, <1>3, <1>4, KindsUnder
  <2> QED
    BY <2>1
<1>7. Quiet(q)
  BY <1>6 DEF Kinds, Quiet
<1>8. Reads(q)
  <2>1. /\ Len(q) = Len(s) + 2 /\ Len(s) \in Nat
        /\ q[1] = Take("known") /\ q[Len(s) + 2] = Drop("known")
        /\ \A i \in 1 .. Len(q) : \/ i = 1
                                  \/ i = Len(q)
                                  \/ i - 1 \in 1 .. Len(s) /\ q[i] = s[i - 1]
    BY <1>2, <1>3, <1>4, UnderPlaces
  <2>2. q[Len(q)] # Take("known") /\ q[1] # Drop("known")
    BY <2>1, LockFields
  <2> QED
    BY <1>3, <1>6, <2>1, <2>2 DEF Reads, Kinds, Apart, ReaderSteps
<1> QED
  BY <1>1, <1>5, <1>6, <1>7, <1>8 DEF Orderly, Sound, Closed

LEMMA FingerprintsOrderly ==
  Orderly("main", Fingerprints) /\ Sound(Fingerprints) /\ Kinds(Fingerprints, {"take", "drop"})
<1>1. PICK s, q : s = PPrint /\ q = Fingerprints
  OBVIOUS
<1>2. "tofu" \in Mutex
  BY DEF Mutex
<1>3. /\ s \in Seq(Steps) /\ Sound(s) /\ Apart(s, "tofu") /\ Kinds(s, {"take", "drop"})
  BY <1>1, PPrintSound DEF Sound
<1>4. q = (<<Take("tofu")>> \o s) \o <<Drop("tofu")>>
  BY <1>1 DEF Fingerprints
<1>5. Sound(q)
  BY <1>2, <1>3, <1>4, SoundUnder DEF Sound
<1>6. Kinds(q, {"take", "drop"})
  <2>1. Kinds(q, {"take", "drop"} \cup {"take", "drop"})
    BY <1>2, <1>3, <1>4, KindsUnder
  <2> QED
    BY <2>1
<1>7. Quiet(q) /\ Goes(q)
  BY <1>6, KindsGo DEF Kinds, Quiet
<1> QED
  BY <1>1, <1>5, <1>6, <1>7, MainOrderly

\* A line that reads the known keys.
LEMMA LookOrderly ==
  ASSUME NEW x \in Steps, x.do \in {"look", "recall"},
         NEW q, q = <<Take("known"), x, Drop("known")>>
  PROVE  Orderly("main", q) /\ Sound(q) /\ Kinds(q, {"take", "drop", "look", "recall"})
<1>1. PICK s : s = <<x>>
  OBVIOUS
<1>2. /\ s \in Seq(Steps) /\ Len(s) = 1 /\ s[1] = x
      /\ Sound(s) /\ Apart(s, "known") /\ Kinds(s, {"look", "recall"})
  <2>1. x.do \in Plain
    BY DEF Plain
  <2>2. s \in Seq(Steps) /\ Sound(s) /\ Kinds(s, {x.do}) /\ \A m : Apart(s, m)
    BY <1>1, <2>1, OneStepSound
  <2> QED
    BY <1>1, <2>2 DEF Kinds
<1>3. "known" \in Mutex /\ Take("known") \in Steps /\ Drop("known") \in Steps
  BY DEF Mutex, Steps
<1>4. q = (<<Take("known")>> \o s) \o <<Drop("known")>>
  BY <1>1, <1>3, Brackets, ZenonT(60)
<1>5. Sound(q)
  BY <1>2, <1>3, <1>4, SoundUnder DEF Sound
<1>6. Len(q) = 3 /\ q[1] = Take("known") /\ q[2] = x /\ q[3] = Drop("known")
  OBVIOUS
<1>7. q[1].do = "take" /\ q[3].do = "drop"
  BY <1>6, LockFields
<1>8. \A i \in 1 .. Len(q) : i = 1 \/ i = 2 \/ i = 3
  BY <1>6
<1>9. Kinds(q, {"take", "drop", "look", "recall"})
  BY <1>6, <1>7, <1>8 DEF Kinds
<1>10. Quiet(q)
  BY <1>9 DEF Kinds, Quiet
<1>11. Waits(q)
  <2> SUFFICES ASSUME NEW i \in 1 .. Len(q)
               PROVE  /\ q[i].do = "ask" => i = Len(q)
                      /\ q[i].do = "await" => Len(q) = 1
                      /\ q[i].do \in {"look", "recall"} =>
                           /\ Len(q) = i + 1 /\ q[i + 1] = Drop("known")
                           /\ i = 1 \/ (i = 2 /\ q[1] = Take("known"))
    BY DEF Waits
  <2>1. CASE i = 1
    BY <1>7, <2>1
  <2>2. CASE i = 2
    BY <1>6, <2>2
  <2>3. CASE i = 3
    BY <1>7, <2>3
  <2> QED
    BY <1>8, <2>1, <2>2, <2>3
<1> QED
  BY <1>5, <1>9, <1>10, <1>11 DEF Orderly, Sound, Closed

\* A line that asks, and the wait for the answer.
LEMMA AskOrderly ==
  ASSUME NEW x \in Steps, x.do \in {"ask", "await"}
  PROVE  Orderly("main", <<x>>) /\ Sound(<<x>>) /\ Kinds(<<x>>, {x.do})
<1>1. PICK q : q = <<x>>
  OBVIOUS
<1>2. x.do \in Plain
  BY DEF Plain
<1>3. q \in Seq(Steps) /\ Sound(q) /\ Quiet(q) /\ Kinds(q, {x.do})
  BY <1>1, <1>2, OneStepSound
<1>4. Len(q) = 1 /\ \A i \in 1 .. Len(q) : i = 1
  BY <1>1
<1>5. Waits(q)
  BY <1>3, <1>4 DEF Waits, Kinds
<1> QED
  BY <1>1, <1>3, <1>5 DEF Orderly, Sound, Closed

LEMMA NothingOrderly ==
  ASSUME NEW t \in Thread
  PROVE  Orderly(t, << >>) /\ Sound(<< >>) /\ \A K : Kinds(<< >>, K)
<1>1. PICK q : q = << >>
  OBVIOUS
<1>2. q \in Seq(Steps) /\ Len(q) = 0 /\ \A i \in 1 .. Len(q) : FALSE
  BY <1>1
<1>3. \A K : Kinds(q, K)
  BY <1>2 DEF Kinds
<1>4. Sound(q)
  BY <1>2, <1>3, SoundPlain
<1>5. Quiet(q) /\ Waits(q) /\ Reads(q)
  BY <1>2 DEF Quiet, Waits, Reads
<1> QED
  BY <1>1, <1>3, <1>4, <1>5 DEF Orderly, Sound, Closed

\* What is held when the known keys have still to be freed.
LEMMA DropHeld ==
  ASSUME NEW s \in Seq(Steps), Closed(s), NEW m \in Mutex
  PROVE  Held(<<Drop("known")>> \o s, m) <=> m = "known"
<1>1. PICK d : d = <<Drop("known")>>
  OBVIOUS
<1>2. d \in Seq(Steps) /\ Len(d) = 1 /\ d[1] = Drop("known")
  BY <1>1 DEF Steps, Mutex
<1>3. CASE m # "known"
  <2>1. Apart(d, m)
    <3>1. Drop("known") # Take(m) /\ Drop("known") # Drop(m)
      BY <1>3, LockFields
    <3> QED
      BY <1>2, <3>1 DEF Apart
  <2>2. HeldFrom(d \o s, 1, m) <=> Held(s, m)
    BY <1>2, <2>1, HeldThrough
  <2> QED
    BY <1>1, <1>3, <2>2 DEF Held, Closed
<1>4. CASE m = "known"
  <2>1. Len(d \o s) \in Nat /\ 1 \in 1 .. Len(d \o s) /\ (d \o s)[1] = Drop("known")
    BY <1>2, JoinPlaces
  <2>2. \A j \in 1 .. 1 - 1 : FALSE
    OBVIOUS
  <2> QED
    BY <1>1, <1>4, <2>1, <2>2 DEF Held, HeldFrom
<1> QED
  BY <1>3, <1>4

\* The list made of a table.
LEMMA ListedIs ==
  ASSUME NEW f \in Tables
  PROVE  Listed(f) \in Seq(Pairs)
<1>1. PICK S \in SUBSET Peer : f \in [S -> Entry]
  BY DEF Tables
<1>2. IsFiniteSet(DOMAIN f) /\ DOMAIN f = S
  BY <1>1, PeerAssumption, FS_Subset
<1>3. PICK q : q = SetToSeq(DOMAIN f)
  OBVIOUS
<1>4. q \in Seq(S)
  <2>1. Cardinality(S) \in Nat /\ ExistsBijection(1 .. Cardinality(S), S)
    BY <1>2, FS_CardinalityType
  <2>2. \E g \in [1 .. Cardinality(S) -> S] : IsInjective(g)
    BY <2>1 DEF ExistsBijection, Bijection, Injection
  <2>3. SetToSeq(S) \in [1 .. Cardinality(S) -> S]
    BY <2>2 DEF SetToSeq
  <2> QED
    BY <1>2, <1>3, <2>1, <2>3
<1> QED
  BY <1>1, <1>2, <1>3, <1>4 DEF Listed, Pairs

LEMMA EntryIs ==
  /\ Junk \in Entry /\ Empty \in Entry /\ NoKey \notin Entry
  /\ \A p \in Peer : Key[p] \subseteq Entry
<1>1. PICK U : U = UNION {Key[p] : p \in Peer}
  OBVIOUS
<1>2. Entry = U \cup {Empty, Junk}
  BY <1>1 DEF Entry
<1>3. NoKey \notin U /\ \A p \in Peer : Key[p] \subseteq U
  BY <1>1, NoKeyAssumption
<1> QED
  BY <1>2, <1>3, NoKeyAssumption

\* How the main thread goes on with an answer, be it to another question.
LEMMA GoOnOrderly ==
  ASSUME NEW w \in Reqs, NEW q \in Reqs, NEW r \in Answers(q)
  PROVE  /\ Orderly("main", GoOn(w, q, r)) /\ Sound(GoOn(w, q, r)) /\ SendsTested(GoOn(w, q, r))
         /\ Kinds(GoOn(w, q, r), {"take", "drop", "put", "test", "send"})
<1> DEFINE K == {"take", "drop", "put", "test", "send"}
<1>1. \A x \in Reqs : \/ x.ask = "members"
                      \/ x.ask = "pubkey" /\ x.of \in Peer
  BY DEF Reqs, AskKey, AskMembers
<1>2. CASE w.ask = "members"
  <2>1. PICK l : l = AsList(q, r)
    OBVIOUS
  <2>2. l \in Seq(Pairs)
    <3>1. CASE q.ask = "members"
      <4>1. r \in {Listed(f) : f \in Tables}
        BY <3>1 DEF Answers
      <4>2. PICK f \in Tables : r = Listed(f)
        BY <4>1
      <4>3. Listed(f) \in Seq(Pairs)
        BY <4>2, ListedIs
      <4> QED
        BY <2>1, <3>1, <4>2, <4>3 DEF AsList
    <3>2. CASE q.ask # "members"
      BY <2>1, <3>2 DEF AsList
    <3> QED
      BY <3>1, <3>2
  <2>3. GoOn(w, q, r) = (InsertKeys(l) \o EachSend(l)) \o PPrint
    BY <1>2, <2>1 DEF GoOn, EachSend
  <2> QED
    BY <2>2, <2>3, ListOrderly
<1>3. CASE w.ask # "members"
  <2>1. PICK e : e = <<w.of, AsKey(q, r)>>
    OBVIOUS
  <2>2. w.of \in Peer /\ AsKey(q, r) \in Entry \cup {NoKey}
    <3>1. CASE q.ask = "pubkey"
      <4>1. r \in {NoKey} \cup Key[q.of] /\ q.of \in Peer
        BY <1>1, <3>1 DEF Answers
      <4>2. Key[q.of] \subseteq Entry
        BY <4>1 DEF Entry
      <4> QED
        BY <1>1, <1>3, <3>1, <4>1, <4>2 DEF AsKey
    <3>2. CASE q.ask # "pubkey"
      <4>1. AsKey(q, r) = Junk
        BY <3>2 DEF AsKey
      <4>2. Junk \in Entry
        BY EntryIs
      <4>3. w.of \in Peer
        BY <1>1, <1>3
      <4> QED
        BY <4>1, <4>2, <4>3
    <3> QED
      BY <3>1, <3>2
  <2>3. CASE e[2] = NoKey
    <3>1. GoOn(w, q, r) = PPrint
      BY <1>3, <2>1, <2>3 DEF GoOn
    <3>2. /\ Orderly("main", PPrint) /\ Sound(PPrint) /\ Kinds(PPrint, {"take", "drop"})
          /\ PPrint \in Seq(Steps)
      BY PPrintOrderly, PPrintSound DEF Sound
    <3>3. SendsTested(PPrint)
      BY <3>2, NoSends DEF SendsTested
    <3>4. Kinds(PPrint, {"take", "drop", "put", "test", "send"})
      BY <3>2 DEF Kinds
    <3> QED
      BY <3>1, <3>2, <3>3, <3>4
  <2>4. CASE e[2] # NoKey
    <3>1. e \in Pairs
      BY <2>1, <2>2, <2>4 DEF Pairs
    <3>2. GoOn(w, q, r)
            = (<<Take("known"), Put(e), Drop("known")>> \o CheckTofu(e)) \o SendTo(e[1], e[2])
      BY <1>3, <2>1, <2>4 DEF GoOn
    <3> QED
      BY <3>1, <3>2, KeyOrderly
  <2> QED
    BY <2>3, <2>4
<1> QED
  BY <1>2, <1>3

-----------------------------------------------------------------------------
(* The threads and the mutexes *)

\* Types, the order of the steps, and who holds what.
Types ==
  /\ todo \in [Thread -> Seq(Steps)]
  /\ owner \in [Mutex -> Thread \cup {Free}]
  /\ known \in [Peer -> Entry \cup {NoKey}]
  /\ tofu \in [Peer -> Entry \cup {NoKey}]
  /\ disk = Torn \/ disk \in [Peer -> Entry \cup {NoKey}]
  /\ slot \in {"none", "live", "dead"}
  /\ wire \in Seq(Reqs)
  /\ torn \in BOOLEAN
  /\ lines \in 0 .. Lines /\ frames \in 0 .. Frames /\ kills \in 0 .. Kills
  /\ pinned \subseteq Pairs /\ warned \subseteq Pairs /\ used \subseteq Pairs

InOrder == \A t \in Thread : Orderly(t, todo[t])
Locked == \A t \in Thread, m \in Mutex : owner[m] = t <=> Held(todo[t], m)
Waiting == slot = "live" <=> Step("main", "await")

ThreadsOK == Types /\ InOrder /\ Locked /\ Waiting

LEMMA ThreadsOKIs == ThreadsOK => ConsoleOK
<1> SUFFICES ASSUME ThreadsOK
             PROVE  ConsoleOK
  OBVIOUS
<1>1. ASSUME NEW t \in Thread, NEW m \in Mutex
      PROVE  Holds(t, m) <=> Held(todo[t], m)
  <2>1. todo[t] \in Seq(Steps)
    BY DEF ThreadsOK, Types
  <2>2. DOMAIN todo[t] = 1 .. Len(todo[t])
    BY <2>1
  <2> QED
    BY <2>2 DEF Holds, Held, HeldFrom
<1> QED
  BY <1>1 DEF ThreadsOK, Types, Locked, Waiting, ConsoleOK, Pairs, Reqs

\* Thread t goes on with q.
LEMMA ThreadsKept ==
  ASSUME ThreadsOK, NEW t \in Thread, NEW q, Orderly(t, q), todo' = [todo EXCEPT ![t] = q],
         \A m \in Mutex : owner'[m] = t <=> Held(q, m),
         \A u \in Thread, m \in Mutex : u # t => (owner'[m] = u <=> owner[m] = u)
  PROVE  /\ todo' \in [Thread -> Seq(Steps)] /\ InOrder' /\ Locked'
         /\ todo'[t] = q /\ \A u \in Thread : u # t => todo'[u] = todo[u]
<1>1. q \in Seq(Steps) /\ todo \in [Thread -> Seq(Steps)]
  BY DEF Orderly, ThreadsOK, Types
<1>2. /\ todo' \in [Thread -> Seq(Steps)]
      /\ todo'[t] = q /\ \A u \in Thread : u # t => todo'[u] = todo[u]
  BY <1>1
<1>3. InOrder'
  <2> SUFFICES ASSUME NEW u \in Thread
               PROVE  Orderly(u, todo'[u])
    BY DEF InOrder
  <2>1. CASE u = t
    BY <1>2, <2>1
  <2>2. CASE u # t
    BY <1>2, <2>2 DEF ThreadsOK, InOrder
  <2> QED
    BY <2>1, <2>2
<1>4. Locked'
  <2> SUFFICES ASSUME NEW u \in Thread, NEW m \in Mutex
               PROVE  owner'[m] = u <=> Held(todo'[u], m)
    BY DEF Locked
  <2>1. CASE u = t
    BY <1>2, <2>1
  <2>2. CASE u # t
    BY <1>2, <2>2 DEF ThreadsOK, Locked
  <2> QED
    BY <2>1, <2>2
<1> QED
  BY <1>2, <1>3, <1>4

LEMMA StepFacts ==
  ASSUME ThreadsOK, NEW t \in Thread, NEW what, Step(t, what)
  PROVE  /\ todo[t] \in Seq(Steps) /\ todo[t] # << >> /\ Len(todo[t]) \in Nat \ {0}
         /\ Head(todo[t]) = todo[t][1] /\ todo[t][1] \in Steps /\ todo[t][1].do = what
         /\ Orderly(t, todo[t]) /\ Orderly(t, Tail(todo[t])) /\ Tail(todo[t]) \in Seq(Steps)
         /\ << >> \o Tail(todo[t]) = Tail(todo[t])
         /\ \A m \in Mutex : owner[m] = t <=> Held(todo[t], m)
<1>1. todo[t] \in Seq(Steps) /\ todo[t] # << >> /\ Head(todo[t]).do = what /\ Orderly(t, todo[t])
  BY DEF ThreadsOK, Types, InOrder, Step
<1>2. PICK s : s = todo[t]
  OBVIOUS
<1>3. /\ Tail(s) \in Seq(Steps) /\ Len(s) \in Nat \ {0} /\ Head(s) = s[1] /\ s[1] \in Steps
  BY <1>1, <1>2, TailPlaces
<1>4. Orderly(t, Tail(s))
  BY <1>1, <1>2, TailOrderly
<1>5. << >> \o Tail(s) = Tail(s)
  BY <1>3, ConcatEmptySeq
<1> QED
  BY <1>1, <1>2, <1>3, <1>4, <1>5 DEF ThreadsOK, Locked

\* The main thread never comes upon a wait that it has not begun.
LEMMA NoAwaitNext ==
  ASSUME NEW s, Orderly("main", s), s # << >>
  PROVE  Tail(s) = << >> \/ Head(Tail(s)).do # "await"
<1>1. s \in Seq(Steps) /\ Waits(s)
  BY DEF Orderly
<1>2. PICK q : q = Tail(s)
  OBVIOUS
<1>3. /\ q \in Seq(Steps) /\ Len(q) = Len(s) - 1 /\ Len(s) \in Nat \ {0}
      /\ \A i \in 1 .. Len(s) - 1 : q[i] = s[i + 1]
  BY <1>1, <1>2, TailPlaces
<1>4. CASE Len(s) > 1
  <2>1. Head(q) = q[1] /\ q[1] = s[2] /\ 2 \in 1 .. Len(s)
    BY <1>3, <1>4
  <2> QED
    BY <1>1, <1>2, <1>4, <2>1 DEF Waits
<1>5. CASE Len(s) = 1
  BY <1>2, <1>3, <1>5
<1> QED
  BY <1>3, <1>4, <1>5

LEMMA TailWaits ==
  ASSUME ThreadsOK, NEW t \in Thread, NEW what, Step(t, what), what # "await", UNCHANGED slot,
         todo'[t] = Tail(todo[t]), \A u \in Thread : u # t => todo'[u] = todo[u]
  PROVE  Waiting'
<1>1. CASE t = "main"
  <2>1. slot # "live"
    BY <1>1 DEF ThreadsOK, Waiting, Step
  <2>2. Tail(todo["main"]) = << >> \/ Head(Tail(todo["main"])).do # "await"
    BY <1>1, StepFacts, NoAwaitNext
  <2> QED
    BY <1>1, <2>1, <2>2 DEF Waiting, Step
<1>2. CASE t # "main"
  BY <1>2 DEF ThreadsOK, Waiting, Step, Thread
<1> QED
  BY <1>1, <1>2

\* One step less, of those that take and free nothing.
LEMMA TailKeeps ==
  ASSUME ThreadsOK, NEW t \in Thread, NEW what, Step(t, what), what \notin {"take", "drop", "await"},
         ThenFirst(t, << >>), UNCHANGED <<owner, slot>>
  PROVE  /\ todo' \in [Thread -> Seq(Steps)] /\ InOrder' /\ Locked' /\ Waiting'
<1>1. /\ todo[t] \in Seq(Steps) /\ todo[t] # << >>
      /\ todo[t][1].do = what /\ Head(todo[t]).do = what
      /\ Orderly(t, todo[t]) /\ Orderly(t, Tail(todo[t]))
      /\ << >> \o Tail(todo[t]) = Tail(todo[t])
      /\ \A m \in Mutex : owner[m] = t <=> Held(todo[t], m)
  BY StepFacts
<1>2. todo' = [todo EXCEPT ![t] = Tail(todo[t])]
  BY <1>1 DEF ThenFirst, ThreadsOK, Types
<1>3. \A m \in Mutex : owner'[m] = t <=> Held(Tail(todo[t]), m)
  <2> SUFFICES ASSUME NEW m \in Mutex
               PROVE  Held(Tail(todo[t]), m) <=> Held(todo[t], m)
    BY <1>1
  <2>1. todo[t][1] \notin {Take(m), Drop(m)}
    BY <1>1, LockFields
  <2> QED
    BY <1>1, <2>1, HeldHead DEF Orderly
<1>4. /\ todo' \in [Thread -> Seq(Steps)] /\ InOrder' /\ Locked'
      /\ todo'[t] = Tail(todo[t]) /\ \A u \in Thread : u # t => todo'[u] = todo[u]
  BY <1>1, <1>2, <1>3, ThreadsKept
<1>5. Waiting'
  BY <1>4, TailWaits
<1> QED
  BY <1>4, <1>5

LEMMA AcquireOK == ASSUME ThreadsOK, NEW t \in Thread, Acquire(t) PROVE ThreadsOK'
<1>1. Step(t, "take") /\ ThenFirst(t, << >>)
  BY DEF Acquire
<1>2. /\ todo[t] \in Seq(Steps) /\ todo[t] # << >>
      /\ Head(todo[t]) = todo[t][1] /\ todo[t][1] \in Steps /\ todo[t][1].do = "take"
      /\ Orderly(t, todo[t]) /\ Orderly(t, Tail(todo[t]))
      /\ << >> \o Tail(todo[t]) = Tail(todo[t])
      /\ \A m \in Mutex : owner[m] = t <=> Held(todo[t], m)
  BY <1>1, StepFacts
<1>3. PICK k \in Mutex : todo[t][1] = Take(k) /\ Head(todo[t]).mutex = k
  BY <1>2, StepIs
<1>4. /\ todo' = [todo EXCEPT ![t] = Tail(todo[t])]
      /\ owner[k] = Free /\ owner' = [owner EXCEPT ![k] = t]
      /\ UNCHANGED <<known, tofu, disk, slot, wire, counts, history>>
  BY <1>2, <1>3 DEF Acquire, ThenFirst, ThreadsOK, Types, keys, conn
<1>5. owner \in [Mutex -> Thread \cup {Free}] /\ \A u \in Thread : u # Free
  BY DEF ThreadsOK, Types, Thread, Free
<1>6. \A m \in Mutex : owner'[m] = t <=> Held(Tail(todo[t]), m)
  <2> SUFFICES ASSUME NEW m \in Mutex
               PROVE  owner'[m] = t <=> Held(Tail(todo[t]), m)
    OBVIOUS
  <2>1. CASE m = k
    BY <1>2, <1>3, <1>4, <1>5, <2>1, HeldHead DEF Orderly
  <2>2. CASE m # k
    <3>1. todo[t][1] # Take(m) /\ todo[t][1] # Drop(m)
      BY <1>3, <2>2, LockFields
    <3>2. Held(Tail(todo[t]), m) <=> Held(todo[t], m)
      BY <1>2, <3>1, HeldHead DEF Orderly
    <3> QED
      BY <1>2, <1>4, <1>5, <2>2, <3>2
  <2> QED
    BY <2>1, <2>2
<1>7. \A u \in Thread, m \in Mutex : u # t => (owner'[m] = u <=> owner[m] = u)
  BY <1>4, <1>5
<1>8. /\ todo' \in [Thread -> Seq(Steps)] /\ InOrder' /\ Locked'
      /\ todo'[t] = Tail(todo[t]) /\ \A u \in Thread : u # t => todo'[u] = todo[u]
  BY <1>2, <1>4, <1>6, <1>7, ThreadsKept
<1>9. Waiting'
  BY <1>1, <1>4, <1>8, TailWaits
<1>10. Types'
  BY <1>4, <1>5, <1>8 DEF ThreadsOK, Types, counts, history
<1> QED
  BY <1>8, <1>9, <1>10 DEF ThreadsOK

LEMMA ReleaseOK == ASSUME ThreadsOK, NEW t \in Thread, Release(t) PROVE ThreadsOK'
<1>1. Step(t, "drop") /\ ThenFirst(t, << >>)
  BY DEF Release
<1>2. /\ todo[t] \in Seq(Steps) /\ todo[t] # << >>
      /\ Head(todo[t]) = todo[t][1] /\ todo[t][1] \in Steps /\ todo[t][1].do = "drop"
      /\ Orderly(t, todo[t]) /\ Orderly(t, Tail(todo[t]))
      /\ << >> \o Tail(todo[t]) = Tail(todo[t])
      /\ \A m \in Mutex : owner[m] = t <=> Held(todo[t], m)
  BY <1>1, StepFacts
<1>3. PICK k \in Mutex : todo[t][1] = Drop(k) /\ Head(todo[t]).mutex = k
  BY <1>2, StepIs
<1>4. /\ todo' = [todo EXCEPT ![t] = Tail(todo[t])]
      /\ owner' = [owner EXCEPT ![k] = Free]
      /\ UNCHANGED <<known, tofu, disk, slot, wire, counts, history>>
  BY <1>2, <1>3 DEF Release, ThenFirst, ThreadsOK, Types, keys, conn
<1>5. owner \in [Mutex -> Thread \cup {Free}] /\ \A u \in Thread : u # Free
  BY DEF ThreadsOK, Types, Thread, Free
<1>6. owner[k] = t
  BY <1>2, <1>3, HeldHead DEF Orderly
<1>7. \A m \in Mutex : owner'[m] = t <=> Held(Tail(todo[t]), m)
  <2> SUFFICES ASSUME NEW m \in Mutex
               PROVE  owner'[m] = t <=> Held(Tail(todo[t]), m)
    OBVIOUS
  <2>1. CASE m = k
    BY <1>2, <1>3, <1>4, <1>5, <2>1, HeldHead DEF Orderly
  <2>2. CASE m # k
    <3>1. todo[t][1] # Take(m) /\ todo[t][1] # Drop(m)
      BY <1>3, <2>2, LockFields
    <3>2. Held(Tail(todo[t]), m) <=> Held(todo[t], m)
      BY <1>2, <3>1, HeldHead DEF Orderly
    <3> QED
      BY <1>2, <1>4, <1>5, <2>2, <3>2
  <2> QED
    BY <2>1, <2>2
<1>8. \A u \in Thread, m \in Mutex : u # t => (owner'[m] = u <=> owner[m] = u)
  BY <1>4, <1>5, <1>6
<1>9. /\ todo' \in [Thread -> Seq(Steps)] /\ InOrder' /\ Locked'
      /\ todo'[t] = Tail(todo[t]) /\ \A u \in Thread : u # t => todo'[u] = todo[u]
  BY <1>2, <1>4, <1>7, <1>8, ThreadsKept
<1>10. Waiting'
  BY <1>1, <1>4, <1>9, TailWaits
<1>11. Types'
  BY <1>4, <1>5, <1>9 DEF ThreadsOK, Types, counts, history
<1> QED
  BY <1>9, <1>10, <1>11 DEF ThreadsOK

LEMMA StoreKeyOK == ASSUME ThreadsOK, NEW t \in Thread, StoreKey(t) PROVE ThreadsOK'
<1>1. Step(t, "put") /\ ThenFirst(t, << >>) /\ UNCHANGED <<owner, slot>>
  BY DEF StoreKey, conn
<1>2. todo' \in [Thread -> Seq(Steps)] /\ InOrder' /\ Locked' /\ Waiting'
  BY <1>1, TailKeeps
<1>3. Head(todo[t]).name \in Peer /\ Head(todo[t]).key \in Entry
  BY <1>1, StepFacts, StepIs
<1>4. known' \in [Peer -> Entry \cup {NoKey}]
  BY <1>3 DEF StoreKey, ThreadsOK, Types
<1>5. Types'
  BY <1>2, <1>4 DEF StoreKey, ThreadsOK, Types, conn, counts, history
<1> QED
  BY <1>2, <1>5 DEF ThreadsOK

LEMMA ReportOK == ASSUME ThreadsOK, NEW t \in Thread, Report(t) PROVE ThreadsOK'
<1>1. Step(t, "warn") /\ ThenFirst(t, << >>) /\ UNCHANGED <<owner, slot>>
  BY DEF Report, conn
<1>2. todo' \in [Thread -> Seq(Steps)] /\ InOrder' /\ Locked' /\ Waiting'
  BY <1>1, TailKeeps
<1>3. <<Head(todo[t]).name, Head(todo[t]).key>> \in Pairs
  BY <1>1, StepFacts, StepIs
<1>4. Types'
  BY <1>2, <1>3 DEF Report, ThreadsOK, Types, keys, conn, counts
<1> QED
  BY <1>2, <1>4 DEF ThreadsOK

LEMMA TruncateFileOK == ASSUME ThreadsOK, NEW t \in Thread, TruncateFile(t) PROVE ThreadsOK'
<1>1. Step(t, "truncate") /\ ThenFirst(t, << >>) /\ UNCHANGED <<owner, slot>>
  BY DEF TruncateFile, conn
<1>2. todo' \in [Thread -> Seq(Steps)] /\ InOrder' /\ Locked' /\ Waiting'
  BY <1>1, TailKeeps
<1>3. Types'
  BY <1>2 DEF TruncateFile, ThreadsOK, Types, conn, counts, history
<1> QED
  BY <1>2, <1>3 DEF ThreadsOK

LEMMA WriteFileOK == ASSUME ThreadsOK, NEW t \in Thread, WriteFile(t) PROVE ThreadsOK'
<1>1. Step(t, "write") /\ ThenFirst(t, << >>) /\ UNCHANGED <<owner, slot>>
  BY DEF WriteFile, conn
<1>2. todo' \in [Thread -> Seq(Steps)] /\ InOrder' /\ Locked' /\ Waiting'
  BY <1>1, TailKeeps
<1>3. Types'
  BY <1>2 DEF WriteFile, ThreadsOK, Types, conn, counts, history
<1> QED
  BY <1>2, <1>3 DEF ThreadsOK

LEMMA EncryptOK == ASSUME ThreadsOK, Encrypt PROVE ThreadsOK'
<1>1. "main" \in Thread /\ Step("main", "send") /\ ThenFirst("main", << >>) /\ UNCHANGED <<owner, slot>>
  BY DEF Encrypt, conn, Thread
<1>2. todo' \in [Thread -> Seq(Steps)] /\ InOrder' /\ Locked' /\ Waiting'
  BY <1>1, TailKeeps
<1>3. <<Head(todo["main"]).name, Head(todo["main"]).key>> \in Pairs
  BY <1>1, StepFacts, StepIs
<1>4. Types'
  BY <1>2, <1>3 DEF Encrypt, ThreadsOK, Types, keys, conn, counts
<1> QED
  BY <1>2, <1>4 DEF ThreadsOK

LEMMA TrustOK == ASSUME ThreadsOK, Trust PROVE ThreadsOK'
<1>1. "main" \in Thread /\ Step("main", "pin") /\ ThenFirst("main", << >>) /\ UNCHANGED <<owner, slot>>
  BY DEF Trust, conn, Thread
<1>2. todo' \in [Thread -> Seq(Steps)] /\ InOrder' /\ Locked' /\ Waiting'
  BY <1>1, TailKeeps
<1>3. Head(todo["main"]).name \in Peer /\ Head(todo["main"]).key \in Entry
  <2>1. /\ Head(todo["main"]) = todo["main"][1] /\ todo["main"][1] \in Steps
        /\ todo["main"][1].do = "pin"
    BY <1>1, StepFacts
  <2> QED
    BY <2>1, StepIs
<1>4. tofu' \in [Peer -> Entry \cup {NoKey}]
  BY <1>3 DEF Trust, ThreadsOK, Types
<1>5. Types'
  BY <1>2, <1>4 DEF Trust, ThreadsOK, Types, conn, counts, history
<1> QED
  BY <1>2, <1>5 DEF ThreadsOK

\* What a comparison goes on with.
LEMMA CompareMoves ==
  ASSUME ThreadsOK, NEW t \in Thread, Compare(t)
  PROVE  /\ Step(t, "test")
         /\ \E e \in Pairs, a \in Seq(Steps) :
              /\ todo[t][1] = Test(e)
              /\ \/ tofu[e[1]] = NoKey /\ a = Save
                    /\ tofu' = [tofu EXCEPT ![e[1]] = e[2]] /\ pinned' = pinned \cup {e}
                 \/ tofu[e[1]] = e[2] /\ a = << >> /\ UNCHANGED <<tofu, pinned>>
                 \/ /\ tofu[e[1]] \notin {NoKey, e[2]} /\ UNCHANGED <<tofu, pinned>>
                    /\ a = <<Take("print"), Warn(e[1], e[2]), Drop("print")>>
              /\ todo' = [todo EXCEPT ![t] = a \o Tail(todo[t])]
              /\ Closed(a) /\ Apart(a, "known") /\ Apart(a, "tofu")
              /\ Kinds(a, {"take", "drop", "warn", "truncate", "write"})
              /\ a # << >> => a[1].do \in {"take", "truncate"}
<1>1. Step(t, "test")
  BY DEF Compare
<1>2. PICK n, k, e : n = Head(todo[t]).name /\ k = Head(todo[t]).key /\ e = <<n, k>>
  OBVIOUS
<1>3. e \in Pairs /\ todo[t][1] = Test(e) /\ e[1] = n /\ e[2] = k
  BY <1>1, <1>2, StepFacts, StepIs
<1>4. \/ /\ tofu[n] = NoKey /\ tofu' = [tofu EXCEPT ![n] = k] /\ pinned' = pinned \cup {<<n, k>>}
         /\ ThenFirst(t, Save)
      \/ tofu[n] = k /\ ThenFirst(t, << >>) /\ UNCHANGED <<tofu, pinned>>
      \/ /\ tofu[n] \notin {NoKey, k} /\ UNCHANGED <<tofu, pinned>>
         /\ ThenFirst(t, <<Take("print"), Warn(n, k), Drop("print")>>)
  BY <1>2 DEF Compare
<1>5. \A a : ThenFirst(t, a) => todo' = [todo EXCEPT ![t] = a \o Tail(todo[t])]
  BY DEF ThenFirst, ThreadsOK, Types
<1>6. CASE tofu[n] = NoKey /\ tofu' = [tofu EXCEPT ![n] = k] /\ pinned' = pinned \cup {<<n, k>>}
           /\ ThenFirst(t, Save)
  <2>1. PICK a : a = Save
    OBVIOUS
  <2>2. /\ a \in Seq(Steps) /\ Closed(a) /\ Apart(a, "known") /\ Apart(a, "tofu")
        /\ Kinds(a, {"truncate", "write"}) /\ a[1].do \in {"take", "truncate"}
    BY <2>1, SaveBalanced, OtherFields
  <2>3. Kinds(a, {"take", "drop", "warn", "truncate", "write"})
    BY <2>2 DEF Kinds
  <2>4. todo' = [todo EXCEPT ![t] = a \o Tail(todo[t])]
    BY <1>5, <1>6, <2>1
  <2>5. tofu' = [tofu EXCEPT ![e[1]] = e[2]] /\ pinned' = pinned \cup {e} /\ tofu[e[1]] = NoKey
    BY <1>2, <1>3, <1>6
  <2> QED
    BY <1>1, <1>3, <2>1, <2>2, <2>3, <2>4, <2>5
<1>7. CASE tofu[n] = k /\ ThenFirst(t, << >>) /\ UNCHANGED <<tofu, pinned>>
  <2>1. PICK a : a = << >>
    OBVIOUS
  <2>2. Closed(a) /\ a \in Seq(Steps) /\ Kinds(a, {"take", "drop", "warn", "truncate", "write"})
    BY <2>1, NothingOrderly DEF Sound
  <2>3. Len(a) = 0 /\ Apart(a, "known") /\ Apart(a, "tofu")
    BY <2>1 DEF Apart
  <2>4. todo' = [todo EXCEPT ![t] = a \o Tail(todo[t])]
    BY <1>5, <1>7, <2>1
  <2> QED
    BY <1>1, <1>3, <1>7, <2>1, <2>2, <2>3, <2>4
<1>8. CASE /\ tofu[n] \notin {NoKey, k} /\ UNCHANGED <<tofu, pinned>>
           /\ ThenFirst(t, <<Take("print"), Warn(n, k), Drop("print")>>)
  <2>1. PICK a : a = <<Take("print"), Warn(e[1], e[2]), Drop("print")>>
    OBVIOUS
  <2>2. /\ a \in Seq(Steps) /\ Closed(a) /\ Apart(a, "known") /\ Apart(a, "tofu")
        /\ Kinds(a, {"take", "warn", "drop"}) /\ a[1].do = "take"
    BY <1>3, <2>1, WarnBalanced, LockFields
  <2>3. Kinds(a, {"take", "drop", "warn", "truncate", "write"})
    BY <2>2 DEF Kinds
  <2>4. todo' = [todo EXCEPT ![t] = a \o Tail(todo[t])]
    BY <1>3, <1>5, <1>8, <2>1
  <2> QED
    BY <1>1, <1>3, <1>8, <2>1, <2>2, <2>3, <2>4
<1> QED
  BY <1>4, <1>6, <1>7, <1>8

LEMMA CompareOK == ASSUME ThreadsOK, NEW t \in Thread, Compare(t) PROVE ThreadsOK'
<1>1. Step(t, "test")
  BY CompareMoves
<1>2. PICK e \in Pairs, a \in Seq(Steps) :
        /\ \/ tofu' = [tofu EXCEPT ![e[1]] = e[2]] /\ pinned' = pinned \cup {e}
           \/ UNCHANGED <<tofu, pinned>>
        /\ todo' = [todo EXCEPT ![t] = a \o Tail(todo[t])]
        /\ Closed(a) /\ Apart(a, "known") /\ Apart(a, "tofu")
        /\ Kinds(a, {"take", "drop", "warn", "truncate", "write"})
        /\ a # << >> => a[1].do \in {"take", "truncate"}
  BY CompareMoves
<1>3. /\ todo[t] \in Seq(Steps) /\ todo[t] # << >> /\ todo[t][1].do = "test"
      /\ Orderly(t, todo[t]) /\ Tail(todo[t]) \in Seq(Steps)
      /\ << >> \o Tail(todo[t]) = Tail(todo[t])
      /\ \A m \in Mutex : owner[m] = t <=> Held(todo[t], m)
  BY <1>1, StepFacts
<1>4. PICK q : q = a \o Tail(todo[t])
  OBVIOUS
<1>5. Orderly(t, q) /\ \A m \in Mutex : Held(q, m) <=> Held(todo[t], m)
  <2>1. Balanced(a)
    BY <1>2 DEF Closed
  <2>2. Orderly(t, q) /\ \A m \in Mutex : Held(q, m) <=> Held(a, m) \/ Held(Tail(todo[t]), m)
    BY <1>2, <1>3, <1>4, <2>1, InsertOrderly
  <2>3. ASSUME NEW m \in Mutex
        PROVE  Held(Tail(todo[t]), m) <=> Held(todo[t], m)
    <3>1. todo[t][1] # Take(m) /\ todo[t][1] # Drop(m)
      BY <1>3, LockFields
    <3> QED
      BY <1>3, <3>1, HeldHead DEF Orderly
  <2> QED
    BY <1>2, <2>2, <2>3 DEF Closed
<1>6. UNCHANGED <<owner, known, disk, slot, wire, counts, warned, used, torn>>
  BY DEF Compare, conn
<1>7. /\ todo' \in [Thread -> Seq(Steps)] /\ InOrder' /\ Locked'
      /\ todo'[t] = q /\ \A u \in Thread : u # t => todo'[u] = todo[u]
  <2>1. todo' = [todo EXCEPT ![t] = q]
    BY <1>2, <1>4
  <2> QED
    BY <1>3, <1>5, <1>6, <2>1, ThreadsKept, ZenonT(60)
<1>8. Waiting'
  <2>1. CASE t = "main" /\ a = << >>
    <3>1. todo'[t] = Tail(todo[t])
      BY <1>3, <1>4, <1>7, <2>1
    <3> QED
      BY <1>1, <1>6, <1>7, <3>1, TailWaits
  <2>2. CASE t = "main" /\ a # << >>
    <3>1. slot # "live"
      BY <1>1, <2>2 DEF ThreadsOK, Waiting, Step
    <3>2. Head(q) = a[1]
      <4>1. q # << >> /\ q \in Seq(Steps) /\ q[1] = a[1]
        <5>1. 1 \in 1 .. Len(a)
          BY <2>2
        <5>2. /\ \A i \in 1 .. Len(a) : (a \o Tail(todo[t]))[i] = a[i]
              /\ a \o Tail(todo[t]) \in Seq(Steps)
              /\ Len(a \o Tail(todo[t])) = Len(a) + Len(Tail(todo[t]))
          BY <1>3, JoinPlaces
        <5> QED
          BY <1>3, <1>4, <5>1, <5>2
      <4> QED
        BY <4>1
    <3> QED
      BY <1>2, <1>6, <1>7, <2>2, <3>1, <3>2 DEF Waiting, Step
  <2>3. CASE t # "main"
    BY <1>6, <1>7, <2>3 DEF ThreadsOK, Waiting, Step, Thread
  <2> QED
    BY <2>1, <2>2, <2>3
<1>9. e[1] \in Peer /\ e[2] \in Entry
  BY PairParts
<1>10. tofu' \in [Peer -> Entry \cup {NoKey}] /\ pinned' \subseteq Pairs
  BY <1>2, <1>9 DEF ThreadsOK, Types
<1>11. Types'
  BY <1>6, <1>7, <1>10 DEF ThreadsOK, Types, counts
<1> QED
  BY <1>7, <1>8, <1>11 DEF ThreadsOK

LEMMA OneStepOK == ASSUME ThreadsOK, NEW t \in Thread, OneStep(t) PROVE ThreadsOK'
BY AcquireOK, ReleaseOK, StoreKeyOK, CompareOK, ReportOK, TruncateFileOK, WriteFileOK DEF OneStep

\* A thread that holds nothing begins with what holds nothing.
LEMMA StartOK ==
  ASSUME ThreadsOK, NEW t \in Thread, NEW q, Orderly(t, q), Sound(q),
         todo' = [todo EXCEPT ![t] = q], UNCHANGED owner,
         \A m \in Mutex : ~Held(todo[t], m)
  PROVE  /\ todo' \in [Thread -> Seq(Steps)] /\ InOrder' /\ Locked'
         /\ todo'[t] = q /\ \A u \in Thread : u # t => todo'[u] = todo[u]
<1>1. \A m \in Mutex : owner[m] = t <=> Held(todo[t], m)
  BY DEF ThreadsOK, Locked
<1>2. \A m \in Mutex : owner'[m] = t <=> Held(q, m)
  BY <1>1 DEF Sound, Closed
<1> QED
  BY <1>2, ThreadsKept

\* The main thread does not wait.
LEMMA StartWaits ==
  ASSUME NEW q, NEW K, Kinds(q, K), "await" \notin K, q \in Seq(Steps),
         todo'["main"] = q, slot' # "live"
  PROVE  Waiting'
<1>1. ASSUME q # << >>
      PROVE  Head(q).do # "await"
  <2>1. Head(q) = q[1] /\ 1 \in 1 .. Len(q)
    BY <1>1
  <2> QED
    BY <2>1 DEF Kinds
<1> QED
  BY <1>1 DEF Waiting, Step

\* Nothing begun, nothing held.
LEMMA EmptyHolds == \A m : ~Held(<< >>, m)
<1>1. PICK q : q = << >>
  OBVIOUS
<1>2. Len(q) = 0
  BY <1>1
<1> QED
  BY <1>1, <1>2 DEF Held, HeldFrom

\* A request is all that the main thread has still to do, and a look at the
\* known keys is followed by their release.
LEMMA LastSteps ==
  ASSUME ThreadsOK, NEW what, Step("main", what)
  PROVE  /\ what \in {"ask", "await"} =>
              /\ Tail(todo["main"]) = << >> /\ Len(todo["main"]) = 1
              /\ \A m \in Mutex : ~Held(todo["main"], m)
         /\ what \in {"look", "recall"} =>
              /\ Tail(todo["main"]) = <<Drop("known")>> /\ Len(todo["main"]) = 2
              /\ todo["main"][2] = Drop("known")
              /\ \A m \in Mutex : Held(todo["main"], m) <=> m = "known"
<1>1. "main" \in Thread
  BY DEF Thread
<1>2. /\ todo["main"] \in Seq(Steps) /\ todo["main"] # << >>
      /\ todo["main"][1].do = what /\ Orderly("main", todo["main"])
      /\ Tail(todo["main"]) \in Seq(Steps)
  BY <1>1, StepFacts
<1>3. PICK s, q : s = todo["main"] /\ q = Tail(s)
  OBVIOUS
<1>4. /\ q \in Seq(Steps) /\ Len(q) = Len(s) - 1 /\ Len(s) \in Nat \ {0}
      /\ \A i \in 1 .. Len(s) - 1 : q[i] = s[i + 1]
  BY <1>2, <1>3, TailPlaces
<1>5. 1 \in 1 .. Len(s) /\ Waits(s)
  BY <1>2, <1>3, <1>4 DEF Orderly
<1>6. ASSUME NEW m \in Mutex, what \notin {"take", "drop"}
      PROVE  Held(q, m) <=> Held(s, m)
  <2>1. s[1] # Take(m) /\ s[1] # Drop(m)
    BY <1>2, <1>3, <1>6, LockFields
  <2> QED
    BY <1>2, <1>3, <2>1, HeldHead DEF Orderly
<1>7. ASSUME what \in {"ask", "await"}
      PROVE  q = << >> /\ Len(s) = 1 /\ \A m \in Mutex : ~Held(s, m)
  <2>1. Len(s) = 1
    BY <1>2, <1>3, <1>5, <1>7 DEF Waits
  <2>2. q = << >>
    BY <1>4, <2>1
  <2>3. ASSUME NEW m \in Mutex
        PROVE  ~Held(s, m)
    BY <1>6, <1>7, <2>2, EmptyHolds
  <2> QED
    BY <2>1, <2>2, <2>3
<1>8. ASSUME what \in {"look", "recall"}
      PROVE  /\ q = <<Drop("known")>> /\ Len(s) = 2 /\ s[2] = Drop("known")
             /\ \A m \in Mutex : Held(s, m) <=> m = "known"
  <2>1. Len(s) = 1 + 1 /\ s[1 + 1] = Drop("known")
    BY <1>2, <1>3, <1>5, <1>8 DEF Waits
  <2>2. Len(q) = 1 /\ q[1] = Drop("known")
    BY <1>4, <2>1
  <2>3. q = <<Drop("known")>>
    BY <1>4, <2>2
  <2>4. ASSUME NEW m \in Mutex
        PROVE  Held(q, m) <=> m = "known"
    <3>1. CASE m = "known"
      BY <2>2, <3>1 DEF Held, HeldFrom
    <3>2. CASE m # "known"
      <4>1. q[1] # Drop(m)
        BY <2>2, <3>2, LockFields
      <4> QED
        BY <2>2, <3>2, <4>1 DEF Held, HeldFrom
    <3> QED
      BY <3>1, <3>2
  <2>5. ASSUME NEW m \in Mutex
        PROVE  Held(s, m) <=> m = "known"
    BY <1>6, <1>8, <2>4
  <2> QED
    BY <2>1, <2>3, <2>5
<1> QED
  BY <1>3, <1>7, <1>8

\* What the key known of a name makes of a look-up, and of /trust.
LEMMA LookUpGoes ==
  ASSUME Types, NEW n \in Peer, NEW k, k = known[n],
         NEW q, q = (IF k = NoKey THEN <<Ask(AskKey(n))>> ELSE SendTo(n, k))
  PROVE  /\ q \in Seq(Steps) /\ Sound(q) /\ Quiet(q) /\ Goes(q)
         /\ Kinds(q, {"ask", "send", "take", "drop"})
         /\ \A e \in Pairs, i \in 1 .. Len(q) : q[i] = Send(e) => known[e[1]] = e[2]
         /\ \A e \in Pairs, i \in 1 .. Len(q) : q[i] # Pin(e[1], e[2])
<1>1. CASE k = NoKey
  <2>1. PICK x : x = Ask(AskKey(n))
    OBVIOUS
  <2>2. x \in Steps /\ x.do = "ask" /\ "ask" \in Plain /\ q = <<x>>
    BY <1>1, <2>1, OtherFields DEF Steps, Reqs, Plain
  <2>3. q \in Seq(Steps) /\ Sound(q) /\ Quiet(q) /\ Kinds(q, {"ask"})
    BY <2>2, OneStepSound
  <2>4. Len(q) = 1
    BY <2>2
  <2>5. Goes(q) /\ Kinds(q, {"ask", "send", "take", "drop"})
    BY <2>3, <2>4 DEF Kinds, Goes
  <2>6. \A e \in Pairs, i \in 1 .. Len(q) : q[i] # Send(e)
    BY <2>3, NoSends
  <2>7. \A e \in Pairs, i \in 1 .. Len(q) : q[i] # Pin(e[1], e[2])
    BY <2>3, NameFields DEF Kinds
  <2> QED
    BY <2>3, <2>5, <2>6, <2>7
<1>2. CASE k # NoKey
  <2>1. PICK f : f = <<n, k>>
    OBVIOUS
  <2>2. f \in Pairs /\ f[1] = n /\ f[2] = k /\ q = SendTo(f[1], f[2])
    BY <1>2, <2>1 DEF Types, Pairs
  <2>3. /\ q \in Seq(Steps) /\ Sound(q) /\ Quiet(q) /\ Kinds(q, {"send", "take", "drop"})
        /\ \A e \in Pairs, i \in 1 .. Len(q) : q[i] = Send(e) => e = f
    BY <2>2, SendToSound DEF Sound
  <2>4. Goes(q)
    <3>1. \A i \in 1 .. Len(q) : q[i].do \in {"send", "take", "drop"}
      BY <2>3 DEF Kinds
    <3> QED
      BY <3>1 DEF Goes
  <2>5. Kinds(q, {"ask", "send", "take", "drop"})
    BY <2>3 DEF Kinds
  <2>6. \A e \in Pairs, i \in 1 .. Len(q) : q[i] # Pin(e[1], e[2])
    BY <2>3, NameFields DEF Kinds
  <2> QED
    BY <2>2, <2>3, <2>4, <2>5, <2>6
<1> QED
  BY <1>1, <1>2

LEMMA RecallGoes ==
  ASSUME Types, NEW n \in Peer, NEW k, k = known[n],
         NEW q, q = (IF k = NoKey THEN PPrint
                     ELSE <<Take("tofu"), Pin(n, k), Drop("tofu"), Take("tofu")>>
                            \o Save \o <<Drop("tofu")>> \o PPrint)
  PROVE  /\ q \in Seq(Steps) /\ Sound(q) /\ Quiet(q) /\ Goes(q)
         /\ Kinds(q, {"pin", "take", "drop", "truncate", "write"})
         /\ \A e \in Pairs, i \in 1 .. Len(q) : q[i] # Send(e)
         /\ \A e \in Pairs, i \in 1 .. Len(q) : q[i] = Pin(e[1], e[2]) => known[e[1]] = e[2]
<1>1. CASE k = NoKey
  <2>1. q = PPrint
    BY <1>1
  <2>2. q \in Seq(Steps) /\ Sound(q) /\ Quiet(q) /\ Kinds(q, {"take", "drop"})
    BY <2>1, PPrintSound, PPrintOrderly DEF Sound
  <2>3. Goes(q)
    <3>1. \A i \in 1 .. Len(q) : q[i].do \in {"take", "drop"}
      BY <2>2 DEF Kinds
    <3> QED
      BY <3>1 DEF Goes
  <2>4. Kinds(q, {"pin", "take", "drop", "truncate", "write"})
    BY <2>2 DEF Kinds
  <2>5. \A e \in Pairs, i \in 1 .. Len(q) : q[i] # Send(e)
    BY <2>2, NoSends
  <2>6. \A e \in Pairs, i \in 1 .. Len(q) : q[i] # Pin(e[1], e[2])
    BY <2>2, NameFields DEF Kinds
  <2> QED
    BY <2>2, <2>3, <2>4, <2>5, <2>6
<1>2. CASE k # NoKey
  <2>1. PICK f : f = <<n, k>>
    OBVIOUS
  <2>2. /\ f \in Pairs /\ f[1] = n /\ f[2] = k
        /\ q = ((<<Take("tofu"), Pin(f[1], f[2]), Drop("tofu"), Take("tofu")>> \o Save)
                  \o <<Drop("tofu")>>) \o PPrint
    BY <1>2, <2>1 DEF Types, Pairs
  <2>3. /\ Sound(q) /\ Quiet(q) /\ Kinds(q, {"take", "drop", "pin", "truncate", "write"})
        /\ \A e \in Pairs, i \in 1 .. Len(q) : q[i] = Pin(e[1], e[2]) => e = f
    BY <2>2, TrustOrderly
  <2>4. Goes(q)
    BY <2>3, KindsGo
  <2>5. Kinds(q, {"pin", "take", "drop", "truncate", "write"})
    BY <2>3 DEF Kinds
  <2>6. \A e \in Pairs, i \in 1 .. Len(q) : q[i] # Send(e)
    BY <2>3, NoSends
  <2> QED
    BY <2>2, <2>3, <2>4, <2>5, <2>6 DEF Sound
<1> QED
  BY <1>1, <1>2

\* The main thread frees the known keys, then does a.
LEMMA AfterLook ==
  ASSUME ThreadsOK, NEW what \in {"look", "recall"}, Step("main", what),
         NEW a, Sound(a), Quiet(a), Goes(a), ThenLast(a), UNCHANGED <<owner, slot>>
  PROVE  /\ todo' \in [Thread -> Seq(Steps)] /\ InOrder' /\ Locked' /\ Waiting'
         /\ todo' = [todo EXCEPT !["main"] = <<Drop("known")>> \o a]
<1>1. "main" \in Thread
  BY DEF Thread
<1>2. /\ Tail(todo["main"]) = <<Drop("known")>>
      /\ \A m \in Mutex : Held(todo["main"], m) <=> m = "known"
  BY LastSteps
<1>3. PICK q : q = <<Drop("known")>> \o a
  OBVIOUS
<1>4. todo' = [todo EXCEPT !["main"] = q]
  BY <1>1, <1>2, <1>3 DEF ThenLast, ThreadsOK, Types
<1>5. Orderly("main", q)
  BY <1>3, DropOrderly
<1>6. \A m \in Mutex : Held(q, m) <=> m = "known"
  BY <1>3, DropHeld DEF Sound
<1>7. \A m \in Mutex : owner["main"] = owner["main"] /\ (owner'[m] = "main" <=> Held(q, m))
  BY <1>1, <1>2, <1>6 DEF ThreadsOK, Locked
<1>8. /\ todo' \in [Thread -> Seq(Steps)] /\ InOrder' /\ Locked' /\ todo'["main"] = q
  BY <1>1, <1>4, <1>5, <1>7, ThreadsKept
<1>9. Waiting'
  <2>1. q # << >> /\ Head(q) = Drop("known")
    <3>1. PICK d : d = <<Drop("known")>>
      OBVIOUS
    <3>2. d \in Seq(Steps) /\ Len(d) = 1 /\ d[1] = Drop("known") /\ a \in Seq(Steps)
      BY <3>1 DEF Steps, Mutex, Sound
    <3>3. q \in Seq(Steps) /\ Len(q) \in Nat \ {0} /\ q[1] = Drop("known")
      BY <1>3, <3>1, <3>2, JoinPlaces
    <3> QED
      BY <3>3
  <2>2. Head(q).do # "await"
    BY <2>1, LockFields
  <2>3. slot # "live"
    BY DEF ThreadsOK, Waiting, Step
  <2> QED
    BY <1>8, <2>2, <2>3 DEF Waiting, Step
<1> QED
  BY <1>3, <1>4, <1>8, <1>9


LEMMA NothingAfter ==
  ASSUME NEW s \in Seq(Steps)
  PROVE  s \o << >> = s
OBVIOUS

LEMMA LookUpMoves ==
  ASSUME ThreadsOK, LookUp
  PROVE  /\ ThreadsOK'
         /\ \E a \in Seq(Steps) :
              /\ todo' = [todo EXCEPT !["main"] = <<Drop("known")>> \o a]
              /\ Kinds(a, {"ask", "send", "take", "drop"})
              /\ \A e \in Pairs, i \in 1 .. Len(a) : a[i] = Send(e) => known[e[1]] = e[2]
<1>1. /\ Step("main", "look") /\ UNCHANGED <<owner, keys, conn, counts, history>>
      /\ ThenLast(IF known[Head(todo["main"]).name] = NoKey
                    THEN <<Ask(AskKey(Head(todo["main"]).name))>>
                    ELSE SendTo(Head(todo["main"]).name, known[Head(todo["main"]).name]))
  BY DEF LookUp
<1>2. PICK n, k, a : /\ n = Head(todo["main"]).name /\ k = known[n]
                     /\ a = IF k = NoKey THEN <<Ask(AskKey(n))>> ELSE SendTo(n, k)
  OBVIOUS
<1>3. "main" \in Thread
  BY DEF Thread
<1>4. n \in Peer
  <2>1. todo["main"][1] \in Steps /\ todo["main"][1].do = "look" /\ Head(todo["main"]) = todo["main"][1]
    BY <1>1, <1>3, StepFacts
  <2> QED
    BY <1>2, <2>1, StepIs
<1>5. /\ a \in Seq(Steps) /\ Sound(a) /\ Quiet(a) /\ Goes(a)
      /\ Kinds(a, {"ask", "send", "take", "drop"})
      /\ \A e \in Pairs, i \in 1 .. Len(a) : a[i] = Send(e) => known[e[1]] = e[2]
  BY <1>2, <1>4, LookUpGoes DEF ThreadsOK
<1>6. ThenLast(a) /\ UNCHANGED <<owner, slot>>
  BY <1>1, <1>2 DEF conn
<1>7. /\ todo' \in [Thread -> Seq(Steps)] /\ InOrder' /\ Locked' /\ Waiting'
      /\ todo' = [todo EXCEPT !["main"] = <<Drop("known")>> \o a]
  BY <1>1, <1>5, <1>6, AfterLook
<1>8. Types'
  BY <1>1, <1>7 DEF ThreadsOK, Types, keys, conn, counts, history
<1> QED
  BY <1>5, <1>7, <1>8 DEF ThreadsOK

LEMMA RecallMoves ==
  ASSUME ThreadsOK, RecallKey
  PROVE  /\ ThreadsOK'
         /\ \E a \in Seq(Steps) :
              /\ todo' = [todo EXCEPT !["main"] = <<Drop("known")>> \o a]
              /\ Kinds(a, {"pin", "take", "drop", "truncate", "write"})
              /\ \A e \in Pairs, i \in 1 .. Len(a) : a[i] = Pin(e[1], e[2]) => known[e[1]] = e[2]
<1>1. /\ Step("main", "recall") /\ UNCHANGED <<owner, keys, conn, counts, history>>
      /\ ThenLast(IF known[Head(todo["main"]).name] = NoKey THEN PPrint
                  ELSE <<Take("tofu"), Pin(Head(todo["main"]).name, known[Head(todo["main"]).name]),
                         Drop("tofu"), Take("tofu")>>
                         \o Save \o <<Drop("tofu")>> \o PPrint)
  BY DEF RecallKey
<1>2. PICK n, k, a : /\ n = Head(todo["main"]).name /\ k = known[n]
                     /\ a = IF k = NoKey THEN PPrint
                            ELSE <<Take("tofu"), Pin(n, k), Drop("tofu"), Take("tofu")>>
                                   \o Save \o <<Drop("tofu")>> \o PPrint
  OBVIOUS
<1>3. "main" \in Thread
  BY DEF Thread
<1>4. n \in Peer
  <2>1. todo["main"][1] \in Steps /\ todo["main"][1].do = "recall" /\ Head(todo["main"]) = todo["main"][1]
    BY <1>1, <1>3, StepFacts
  <2> QED
    BY <1>2, <2>1, StepIs
<1>5. /\ a \in Seq(Steps) /\ Sound(a) /\ Quiet(a) /\ Goes(a)
      /\ Kinds(a, {"pin", "take", "drop", "truncate", "write"})
      /\ \A e \in Pairs, i \in 1 .. Len(a) : a[i] = Pin(e[1], e[2]) => known[e[1]] = e[2]
  BY <1>2, <1>4, RecallGoes, ZenonT(60) DEF ThreadsOK
<1>6. ThenLast(a) /\ UNCHANGED <<owner, slot>>
  BY <1>1, <1>2 DEF conn
<1>7. /\ todo' \in [Thread -> Seq(Steps)] /\ InOrder' /\ Locked' /\ Waiting'
      /\ todo' = [todo EXCEPT !["main"] = <<Drop("known")>> \o a]
  BY <1>1, <1>5, <1>6, AfterLook
<1>8. Types'
  BY <1>1, <1>7 DEF ThreadsOK, Types, keys, conn, counts, history
<1> QED
  BY <1>5, <1>7, <1>8 DEF ThreadsOK

\* A step of the main thread that leaves it one step or more, and no mutex.
LEMMA RequestMoves ==
  ASSUME ThreadsOK, Request
  PROVE  /\ ThreadsOK'
         /\ \E a \in Seq(Steps) : /\ todo' = [todo EXCEPT !["main"] = a]
                                  /\ Kinds(a, {"await"})
<1>1. /\ Step("main", "ask") /\ UNCHANGED <<owner, keys, counts, history>> /\ slot' = "live"
      /\ ThenFirst("main", <<Await(Head(todo["main"]).req)>>)
      /\ wire' = Append(wire, Head(todo["main"]).req)
  BY DEF Request
<1>2. PICK r, a : r = Head(todo["main"]).req /\ a = <<Await(r)>>
  OBVIOUS
<1>3. "main" \in Thread
  BY DEF Thread
<1>4. r \in Reqs
  <2>1. todo["main"][1] \in Steps /\ todo["main"][1].do = "ask" /\ Head(todo["main"]) = todo["main"][1]
    BY <1>1, <1>3, StepFacts
  <2> QED
    BY <1>2, <2>1, StepIs
<1>5. PICK x : x = Await(r)
  OBVIOUS
<1>6. x \in Steps /\ x.do = "await" /\ a = <<x>>
  BY <1>2, <1>4, <1>5, OtherFields DEF Steps
<1>7. Orderly("main", a) /\ Sound(a) /\ Kinds(a, {"await"}) /\ a \in Seq(Steps)
  BY <1>6, AskOrderly DEF Sound
<1>8. Tail(todo["main"]) = << >> /\ \A m \in Mutex : ~Held(todo["main"], m)
  BY <1>1, LastSteps
<1>9. a \o Tail(todo["main"]) = a
  BY <1>7, <1>8, NothingAfter
<1>10. todo' = [todo EXCEPT !["main"] = a]
  BY <1>1, <1>2, <1>3, <1>9 DEF ThenFirst, ThreadsOK, Types
<1>11. todo' \in [Thread -> Seq(Steps)] /\ InOrder' /\ Locked' /\ todo'["main"] = a
  BY <1>1, <1>3, <1>7, <1>8, <1>10, StartOK
<1>12. Waiting'
  <2>1. a # << >> /\ Head(a) = x
    BY <1>6
  <2> QED
    BY <1>1, <1>6, <1>11, <2>1 DEF Waiting, Step
<1>13. Types'
  BY <1>1, <1>2, <1>4, <1>11 DEF ThreadsOK, Types, keys, counts, history
<1> QED
  BY <1>7, <1>10, <1>11, <1>12, <1>13 DEF ThreadsOK

LEMMA TimeOutMoves ==
  ASSUME ThreadsOK, TimeOut
  PROVE  ThreadsOK' /\ todo' = [todo EXCEPT !["main"] = PPrint]
<1>1. /\ Step("main", "await") /\ UNCHANGED <<owner, keys, wire, counts, history>> /\ slot' = "dead"
      /\ ThenFirst("main", PPrint)
  BY DEF TimeOut
<1>2. "main" \in Thread
  BY DEF Thread
<1>3. /\ PPrint \in Seq(Steps) /\ Sound(PPrint) /\ Orderly("main", PPrint)
      /\ Kinds(PPrint, {"take", "drop"})
  BY PPrintSound, PPrintOrderly DEF Sound
<1>4. Tail(todo["main"]) = << >> /\ \A m \in Mutex : ~Held(todo["main"], m)
  BY <1>1, LastSteps
<1>5. PPrint \o Tail(todo["main"]) = PPrint
  BY <1>3, <1>4, NothingAfter
<1>6. todo' = [todo EXCEPT !["main"] = PPrint]
  BY <1>1, <1>2, <1>5 DEF ThenFirst, ThreadsOK, Types
<1>7. todo' \in [Thread -> Seq(Steps)] /\ InOrder' /\ Locked' /\ todo'["main"] = PPrint
  BY <1>1, <1>2, <1>3, <1>4, <1>6, StartOK
<1>8. Waiting'
  BY <1>1, <1>3, <1>7, StartWaits
<1>9. Types'
  BY <1>1, <1>7 DEF ThreadsOK, Types, keys, counts, history
<1> QED
  BY <1>6, <1>7, <1>8, <1>9 DEF ThreadsOK


\* What the main thread begins for a line it does from the first step on.
LEMMA LineMoves ==
  ASSUME ThreadsOK, NEW q, Line(q), wire' \in Seq(Reqs),
         Orderly("main", q), Sound(q), Kinds(q, {"take", "drop", "look", "recall", "ask"})
  PROVE  /\ ThreadsOK' /\ todo["main"] = << >> /\ UNCHANGED <<keys, history>>
         /\ q \in Seq(Steps) /\ todo' = [todo EXCEPT !["main"] = q]
<1>1. /\ todo["main"] = << >> /\ lines < Lines /\ lines' = lines + 1
      /\ todo' = [todo EXCEPT !["main"] = q]
      /\ UNCHANGED <<owner, keys, slot, frames, kills, history>>
  BY DEF Line
<1>2. "main" \in Thread
  BY DEF Thread
<1>3. \A m \in Mutex : ~Held(todo["main"], m)
  BY <1>1, EmptyHolds
<1>4. todo' \in [Thread -> Seq(Steps)] /\ InOrder' /\ Locked' /\ todo'["main"] = q
  BY <1>1, <1>2, <1>3, StartOK
<1>5. slot # "live"
  BY <1>1 DEF ThreadsOK, Waiting, Step
<1>6. q \in Seq(Steps)
  BY DEF Sound
<1>7. Waiting'
  BY <1>1, <1>4, <1>5, <1>6, StartWaits
<1>8. lines' \in 0 .. Lines
  BY <1>1, BoundAssumption DEF ThreadsOK, Types
<1>9. Types'
  BY <1>1, <1>4, <1>8 DEF ThreadsOK, Types, keys, history
<1> QED
  BY <1>1, <1>4, <1>6, <1>7, <1>9 DEF ThreadsOK

LEMMA UserMoves ==
  ASSUME ThreadsOK, User
  PROVE  /\ ThreadsOK' /\ todo["main"] = << >> /\ UNCHANGED <<keys, history>>
         /\ \E a \in Seq(Steps) : /\ todo' = [todo EXCEPT !["main"] = a]
                                  /\ Kinds(a, {"take", "drop", "look", "recall", "ask"})
<1>1. PICK K : K = {"take", "drop", "look", "recall", "ask"}
  OBVIOUS
<1> DEFINE Moves(q) == /\ Line(q) /\ wire' \in Seq(Reqs)
                       /\ Orderly("main", q) /\ Sound(q) /\ Kinds(q, K)
<1>2. ASSUME NEW q, Moves(q)
      PROVE  /\ ThreadsOK' /\ todo["main"] = << >> /\ UNCHANGED <<keys, history>>
             /\ \E a \in Seq(Steps) : /\ todo' = [todo EXCEPT !["main"] = a]
                                      /\ Kinds(a, {"take", "drop", "look", "recall", "ask"})
  BY <1>1, <1>2, LineMoves
<1>3. wire \in Seq(Reqs)
  BY DEF ThreadsOK, Types
<1>4. ASSUME NEW n \in Peer, TypeMsg(n)
      PROVE  \E q : Moves(q)
  <2>1. PICK x, q : x = Look(n) /\ q = <<Take("known"), x, Drop("known")>>
    OBVIOUS
  <2>2. x \in Steps /\ x.do = "look"
    BY <2>1, NameFields DEF Steps
  <2>3. Orderly("main", q) /\ Sound(q) /\ Kinds(q, {"take", "drop", "look", "recall"})
    BY <2>1, <2>2, LookOrderly
  <2>4. Kinds(q, K)
    BY <1>1, <2>3 DEF Kinds
  <2> QED
    BY <1>3, <1>4, <2>1, <2>3, <2>4 DEF TypeMsg
<1>5. ASSUME NEW n \in Peer, TypeTrust(n)
      PROVE  \E q : Moves(q)
  <2>1. PICK x, q : x = Recall(n) /\ q = <<Take("known"), x, Drop("known")>>
    OBVIOUS
  <2>2. x \in Steps /\ x.do = "recall"
    BY <2>1, NameFields DEF Steps
  <2>3. Orderly("main", q) /\ Sound(q) /\ Kinds(q, {"take", "drop", "look", "recall"})
    BY <2>1, <2>2, LookOrderly
  <2>4. Kinds(q, K)
    BY <1>1, <2>3 DEF Kinds
  <2> QED
    BY <1>3, <1>5, <2>1, <2>3, <2>4 DEF TypeTrust
<1>6. ASSUME TypeToRoom
      PROVE  \E q : Moves(q)
  <2>1. PICK x, q : x = Ask(AskMembers) /\ q = <<x>>
    OBVIOUS
  <2>2. x \in Steps /\ x.do = "ask"
    BY <2>1, OtherFields DEF Steps, Reqs
  <2>3. Orderly("main", q) /\ Sound(q) /\ Kinds(q, {"ask"})
    BY <2>1, <2>2, AskOrderly
  <2>4. Kinds(q, K)
    BY <1>1, <2>3 DEF Kinds
  <2> QED
    BY <1>3, <1>6, <2>1, <2>3, <2>4 DEF TypeToRoom
<1>7. ASSUME TypeFileRefused
      PROVE  \E q : Moves(q)
  <2>1. Kinds(PPrint, K)
    BY <1>1, PPrintSound DEF Kinds
  <2> QED
    BY <1>3, <1>7, <2>1, PPrintSound, PPrintOrderly DEF TypeFileRefused
<1>8. ASSUME TypeFingerprints
      PROVE  \E q : Moves(q)
  <2>1. Kinds(Fingerprints, K)
    BY <1>1, FingerprintsOrderly DEF Kinds
  <2> QED
    BY <1>3, <1>8, <2>1, FingerprintsOrderly DEF TypeFingerprints
<1>9. ASSUME NEW r \in Reqs, TypeRaw(r)
      PROVE  \E q : Moves(q)
  <2>1. Append(wire, r) \in Seq(Reqs)
    BY <1>3, <1>9
  <2>2. Line(<< >>) /\ wire' \in Seq(Reqs)
    BY <1>9, <2>1 DEF TypeRaw
  <2>3. "main" \in Thread
    BY DEF Thread
  <2>4. Orderly("main", << >>) /\ Sound(<< >>) /\ Kinds(<< >>, K)
    BY <2>3, NothingOrderly
  <2> QED
    BY <2>2, <2>4
<1>10. \E q : Moves(q)
  BY <1>4, <1>5, <1>6, <1>7, <1>8, <1>9 DEF User, Reqs
<1> QED
  BY <1>2, <1>10

\* What the reader begins for a frame.
LEMMA FrameMoves ==
  ASSUME ThreadsOK, NEW q, Frame(q), Orderly("reader", q), Sound(q)
  PROVE  /\ ThreadsOK' /\ todo["reader"] = << >> /\ UNCHANGED <<keys, history>>
         /\ todo' = [todo EXCEPT !["reader"] = q] /\ q \in Seq(Steps)
<1>1. /\ todo["reader"] = << >> /\ frames < Frames /\ frames' = frames + 1
      /\ todo' = [todo EXCEPT !["reader"] = q]
      /\ UNCHANGED <<owner, keys, conn, lines, kills, history>>
  BY DEF Frame
<1>2. "reader" \in Thread /\ "main" \in Thread /\ "main" # "reader"
  BY DEF Thread
<1>3. \A m \in Mutex : ~Held(todo["reader"], m)
  BY <1>1, EmptyHolds
<1>4. /\ todo' \in [Thread -> Seq(Steps)] /\ InOrder' /\ Locked' /\ todo'["reader"] = q
      /\ todo'["main"] = todo["main"]
  BY <1>1, <1>2, <1>3, StartOK
<1>5. Waiting'
  BY <1>1, <1>4 DEF ThreadsOK, Waiting, Step, conn
<1>6. frames' \in 0 .. Frames
  BY <1>1, BoundAssumption DEF ThreadsOK, Types
<1>7. Types'
  BY <1>1, <1>4, <1>6 DEF ThreadsOK, Types, keys, conn, history
<1> QED
  BY <1>1, <1>4, <1>5, <1>7 DEF ThreadsOK, Sound

LEMMA FramesMove ==
  ASSUME ThreadsOK, Announce \/ ReadText \/ ReadLine
  PROVE  /\ ThreadsOK' /\ todo["reader"] = << >> /\ UNCHANGED <<keys, history>>
         /\ \E a \in Seq(Steps) : /\ todo' = [todo EXCEPT !["reader"] = a]
                                  /\ Kinds(a, {"take", "drop", "put", "test"})
<1>1. PICK K : K = {"take", "drop", "put", "test"}
  OBVIOUS
<1> DEFINE Moves(q) == Frame(q) /\ Orderly("reader", q) /\ Sound(q) /\ Kinds(q, K)
<1>2. ASSUME NEW q, Moves(q)
      PROVE  /\ ThreadsOK' /\ todo["reader"] = << >> /\ UNCHANGED <<keys, history>>
             /\ \E a \in Seq(Steps) : /\ todo' = [todo EXCEPT !["reader"] = a]
                                      /\ Kinds(a, {"take", "drop", "put", "test"})
  BY <1>1, <1>2, FrameMoves
<1>3. ASSUME NEW l \in Seq(Pairs), Frame(InsertKeys(l))
      PROVE  \E q : Moves(q)
  <2>1. /\ Sound(InsertKeys(l)) /\ Orderly("reader", InsertKeys(l))
        /\ Kinds(InsertKeys(l), {"take", "drop", "put", "test"})
    BY <1>3, InsertKeysOrderly
  <2> QED
    BY <1>1, <1>3, <2>1
<1>4. ASSUME NEW f \in Tables, Frame(InsertKeys(Listed(f)))
      PROVE  \E q : Moves(q)
  BY <1>3, <1>4, ListedIs
<1>5. ASSUME NEW p \in Peer, Frame(InsertKeys(<<<<p, Empty>>>>))
      PROVE  \E q : Moves(q)
  <2>1. PICK e : e = <<p, Empty>>
    OBVIOUS
  <2>2. e \in Pairs
    BY <2>1, EntryIs DEF Pairs
  <2>3. <<e>> \in Seq(Pairs)
    BY <2>2
  <2> QED
    BY <1>3, <1>5, <2>1, <2>3
<1>6. ASSUME ReadText
      PROVE  \E q : Moves(q)
  <2>1. Kinds(HandleText, K)
    BY <1>1, HandleTextOrderly DEF Kinds
  <2> QED
    BY <1>6, <2>1, HandleTextOrderly DEF ReadText
<1>7. ASSUME ReadLine
      PROVE  \E q : Moves(q)
  <2>1. Kinds(PPrint, K)
    BY <1>1, PPrintSound DEF Kinds
  <2> QED
    BY <1>7, <2>1, PPrintSound, PPrintOrderly DEF ReadLine
<1>8. \E q : Moves(q)
  BY <1>4, <1>5, <1>6, <1>7 DEF Announce
<1> QED
  BY <1>2, <1>8

\* The main thread goes on with an answer, or nobody does.
LEMMA RespondMoves ==
  ASSUME ThreadsOK, Respond
  PROVE  /\ ThreadsOK' /\ UNCHANGED <<keys, history>>
         /\ \/ UNCHANGED todo
            \/ /\ Step("main", "await")
               /\ \E a \in Seq(Steps) :
                    /\ todo' = [todo EXCEPT !["main"] = a] /\ SendsTested(a)
                    /\ Kinds(a, {"take", "drop", "put", "test", "send"})
<1>1. /\ wire # << >> /\ wire' = Tail(wire) /\ slot' = "none"
      /\ UNCHANGED <<owner, keys, counts, history>>
  BY DEF Respond
<1>2. wire' \in Seq(Reqs) /\ Head(wire) \in Reqs
  BY <1>1 DEF ThreadsOK, Types
<1>3. CASE slot # "live"
  <2>1. UNCHANGED todo
    BY <1>3 DEF Respond
  <2>2. Waiting' /\ InOrder' /\ Locked'
    BY <1>1, <1>3, <2>1 DEF ThreadsOK, Waiting, Step, InOrder, Locked
  <2>3. Types'
    BY <1>1, <1>2, <2>1 DEF ThreadsOK, Types, keys, counts, history
  <2> QED
    BY <1>1, <2>1, <2>2, <2>3 DEF ThreadsOK
<1>4. CASE slot = "live"
  <2>1. PICK r \in Answers(Head(wire)) :
          todo' = [todo EXCEPT !["main"] = GoOn(Head(@).req, Head(wire), r)]
    BY <1>4 DEF Respond
  <2>2. "main" \in Thread
    BY DEF Thread
  <2>3. Step("main", "await")
    BY <1>4 DEF ThreadsOK, Waiting
  <2>4. PICK w : w = Head(todo["main"]).req
    OBVIOUS
  <2>5. w \in Reqs
    <3>1. todo["main"][1] \in Steps /\ todo["main"][1].do = "await" /\ Head(todo["main"]) = todo["main"][1]
      BY <2>2, <2>3, StepFacts
    <3> QED
      BY <2>4, <3>1, StepIs
  <2>6. PICK a : a = GoOn(w, Head(wire), r)
    OBVIOUS
  <2>7. /\ Orderly("main", a) /\ Sound(a) /\ SendsTested(a)
        /\ Kinds(a, {"take", "drop", "put", "test", "send"})
    BY <1>2, <2>1, <2>5, <2>6, GoOnOrderly
  <2>8. todo' = [todo EXCEPT !["main"] = a]
    BY <2>1, <2>2, <2>4, <2>6 DEF ThreadsOK, Types
  <2>9. \A m \in Mutex : ~Held(todo["main"], m)
    BY <2>3, LastSteps
  <2>10. a \in Seq(Steps)
    BY <2>7 DEF Sound
  <2>11. todo' \in [Thread -> Seq(Steps)] /\ InOrder' /\ Locked' /\ todo'["main"] = a
    BY <1>1, <2>2, <2>7, <2>8, <2>9, StartOK
  <2>12. Waiting'
    BY <1>1, <2>7, <2>10, <2>11, StartWaits
  <2>13. Types'
    BY <1>1, <1>2, <2>11 DEF ThreadsOK, Types, keys, counts, history
  <2> QED
    BY <1>1, <2>3, <2>7, <2>8, <2>10, <2>11, <2>12, <2>13 DEF ThreadsOK
<1> QED
  BY <1>3, <1>4

LEMMA NothingTodo ==
  /\ \A t \in Thread : Orderly(t, << >>)
  /\ Free \notin Thread /\ "main" \in Thread /\ << >> \in Seq(Steps)
  BY NothingOrderly DEF Free, Thread

LEMMA KillMoves ==
  ASSUME ThreadsOK, Kill
  PROVE  ThreadsOK' /\ \A t \in Thread : todo'[t] = << >>
<1>1. /\ kills < Kills /\ kills' = kills + 1
      /\ todo' = [t \in Thread |-> << >>] /\ owner' = [m \in Mutex |-> Free]
      /\ known' = None /\ tofu' = (IF disk = Torn THEN None ELSE disk)
      /\ torn' = (torn \/ disk = Torn) /\ slot' = "none" /\ wire' = << >>
      /\ UNCHANGED <<disk, lines, frames, pinned, warned, used>>
  BY DEF Kill
<1>2. InOrder' /\ Locked' /\ Waiting' /\ todo' \in [Thread -> Seq(Steps)]
  BY <1>1, NothingTodo, EmptyHolds DEF InOrder, Locked, Waiting, Step
<1>3. known' \in [Peer -> Entry \cup {NoKey}] /\ tofu' \in [Peer -> Entry \cup {NoKey}]
  BY <1>1 DEF ThreadsOK, Types, None
<1>4. kills' \in 0 .. Kills /\ torn' \in BOOLEAN
  BY <1>1, BoundAssumption DEF ThreadsOK, Types
<1>5. owner' \in [Mutex -> Thread \cup {Free}] /\ wire' \in Seq(Reqs) /\ slot' \in {"none", "live", "dead"}
  BY <1>1
<1>6. Types'
  BY <1>1, <1>2, <1>3, <1>4, <1>5 DEF ThreadsOK, Types
<1> QED
  BY <1>1, <1>2, <1>6 DEF ThreadsOK

LEMMA InitOK == CInit => ThreadsOK
<1> SUFFICES ASSUME CInit PROVE ThreadsOK
  OBVIOUS
<1>1. InOrder /\ Locked /\ Waiting /\ todo \in [Thread -> Seq(Steps)]
  BY NothingTodo, EmptyHolds DEF CInit, InOrder, Locked, Waiting, Step
<1>2. Types
  <2>1. /\ known \in [Peer -> Entry \cup {NoKey}] /\ tofu \in [Peer -> Entry \cup {NoKey}]
        /\ disk \in [Peer -> Entry \cup {NoKey}]
    BY DEF CInit, None
  <2>2. /\ owner \in [Mutex -> Thread \cup {Free}] /\ wire \in Seq(Reqs)
        /\ slot \in {"none", "live", "dead"} /\ torn \in BOOLEAN
    <3>1. owner = [m \in Mutex |-> Free] /\ wire = << >> /\ slot = "none" /\ torn = FALSE
      BY DEF CInit
    <3>2. owner \in [Mutex -> Thread \cup {Free}]
      BY <3>1
    <3>3. wire \in Seq(Reqs)
      BY <3>1
    <3> QED
      BY <3>1, <3>2, <3>3
  <2>3. lines \in 0 .. Lines /\ frames \in 0 .. Frames /\ kills \in 0 .. Kills
    BY BoundAssumption DEF CInit
  <2>4. pinned \subseteq Pairs /\ warned \subseteq Pairs /\ used \subseteq Pairs
    BY DEF CInit
  <2> QED
    BY <1>1, <2>1, <2>2, <2>3, <2>4 DEF Types
<1> QED
  BY <1>1, <1>2 DEF ThreadsOK

\* Every step keeps the invariant of the threads.
LEMMA NextOK == ASSUME ThreadsOK, [CNext]_cvars PROVE ThreadsOK'
<1>1. "main" \in Thread /\ "reader" \in Thread
  BY DEF Thread
<1>2. CASE Main
  BY <1>1, <1>2, OneStepOK, LookUpMoves, RequestMoves, TimeOutMoves, EncryptOK, RecallMoves, TrustOK
     DEF Main
<1>3. CASE OneStep("reader")
  BY <1>1, <1>3, OneStepOK
<1>4. CASE User
  BY <1>4, UserMoves
<1>5. CASE Server
  BY <1>5, RespondMoves, FramesMove DEF Server
<1>6. CASE Kill
  BY <1>6, KillMoves
<1>7. CASE UNCHANGED cvars
  BY <1>7 DEF cvars, threads, keys, conn, counts, history, ThreadsOK, Types, InOrder, Locked, Waiting, Step
<1> QED
  BY <1>2, <1>3, <1>4, <1>5, <1>6, <1>7 DEF CNext

\* A mutex belongs to the thread that has still to free it and to nobody
\* else, whatever the two threads do; the main thread waits with the slot; the
\* fingerprints hold keys.  For any names and keys, lines, frames and kills.
THEOREM ConsoleTypes == CSpec => []ConsoleOK
<1>1. CInit => ThreadsOK
  BY InitOK
<1>2. ThreadsOK /\ [CNext]_cvars => ThreadsOK'
  BY NextOK
<1>3. ThreadsOK => ConsoleOK
  BY ThreadsOKIs
<1> QED
  BY <1>1, <1>2, <1>3, PTL DEF CSpec


-----------------------------------------------------------------------------
(* What the steps before a place have done for a key by then. *)

Met(e) == e \in pinned \cup warned
Reported(n) == \E w \in warned : w[1] = n

\* In memory it is the fingerprint of its name, and in the file: or its name
\* has been reported, or a kill has torn the file.
Pinned(e) == Met(e) /\ (torn \/ Reported(e[1]) \/ tofu[e[1]] = e[2])
Saved(e) == torn \/ Reported(e[1]) \/ disk = Torn \/ disk[e[1]] = e[2]
Cleared(e) == Pinned(e) /\ Saved(e)

Ahead(s, i, x) == \E j \in 1 .. i - 1 : s[j] = x

\* What s does before its place i leaves e Cleared.
Clears(s, i, e) == \/ Cleared(e)
                   \/ Pinned(e) /\ Ahead(s, i, Write)
                   \/ Ahead(s, i, Test(e))
                   \/ Ahead(s, i, Warn(e[1], e[2]))

SendsCleared ==
  \A e \in Pairs : \A i \in 1 .. Len(todo["main"]) :
    todo["main"][i] = Send(e) => Clears(todo["main"], i, e)
PinsCleared ==
  \A e \in Pairs : \A i \in 1 .. Len(todo["main"]) :
    todo["main"][i] = Pin(e[1], e[2]) => Cleared(e)

\* The reader has stored e and will test it before it frees the known keys.
ReaderClears(s, e) ==
  s # << >> /\ s[Len(s)] = Drop("known") /\ s[1] # Take("known") /\ Clears(s, Len(s), e)

SeenTo(e) == \/ Clears(todo["main"], Len(todo["main"]) + 1, e)
             \/ ReaderClears(todo["reader"], e)

KnownCleared == \A e \in Pairs : known[e[1]] = e[2] => SeenTo(e)

UsedCleared == \A e \in used : Cleared(e)
TofuMet == \A e \in Pairs : tofu[e[1]] = e[2] => Met(e)
DiskMet == disk # Torn => \A e \in Pairs : disk[e[1]] = e[2] => Met(e)

\* s saves the fingerprints next.
Saving(s) == s # << >> /\ (s[1] = Write \/ (s[1] = Truncate /\ Len(s) > 1 /\ s[2] = Write))

TofuSaved ==
  \A e \in Pairs : tofu[e[1]] = e[2] => Saved(e) \/ \E t \in Thread : Saving(todo[t])

KeysOK == /\ SendsCleared /\ PinsCleared /\ KnownCleared /\ UsedCleared
          /\ TofuMet /\ DiskMet /\ TofuSaved

LEMMA KeysAreSafe == KeysOK /\ ThreadsOK => WarnedBeforeUse /\ ChangeIsReported
<1> SUFFICES ASSUME KeysOK, ThreadsOK PROVE WarnedBeforeUse /\ ChangeIsReported
  OBVIOUS
<1>1. \A e \in used : Pinned(e)
  BY DEF KeysOK, UsedCleared, Cleared
<1>2. WarnedBeforeUse
  BY <1>1 DEF WarnedBeforeUse, Pinned, Met
<1>3. ASSUME NEW e \in used, NEW f \in used, e[1] = f[1], e[2] # f[2], ~torn
      PROVE  \E w \in warned : w[1] = e[1]
  BY <1>1, <1>3 DEF Pinned, Reported
<1> QED
  BY <1>2, <1>3 DEF ChangeIsReported

\* A step that is ahead of a place of s is ahead of it still when s[1] is
\* replaced by a, but for s[1] itself.
LEMMA AheadMoves ==
  ASSUME NEW s \in Seq(Steps), s # << >>, NEW a \in Seq(Steps), NEW q, q = a \o Tail(s),
         NEW i \in 2 .. Len(s) + 1, NEW x, Ahead(s, i, x)
  PROVE  s[1] = x \/ Ahead(q, Len(a) + i - 1, x)
<1>1. /\ Tail(s) \in Seq(Steps) /\ Len(Tail(s)) = Len(s) - 1 /\ Len(s) \in Nat \ {0}
      /\ \A k \in 2 .. Len(s) : k - 1 \in 1 .. Len(Tail(s)) /\ s[k] = Tail(s)[k - 1]
  BY TailPlaces
<1>2. Len(a) \in Nat /\ \A k \in 1 .. Len(Tail(s)) : q[Len(a) + k] = Tail(s)[k]
  BY <1>1, JoinPlaces
<1>3. PICK j \in 1 .. i - 1 : s[j] = x
  BY DEF Ahead
<1>4. CASE j = 1
  BY <1>3, <1>4
<1>5. CASE j # 1
  <2>1. j \in 2 .. Len(s)
    BY <1>1, <1>3, <1>5
  <2>2. q[Len(a) + (j - 1)] = x
    BY <1>1, <1>2, <1>3, <2>1
  <2>3. Len(a) + (j - 1) \in 1 .. (Len(a) + i - 1) - 1
    BY <1>2, <1>3, <2>1
  <2> QED
    BY <2>2, <2>3 DEF Ahead
<1> QED
  BY <1>4, <1>5

LEMMA AheadInFirst ==
  ASSUME NEW a \in Seq(Steps), NEW b \in Seq(Steps), NEW q, q = a \o b, NEW x,
         \E j \in 1 .. Len(a) : a[j] = x, NEW i \in Nat, i > Len(a)
  PROVE  Ahead(q, i, x)
<1>1. PICK j \in 1 .. Len(a) : a[j] = x
  OBVIOUS
<1>2. Len(a) \in Nat /\ q[j] = a[j]
  BY <1>1, JoinPlaces
<1>3. j \in 1 .. i - 1
  BY <1>1, <1>2
<1> QED
  BY <1>1, <1>2, <1>3 DEF Ahead

\* What a key has to keep when s[1] is done and a put in its place.
Kept(s, a, e) ==
  /\ Cleared(e) => Cleared(e)'
  /\ Pinned(e) => Pinned(e)'
  /\ s[1] = Write /\ Pinned(e) => Cleared(e)'
  /\ s[1] \in {Test(e), Warn(e[1], e[2])} =>
       \/ Cleared(e)'
       \/ Pinned(e)' /\ \E j \in 1 .. Len(a) : a[j] = Write
       \/ \E j \in 1 .. Len(a) : a[j] = Warn(e[1], e[2])

LEMMA ClearsMoves ==
  ASSUME NEW s \in Seq(Steps), s # << >>, NEW a \in Seq(Steps), NEW q, q = a \o Tail(s),
         NEW i \in 2 .. Len(s) + 1, NEW e \in Pairs, Clears(s, i, e), Kept(s, a, e)
  PROVE  Clears(q, Len(a) + i - 1, e)'
<1>1. Tail(s) \in Seq(Steps) /\ Len(s) \in Nat /\ Len(a) \in Nat
  BY TailPlaces
<1>2. Len(a) + i - 1 \in Nat /\ Len(a) + i - 1 > Len(a)
  BY <1>1
<1>3. \/ Cleared(e)' \/ (Pinned(e)' /\ Ahead(q, Len(a) + i - 1, Write))
      \/ Ahead(q, Len(a) + i - 1, Test(e)) \/ Ahead(q, Len(a) + i - 1, Warn(e[1], e[2]))
  <2>1. CASE Cleared(e)
    BY <2>1 DEF Kept
  <2>2. CASE Pinned(e) /\ Ahead(s, i, Write)
    <3>1. s[1] = Write \/ Ahead(q, Len(a) + i - 1, Write)
      BY <2>2, AheadMoves
    <3> QED
      BY <2>2, <3>1 DEF Kept
  <2>3. CASE s[1] \in {Test(e), Warn(e[1], e[2])}
    <3>1. CASE Pinned(e)' /\ \E j \in 1 .. Len(a) : a[j] = Write
      <4>1. Ahead(q, Len(a) + i - 1, Write)
        BY <1>1, <1>2, <3>1, AheadInFirst
      <4> QED
        BY <3>1, <4>1
    <3>2. CASE \E j \in 1 .. Len(a) : a[j] = Warn(e[1], e[2])
      <4>1. Ahead(q, Len(a) + i - 1, Warn(e[1], e[2]))
        BY <1>1, <1>2, <3>2, AheadInFirst
      <4> QED
        BY <4>1
    <3> QED
      BY <2>3, <3>1, <3>2 DEF Kept
  <2>4. CASE Ahead(s, i, Test(e))
    <3>1. s[1] = Test(e) \/ Ahead(q, Len(a) + i - 1, Test(e))
      BY <2>4, AheadMoves
    <3> QED
      BY <2>3, <3>1
  <2>5. CASE Ahead(s, i, Warn(e[1], e[2]))
    <3>1. s[1] = Warn(e[1], e[2]) \/ Ahead(q, Len(a) + i - 1, Warn(e[1], e[2]))
      BY <2>5, AheadMoves
    <3> QED
      BY <2>3, <3>1
  <2> QED
    BY <2>1, <2>2, <2>4, <2>5 DEF Clears
<1> QED
  BY <1>3 DEF Clears

\* For a thread that does nothing meanwhile.
LEMMA ClearsStays ==
  ASSUME NEW s, NEW a, NEW u, NEW i, NEW e, Clears(u, i, e), Kept(s, a, e)
  PROVE  Clears(u, i, e)'
  BY DEF Clears, Kept


LEMMA MovedPlaces ==
  ASSUME NEW s \in Seq(Steps), s # << >>, NEW a \in Seq(Steps), NEW q, q = a \o Tail(s)
  PROVE  /\ q \in Seq(Steps) /\ Len(q) = Len(a) + Len(s) - 1 /\ Len(a) \in Nat /\ Len(s) \in Nat \ {0}
         /\ \A i \in 1 .. Len(a) : q[i] = a[i]
         /\ \A k \in 2 .. Len(s) : q[Len(a) + k - 1] = s[k]
         /\ \A i \in 1 .. Len(q) : i \in 1 .. Len(a) \/ \E k \in 2 .. Len(s) : i = Len(a) + k - 1
<1>1. /\ Tail(s) \in Seq(Steps) /\ Len(Tail(s)) = Len(s) - 1 /\ Len(s) \in Nat \ {0}
      /\ \A k \in 2 .. Len(s) : k - 1 \in 1 .. Len(Tail(s)) /\ s[k] = Tail(s)[k - 1]
  BY TailPlaces
<1>2. /\ q \in Seq(Steps) /\ Len(q) = Len(a) + Len(Tail(s)) /\ Len(a) \in Nat
      /\ \A i \in 1 .. Len(a) : q[i] = a[i]
      /\ \A i \in 1 .. Len(Tail(s)) : q[Len(a) + i] = Tail(s)[i]
  BY <1>1, JoinPlaces
<1>3. ASSUME NEW k \in 2 .. Len(s)
      PROVE  q[Len(a) + k - 1] = s[k]
  <2>1. k - 1 \in 1 .. Len(Tail(s)) /\ s[k] = Tail(s)[k - 1]
    BY <1>1
  <2>2. q[Len(a) + (k - 1)] = Tail(s)[k - 1] /\ Len(a) + (k - 1) = Len(a) + k - 1
    BY <1>2, <2>1
  <2> QED
    BY <2>1, <2>2
<1>4. ASSUME NEW i \in 1 .. Len(q), i \notin 1 .. Len(a)
      PROVE  \E k \in 2 .. Len(s) : i = Len(a) + k - 1
  <2>1. i - Len(a) + 1 \in 2 .. Len(s) /\ i = Len(a) + (i - Len(a) + 1) - 1
    BY <1>1, <1>2, <1>4
  <2> QED
    BY <2>1
<1> QED
  BY <1>1, <1>2, <1>3, <1>4

\* Thread t does its first step and puts a in its place.
Moves(t, a) ==
  /\ todo[t] # << >> /\ a \in Seq(Steps)
  /\ todo' = [todo EXCEPT ![t] = a \o Tail(todo[t])]
  /\ Kinds(a, {"take", "drop", "warn", "truncate", "write"}) /\ Apart(a, "known")
  /\ \A e \in Pairs : Kept(todo[t], a, e)

LEMMA MovesIs ==
  ASSUME ThreadsOK, NEW t \in Thread, NEW a, Moves(t, a)
  PROVE  /\ todo[t] \in Seq(Steps) /\ todo[t] # << >> /\ a \in Seq(Steps)
         /\ todo'[t] = a \o Tail(todo[t])
         /\ \A u \in Thread : u # t => todo'[u] = todo[u]
         /\ \A e \in Pairs : Kept(todo[t], a, e)
  BY DEF ThreadsOK, Types, Moves

LEMMA SendsStay ==
  ASSUME ThreadsOK, NEW t \in Thread, NEW a, Moves(t, a), SendsCleared
  PROVE  SendsCleared'
<1>1. "main" \in Thread
  BY DEF Thread
<1>2. PICK s, q : s = todo["main"] /\ q = todo'["main"]
  OBVIOUS
<1> SUFFICES ASSUME NEW e \in Pairs, NEW i \in 1 .. Len(q), q[i] = Send(e)
             PROVE  Clears(q, i, e)'
  BY <1>2 DEF SendsCleared
<1>3. CASE t # "main"
  <2>1. q = s /\ Kept(todo[t], a, e)
    BY <1>1, <1>2, <1>3, MovesIs
  <2>2. Clears(q, i, e)
    BY <1>2, <2>1 DEF SendsCleared
  <2> QED
    BY <2>1, <2>2, ClearsStays
<1>4. CASE t = "main"
  <2>1. /\ s \in Seq(Steps) /\ s # << >> /\ a \in Seq(Steps) /\ q = a \o Tail(s) /\ Kept(s, a, e)
    BY <1>1, <1>2, <1>4, MovesIs
  <2>2. i \notin 1 .. Len(a)
    <3>1. ASSUME i \in 1 .. Len(a)
          PROVE  FALSE
      <4>1. q[i] = a[i]
        BY <2>1, <3>1, MovedPlaces
      <4>2. a[i].do \in {"take", "drop", "warn", "truncate", "write"}
        BY <3>1 DEF Moves, Kinds
      <4> QED
        BY <4>1, <4>2, KeyFields
    <3> QED
      BY <3>1
  <2>3. PICK k \in 2 .. Len(s) : i = Len(a) + k - 1
    BY <2>1, <2>2, MovedPlaces
  <2>4. q[i] = s[k] /\ k \in 1 .. Len(s) /\ k \in 2 .. Len(s) + 1
    BY <2>1, <2>3, MovedPlaces
  <2>5. Clears(s, k, e)
    BY <1>2, <2>4 DEF SendsCleared
  <2>6. Clears(q, Len(a) + k - 1, e)'
    BY <2>1, <2>4, <2>5, ClearsMoves
  <2> QED
    BY <2>3, <2>6
<1> QED
  BY <1>3, <1>4

LEMMA PinsStay ==
  ASSUME ThreadsOK, NEW t \in Thread, NEW a, Moves(t, a), PinsCleared
  PROVE  PinsCleared'
<1>1. "main" \in Thread
  BY DEF Thread
<1>2. PICK s, q : s = todo["main"] /\ q = todo'["main"]
  OBVIOUS
<1> SUFFICES ASSUME NEW e \in Pairs, NEW i \in 1 .. Len(q), q[i] = Pin(e[1], e[2])
             PROVE  Cleared(e)'
  BY <1>2 DEF PinsCleared
<1>3. CASE t # "main"
  <2>1. q = s /\ Kept(todo[t], a, e)
    BY <1>1, <1>2, <1>3, MovesIs
  <2>2. Cleared(e)
    BY <1>2, <2>1 DEF PinsCleared
  <2> QED
    BY <2>1, <2>2 DEF Kept
<1>4. CASE t = "main"
  <2>1. /\ s \in Seq(Steps) /\ s # << >> /\ a \in Seq(Steps) /\ q = a \o Tail(s) /\ Kept(s, a, e)
    BY <1>1, <1>2, <1>4, MovesIs
  <2>2. i \notin 1 .. Len(a)
    <3>1. ASSUME i \in 1 .. Len(a)
          PROVE  FALSE
      <4>1. q[i] = a[i]
        BY <2>1, <3>1, MovedPlaces
      <4>2. a[i].do \in {"take", "drop", "warn", "truncate", "write"}
        BY <3>1 DEF Moves, Kinds
      <4>3. Pin(e[1], e[2]).do = "pin"
        BY NameFields
      <4> QED
        BY <4>1, <4>2, <4>3
    <3> QED
      BY <3>1
  <2>3. PICK k \in 2 .. Len(s) : i = Len(a) + k - 1
    BY <2>1, <2>2, MovedPlaces
  <2>4. q[i] = s[k] /\ k \in 1 .. Len(s)
    BY <2>1, <2>3, MovedPlaces
  <2>5. Cleared(e)
    BY <1>2, <2>4 DEF PinsCleared
  <2> QED
    BY <2>1, <2>5 DEF Kept
<1> QED
  BY <1>3, <1>4

\* A key that was known is seen to before it is used: by the main thread, or
\* by the reader before it frees the known keys.
LEMMA MainKnowsStays ==
  ASSUME ThreadsOK, NEW t \in Thread, NEW a, Moves(t, a), NEW e \in Pairs,
         NEW s, s = todo["main"], NEW q, q = todo'["main"], Clears(s, Len(s) + 1, e)
  PROVE  Clears(q, Len(q) + 1, e)'
<1>1. "main" \in Thread
  BY DEF Thread
<1>2. CASE t # "main"
  <2>1. q = s /\ Kept(todo[t], a, e)
    BY <1>1, <1>2, MovesIs
  <2> QED
    BY <2>1, ClearsStays
<1>3. CASE t = "main"
  <2>1. /\ s \in Seq(Steps) /\ s # << >> /\ a \in Seq(Steps) /\ q = a \o Tail(s) /\ Kept(s, a, e)
    BY <1>1, <1>3, MovesIs
  <2>2. Len(q) = Len(a) + Len(s) - 1 /\ Len(a) \in Nat /\ Len(s) \in Nat \ {0}
    BY <2>1, MovedPlaces
  <2>3. Len(s) + 1 \in 2 .. Len(s) + 1 /\ Len(q) + 1 = Len(a) + (Len(s) + 1) - 1
    BY <2>2
  <2>4. Clears(q, Len(a) + (Len(s) + 1) - 1, e)'
    BY <2>1, <2>3, ClearsMoves
  <2> QED
    BY <2>3, <2>4
<1> QED
  BY <1>2, <1>3

LEMMA AheadOfFirst == \A s, x : ~Ahead(s, 1, x)
<1> SUFFICES ASSUME NEW s, NEW x, Ahead(s, 1, x) PROVE FALSE
  OBVIOUS
<1>1. PICK j \in 1 .. 1 - 1 : s[j] = x
  BY DEF Ahead
<1> QED
  BY <1>1

LEMMA TwoOrMore ==
  \A n \in Nat \ {0} : n # 1 => n \in 2 .. n + 1 /\ n \in 2 .. n /\ 2 \in 2 .. n /\ 2 \in 1 .. n
OBVIOUS

LEMMA ReaderKnowsStays ==
  ASSUME ThreadsOK, NEW t \in Thread, NEW a, Moves(t, a), NEW e \in Pairs,
         NEW s, s = todo["reader"], NEW q, q = todo'["reader"], ReaderClears(s, e)
  PROVE  Cleared(e)' \/ ReaderClears(q, e)'
<1>1. "reader" \in Thread
  BY DEF Thread
<1>2. s # << >> /\ s[Len(s)] = Drop("known") /\ s[1] # Take("known") /\ Clears(s, Len(s), e)
  BY DEF ReaderClears
<1>3. CASE t # "reader"
  <2>1. q = s /\ Kept(todo[t], a, e)
    BY <1>1, <1>3, MovesIs
  <2>2. Clears(q, Len(q), e)'
    BY <1>2, <2>1, ClearsStays
  <2> QED
    BY <1>2, <2>1, <2>2 DEF ReaderClears
<1>4. CASE t = "reader"
  <2>1. /\ s \in Seq(Steps) /\ s # << >> /\ a \in Seq(Steps) /\ q = a \o Tail(s) /\ Kept(s, a, e)
        /\ Apart(a, "known") /\ Reads(s)
    BY <1>1, <1>4, MovesIs DEF Moves, ThreadsOK, InOrder, Orderly
  <2>2. /\ Len(q) = Len(a) + Len(s) - 1 /\ Len(a) \in Nat /\ Len(s) \in Nat \ {0}
        /\ \A i \in 1 .. Len(a) : q[i] = a[i]
        /\ \A k \in 2 .. Len(s) : q[Len(a) + k - 1] = s[k]
        /\ q \in Seq(Steps)
    BY <2>1, MovedPlaces
  <2>5. Len(s) \in Nat \ {0} /\ Len(a) \in Nat
    BY <2>2
  <2>3. CASE Len(s) = 1
    <3>1. Clears(s, 1, e)
      BY <1>2, <2>3
    <3>2. Cleared(e)
      BY <3>1, AheadOfFirst DEF Clears
    <3> QED
      BY <2>1, <3>2 DEF Kept
  <2>4. CASE Len(s) # 1
    <3>1. Len(s) \in 2 .. Len(s) + 1 /\ Len(s) \in 2 .. Len(s) /\ 2 \in 2 .. Len(s) /\ 2 \in 1 .. Len(s)
      BY <2>5, <2>4, TwoOrMore
    <3>5. Len(q) = Len(a) + Len(s) - 1
      BY <2>2
    <3>2. Clears(q, Len(q), e)'
      <4>1. Clears(q, Len(a) + Len(s) - 1, e)'
        BY <1>2, <2>1, <3>1, ClearsMoves
      <4> QED
        BY <3>5, <4>1
    <3>3. q[Len(q)] = Drop("known") /\ q # << >>
      <4>1. q[Len(q)] = Drop("known")
        BY <1>2, <2>2, <3>1, <3>5
      <4>2. \A m, n, k : m \in Nat /\ n \in 2 .. n /\ k = m + n - 1 => k # 0
        OBVIOUS
      <4>3. Len(q) # 0
        BY <2>5, <3>1, <3>5, <4>2
      <4> QED
        BY <2>2, <4>1, <4>3
    <3>4. q[1] # Take("known")
      <4>1. CASE Len(a) = 0
        <5>1. q[Len(a) + 2 - 1] = s[2] /\ Len(a) + 2 - 1 = 1
          BY <2>2, <3>1, <4>1
        <5>2. s[2] # Take("known")
          BY <2>1, <3>1 DEF Reads
        <5> QED
          BY <5>1, <5>2
      <4>2. CASE Len(a) # 0
        <5>1. 1 \in 1 .. Len(a) /\ q[1] = a[1]
          BY <2>2, <4>2
        <5> QED
          BY <2>1, <5>1 DEF Apart
      <4> QED
        BY <4>1, <4>2
    <3> QED
      BY <3>2, <3>3, <3>4 DEF ReaderClears
  <2> QED
    BY <2>3, <2>4
<1> QED
  BY <1>3, <1>4

LEMMA SeenToStays ==
  ASSUME ThreadsOK, NEW t \in Thread, NEW a, Moves(t, a), NEW e \in Pairs, SeenTo(e)
  PROVE  SeenTo(e)'
<1>1. PICK s, q, r, z : /\ s = todo["main"] /\ q = todo'["main"]
                        /\ r = todo["reader"] /\ z = todo'["reader"]
  OBVIOUS
<1>2. Clears(s, Len(s) + 1, e) \/ ReaderClears(r, e)
  BY <1>1 DEF SeenTo
<1>3. Clears(q, Len(q) + 1, e)' \/ ReaderClears(z, e)'
  <2>1. CASE Clears(s, Len(s) + 1, e)
    BY <1>1, <2>1, MainKnowsStays
  <2>2. CASE ReaderClears(r, e)
    <3>1. Cleared(e)' \/ ReaderClears(z, e)'
      BY <1>1, <2>2, ReaderKnowsStays
    <3> QED
      BY <3>1 DEF Clears
  <2> QED
    BY <1>2, <2>1, <2>2
<1> QED
  BY <1>1, <1>3 DEF SeenTo, Clears, ReaderClears

\* A key that is stored will be tested by who stored it.
LEMMA StoredIsSeenTo ==
  ASSUME ThreadsOK, NEW t \in Thread, StoreKey(t), NEW e \in Pairs, todo[t][1] = Put(e)
  PROVE  SeenTo(e)'
<1>1. PICK s, q : s = todo[t] /\ q = todo'[t]
  OBVIOUS
<1>2. Step(t, "put") /\ ThenFirst(t, << >>)
  BY DEF StoreKey
<1>3. /\ s \in Seq(Steps) /\ s # << >> /\ Orderly(t, s) /\ << >> \o Tail(s) = Tail(s)
      /\ s[1].do = "put" /\ Len(s) \in Nat \ {0}
  BY <1>1, <1>2, StepFacts
<1>4. q = Tail(s)
  BY <1>1, <1>2, <1>3 DEF ThenFirst, ThreadsOK, Types
<1>5. /\ q \in Seq(Steps) /\ Len(q) = Len(s) - 1
      /\ \A k \in 2 .. Len(s) : k - 1 \in 1 .. Len(q) /\ s[k] = q[k - 1]
  BY <1>3, <1>4, TailPlaces
<1>6. 1 \in 1 .. Len(s) /\ s[1] = Put(e)
  BY <1>1, <1>3
<1>7. PICK j \in 1 + 1 .. Len(s) : s[j] = Test(e)
  BY <1>3, <1>6 DEF Orderly, Tested
<1>8. j \in 2 .. Len(s) /\ j - 1 \in 1 .. Len(q) /\ q[j - 1] = Test(e)
  <2>1. j \in 2 .. Len(s)
    BY <1>7
  <2> QED
    BY <1>5, <1>7, <2>1
<1>9. CASE t = "main"
  <2>1. j - 1 \in 1 .. (Len(q) + 1) - 1
    BY <1>3, <1>5, <1>8
  <2>2. Ahead(q, Len(q) + 1, Test(e))
    BY <1>8, <2>1 DEF Ahead
  <2> QED
    BY <1>1, <1>9, <2>2 DEF SeenTo, Clears
<1>10. CASE t = "reader"
  <2>1. s[Len(s)] = Drop("known") /\ s[Len(s)].do = "drop"
    BY <1>3, <1>6, <1>10, LockFields DEF Orderly, Reads
  <2>2. j # Len(s)
    BY <1>7, <2>1, KeyFields
  <2>3. j - 1 \in 1 .. Len(q) - 1 /\ Len(s) \in 2 .. Len(s)
    BY <1>3, <1>5, <1>8, <2>2
  <2>4. Ahead(q, Len(q), Test(e))
    BY <1>8, <2>3 DEF Ahead
  <2>5. q[Len(q)] = Drop("known") /\ q # << >>
    BY <1>5, <2>1, <2>3, SMTT(30)
  <2>6. q[1] # Take("known")
    <3>1. 2 \in 2 .. Len(s) /\ 2 \in 1 .. Len(s)
      BY <1>8
    <3>2. s[2] # Take("known")
      BY <1>3, <1>10, <3>1 DEF Orderly, Reads
    <3> QED
      BY <1>5, <3>1, <3>2
  <2> QED
    BY <1>1, <1>10, <2>4, <2>5, <2>6 DEF SeenTo, ReaderClears, Clears
<1> QED
  BY <1>9, <1>10 DEF Thread

\* Whatever the thread does, what it stores in known it tests.
LEMMA QueuesStay ==
  ASSUME ThreadsOK, NEW t \in Thread, NEW a, Moves(t, a), SendsCleared, PinsCleared, KnownCleared,
         UNCHANGED known \/ StoreKey(t)
  PROVE  SendsCleared' /\ PinsCleared' /\ KnownCleared'
<1>1. SendsCleared' /\ PinsCleared'
  BY SendsStay, PinsStay
<1> SUFFICES ASSUME NEW e \in Pairs, known'[e[1]] = e[2] PROVE SeenTo(e)'
  BY <1>1 DEF KnownCleared
<1>2. CASE UNCHANGED known
  <2>1. SeenTo(e)
    BY <1>2 DEF KnownCleared
  <2> QED
    BY <2>1, SeenToStays
<1>3. CASE StoreKey(t)
  <2>1. /\ Step(t, "put")
        /\ known' = [known EXCEPT ![Head(todo[t]).name] = Head(todo[t]).key]
    BY <1>3 DEF StoreKey
  <2>2. Head(todo[t]) = todo[t][1] /\ todo[t][1] \in Steps /\ todo[t][1].do = "put"
    BY <2>1, StepFacts
  <2>3. PICK x : x = todo[t][1]
    OBVIOUS
  <2>4. PICK f : f = <<x.name, x.key>>
    OBVIOUS
  <2>5. f \in Pairs /\ x = Put(f)
    BY <2>2, <2>3, <2>4, StepIs
  <2>6. known' = [known EXCEPT ![f[1]] = f[2]]
    BY <2>1, <2>2, <2>3, <2>4
  <2>7. e[1] \in Peer /\ f[1] \in Peer /\ known \in [Peer -> Entry \cup {NoKey}]
    BY <2>5, PairParts DEF ThreadsOK, Types
  <2>8. CASE e[1] = f[1]
    <3>1. e[2] = f[2]
      BY <2>6, <2>7, <2>8
    <3>2. e = f
      BY <2>5, <2>8, <3>1, PairParts
    <3> QED
      BY <1>3, <2>3, <2>5, <3>2, StoredIsSeenTo
  <2>9. CASE e[1] # f[1]
    <3>1. known[e[1]] = e[2]
      BY <2>6, <2>7, <2>9
    <3>2. SeenTo(e)
      BY <3>1 DEF KnownCleared
    <3> QED
      BY <3>2, SeenToStays
  <2> QED
    BY <2>8, <2>9
<1> QED
  BY <1>2, <1>3


LEMMA NothingIs ==
  /\ << >> \in Seq(Steps) /\ Len(<< >>) = 0
  /\ \A K : Kinds(<< >>, K)
  /\ Apart(<< >>, "known")
<1>1. PICK a : a = << >>
  OBVIOUS
<1>2. a \in Seq(Steps) /\ Len(a) = 0
  BY <1>1
<1> QED
  BY <1>1, <1>2 DEF Kinds, Apart

\* Thread t does its first step, and the next one is next.
LEMMA FirstMoves ==
  ASSUME ThreadsOK, NEW t \in Thread, NEW what, Step(t, what), ThenFirst(t, << >>),
         \A e \in Pairs : Kept(todo[t], << >>, e)
  PROVE  /\ Moves(t, << >>)
         /\ todo[t] # << >> /\ todo[t][1].do = what
         /\ \A u \in Thread : u # t => todo'[u] = todo[u]
<1>1. todo[t] # << >> /\ todo[t][1].do = what
  BY StepFacts
<1>2. todo' = [todo EXCEPT ![t] = << >> \o Tail(todo[t])]
  BY DEF ThenFirst, ThreadsOK, Types
<1>3. Moves(t, << >>)
  BY <1>1, <1>2, NothingIs DEF Moves
<1>4. \A u \in Thread : u # t => todo'[u] = todo[u]
  BY <1>2 DEF ThreadsOK, Types
<1> QED
  BY <1>1, <1>3, <1>4

\* Who saves next does no other step.
LEMMA SavingIs ==
  ASSUME NEW s, Saving(s)
  PROVE  s[1].do \in {"truncate", "write"}
  BY OtherFields DEF Saving

LEMMA SavingStays ==
  ASSUME NEW t \in Thread, todo[t][1].do \notin {"truncate", "write"},
         \A u \in Thread : u # t => todo'[u] = todo[u],
         \E u \in Thread : Saving(todo[u])
  PROVE  \E u \in Thread : Saving(todo'[u])
<1>1. PICK u \in Thread : Saving(todo[u])
  OBVIOUS
<1>2. u # t
  BY <1>1, SavingIs
<1> QED
  BY <1>1, <1>2

LEMMA SavedStays ==
  ASSUME NEW t \in Thread, todo[t][1].do \notin {"truncate", "write"},
         \A u \in Thread : u # t => todo'[u] = todo[u],
         UNCHANGED tofu, \A e \in Pairs : Saved(e) => Saved(e)', TofuSaved
  PROVE  TofuSaved'
<1>1. ASSUME NEW e \in Pairs, tofu'[e[1]] = e[2]
      PROVE  Saved(e)' \/ \E u \in Thread : Saving(todo'[u])
  BY <1>1, SavingStays DEF TofuSaved
<1> QED
  BY <1>1 DEF TofuSaved, Saving

LEMMA UsedStays ==
  ASSUME ThreadsOK, NEW t \in Thread, NEW a, Moves(t, a), UsedCleared, UNCHANGED used
  PROVE  UsedCleared'
<1>1. \A e \in used : e \in Pairs /\ Kept(todo[t], a, e)
  BY MovesIs DEF ThreadsOK, Types
<1> QED
  BY <1>1 DEF UsedCleared, Kept

\* A step that learns nothing of the fingerprints.
LEMMA QuietStep ==
  ASSUME ThreadsOK, KeysOK, NEW t \in Thread, NEW what, Step(t, what),
         what \notin {"write", "truncate", "test", "warn"}, ThenFirst(t, << >>),
         UNCHANGED <<tofu, disk, pinned, warned, torn>>, UNCHANGED known \/ StoreKey(t)
  PROVE  /\ SendsCleared' /\ PinsCleared' /\ KnownCleared' /\ TofuMet' /\ DiskMet' /\ TofuSaved'
         /\ \A e \in Pairs : Cleared(e) => Cleared(e)'
<1>1. ASSUME NEW e \in Pairs
      PROVE  /\ Met(e) => Met(e)'
             /\ Pinned(e) => Pinned(e)'
             /\ Saved(e) => Saved(e)'
             /\ Cleared(e) => Cleared(e)'
  BY DEF Met, Pinned, Saved, Cleared, Reported
<1>2. todo[t][1].do = what
  BY StepFacts
<1>3. ASSUME NEW e \in Pairs
      PROVE  Kept(todo[t], << >>, e)
  <2>1. todo[t][1] # Write /\ todo[t][1] # Test(e) /\ todo[t][1] # Warn(e[1], e[2])
    BY <1>2, KeyFields, NameFields, OtherFields
  <2> QED
    BY <1>1, <2>1 DEF Kept
<1>4. /\ Moves(t, << >>) /\ todo[t][1].do \notin {"truncate", "write"}
      /\ \A u \in Thread : u # t => todo'[u] = todo[u]
  BY <1>2, <1>3, FirstMoves
<1>5. SendsCleared' /\ PinsCleared' /\ KnownCleared'
  BY <1>4, QueuesStay DEF KeysOK
<1>6. TofuSaved'
  BY <1>1, <1>4, SavedStays DEF KeysOK
<1>7. TofuMet' /\ DiskMet'
  BY <1>1 DEF KeysOK, TofuMet, DiskMet
<1> QED
  BY <1>1, <1>5, <1>6, <1>7

LEMMA QuietKeys ==
  ASSUME ThreadsOK, KeysOK, NEW t \in Thread, Acquire(t) \/ Release(t) \/ StoreKey(t)
  PROVE  KeysOK'
<1>1. PICK what \in {"take", "drop", "put"} :
        /\ Step(t, what) /\ ThenFirst(t, << >>) /\ UNCHANGED <<tofu, disk, pinned, warned, torn, used>>
        /\ UNCHANGED known \/ StoreKey(t)
  BY DEF Acquire, Release, StoreKey, keys, history
<1>2. /\ SendsCleared' /\ PinsCleared' /\ KnownCleared' /\ TofuMet' /\ DiskMet' /\ TofuSaved'
      /\ \A e \in Pairs : Cleared(e) => Cleared(e)'
  BY <1>1, QuietStep
<1>3. UsedCleared'
  BY <1>1, <1>2 DEF KeysOK, UsedCleared, ThreadsOK, Types
<1> QED
  BY <1>2, <1>3 DEF KeysOK

\* What is encrypted for a key is encrypted when nothing is ahead of it.
LEMMA EncryptKeys == ASSUME ThreadsOK, KeysOK, Encrypt PROVE KeysOK'
<1>1. "main" \in Thread
  BY DEF Thread
<1>2. /\ Step("main", "send") /\ ThenFirst("main", << >>)
      /\ UNCHANGED <<known, tofu, disk, pinned, warned, torn>>
      /\ used' \subseteq used \cup {<<Head(todo["main"]).name, Head(todo["main"]).key>>}
  BY DEF Encrypt, keys
<1>3. /\ SendsCleared' /\ PinsCleared' /\ KnownCleared' /\ TofuMet' /\ DiskMet' /\ TofuSaved'
      /\ \A e \in Pairs : Cleared(e) => Cleared(e)'
  BY <1>1, <1>2, QuietStep
<1>4. /\ Head(todo["main"]) = todo["main"][1] /\ todo["main"][1] \in Steps
      /\ todo["main"][1].do = "send" /\ Len(todo["main"]) \in Nat \ {0}
  BY <1>1, <1>2, StepFacts
<1>5. PICK x, e : x = todo["main"][1] /\ e = <<x.name, x.key>>
  OBVIOUS
<1>6. e \in Pairs /\ x = Send(e)
  BY <1>4, <1>5, StepIs
<1>7. Clears(todo["main"], 1, e)
  BY <1>4, <1>5, <1>6 DEF KeysOK, SendsCleared
<1>8. Cleared(e)
  BY <1>7, AheadOfFirst DEF Clears
<1>9. used' \subseteq used \cup {e}
  BY <1>2, <1>4, <1>5
<1>10. UsedCleared'
  BY <1>3, <1>6, <1>8, <1>9 DEF KeysOK, UsedCleared, ThreadsOK, Types
<1> QED
  BY <1>3, <1>10 DEF KeysOK

LEMMA ReportKeys == ASSUME ThreadsOK, KeysOK, NEW t \in Thread, Report(t) PROVE KeysOK'
<1>1. /\ Step(t, "warn") /\ ThenFirst(t, << >>)
      /\ warned' = warned \cup {<<Head(todo[t]).name, Head(todo[t]).key>>}
      /\ UNCHANGED <<known, tofu, disk, pinned, torn, used>>
  BY DEF Report, keys
<1>2. Head(todo[t]) = todo[t][1] /\ todo[t][1].do = "warn"
  BY <1>1, StepFacts
<1>3. ASSUME NEW e \in Pairs
      PROVE  /\ Met(e) => Met(e)'
             /\ Pinned(e) => Pinned(e)'
             /\ Saved(e) => Saved(e)'
             /\ Cleared(e) => Cleared(e)'
  BY <1>1 DEF Met, Pinned, Saved, Cleared, Reported
<1>4. ASSUME NEW e \in Pairs
      PROVE  Kept(todo[t], << >>, e)
  <2>1. todo[t][1] # Write /\ todo[t][1] # Test(e)
    BY <1>2, KeyFields, OtherFields
  <2>2. ASSUME todo[t][1] = Warn(e[1], e[2])
        PROVE  Cleared(e)'
    <3>1. todo[t][1].name = e[1] /\ todo[t][1].key = e[2]
      BY <2>2, NameFields
    <3>2. e \in warned' /\ e = <<e[1], e[2]>>
      BY <1>1, <1>2, <3>1, PairParts
    <3> QED
      BY <3>2 DEF Cleared, Pinned, Saved, Met, Reported
  <2> QED
    BY <1>3, <2>1, <2>2 DEF Kept
<1>5. /\ Moves(t, << >>) /\ todo[t][1].do \notin {"truncate", "write"}
      /\ \A u \in Thread : u # t => todo'[u] = todo[u]
  BY <1>1, <1>2, <1>4, FirstMoves
<1>6. SendsCleared' /\ PinsCleared' /\ KnownCleared'
  BY <1>1, <1>5, QueuesStay DEF KeysOK
<1>7. TofuSaved'
  BY <1>1, <1>3, <1>5, SavedStays DEF KeysOK
<1>8. TofuMet' /\ DiskMet'
  BY <1>1, <1>3 DEF KeysOK, TofuMet, DiskMet
<1>9. UsedCleared'
  BY <1>1, <1>5, UsedStays DEF KeysOK
<1> QED
  BY <1>6, <1>7, <1>8, <1>9 DEF KeysOK


LEMMA TruncateKeys == ASSUME ThreadsOK, KeysOK, NEW t \in Thread, TruncateFile(t) PROVE KeysOK'
<1>1. /\ Step(t, "truncate") /\ ThenFirst(t, << >>) /\ disk' = Torn
      /\ UNCHANGED <<known, tofu, pinned, warned, torn, used>>
  BY DEF TruncateFile, history
<1>2. todo[t][1].do = "truncate"
  BY <1>1, StepFacts
<1>3. ASSUME NEW e \in Pairs
      PROVE  /\ Met(e) => Met(e)'
             /\ Pinned(e) => Pinned(e)'
             /\ Saved(e)'
             /\ Cleared(e) => Cleared(e)'
  BY <1>1 DEF Met, Pinned, Saved, Cleared, Reported
<1>4. ASSUME NEW e \in Pairs
      PROVE  Kept(todo[t], << >>, e)
  <2>1. todo[t][1] # Write /\ todo[t][1] # Test(e) /\ todo[t][1] # Warn(e[1], e[2])
    BY <1>2, KeyFields, NameFields, OtherFields
  <2> QED
    BY <1>3, <2>1 DEF Kept
<1>5. Moves(t, << >>)
  BY <1>1, <1>4, FirstMoves
<1>6. SendsCleared' /\ PinsCleared' /\ KnownCleared'
  BY <1>1, <1>5, QueuesStay DEF KeysOK
<1>7. UsedCleared'
  BY <1>1, <1>5, UsedStays DEF KeysOK
<1>8. TofuMet' /\ DiskMet'
  BY <1>1, <1>3 DEF KeysOK, TofuMet, DiskMet
<1>9. TofuSaved'
  BY <1>3 DEF TofuSaved
<1> QED
  BY <1>6, <1>7, <1>8, <1>9 DEF KeysOK

LEMMA WriteKeys == ASSUME ThreadsOK, KeysOK, NEW t \in Thread, WriteFile(t) PROVE KeysOK'
<1>1. /\ Step(t, "write") /\ ThenFirst(t, << >>) /\ disk' = tofu
      /\ UNCHANGED <<known, tofu, pinned, warned, torn, used>>
  BY DEF WriteFile, history
<1>2. todo[t][1].do = "write"
  BY <1>1, StepFacts
<1>3. ASSUME NEW e \in Pairs
      PROVE  /\ Met(e) => Met(e)'
             /\ Pinned(e) => Pinned(e)'
             /\ Pinned(e) => Cleared(e)'
             /\ Cleared(e) => Cleared(e)'
  BY <1>1 DEF Met, Pinned, Saved, Cleared, Reported
<1>4. ASSUME NEW e \in Pairs
      PROVE  Kept(todo[t], << >>, e)
  <2>1. todo[t][1] # Test(e) /\ todo[t][1] # Warn(e[1], e[2])
    BY <1>2, KeyFields, NameFields
  <2> QED
    BY <1>3, <2>1 DEF Kept
<1>5. Moves(t, << >>)
  BY <1>1, <1>4, FirstMoves
<1>6. SendsCleared' /\ PinsCleared' /\ KnownCleared'
  BY <1>1, <1>5, QueuesStay DEF KeysOK
<1>7. UsedCleared'
  BY <1>1, <1>5, UsedStays DEF KeysOK
<1>8. TofuMet' /\ DiskMet'
  BY <1>1, <1>3 DEF KeysOK, TofuMet, DiskMet
<1>9. TofuSaved'
  BY <1>1 DEF TofuSaved, Saved
<1> QED
  BY <1>6, <1>7, <1>8, <1>9 DEF KeysOK

\* Who holds the fingerprints finds them saved.
LEMMA TestSaved ==
  ASSUME ThreadsOK, TofuSaved, NEW t \in Thread, Step(t, "test"),
         NEW e \in Pairs, tofu[e[1]] = e[2]
  PROVE  Saved(e)
<1>1. ASSUME NEW u \in Thread, todo[u] # << >>, todo[u][1].do \in {"test", "truncate", "write"}
      PROVE  owner["tofu"] = u
  <2>1. PICK s : s = todo[u]
    OBVIOUS
  <2>2. s \in Seq(Steps) /\ s # << >> /\ Balanced(s) /\ Sheltered(s) /\ s[1].do \in {"test", "truncate", "write"}
    BY <1>1, <2>1 DEF ThreadsOK, Types, InOrder, Orderly
  <2>3. 1 \in 1 .. Len(s)
    BY <2>2, TailPlaces
  <2>4. HeldFrom(s, 1 + 1, "tofu")
    BY <2>2, <2>3 DEF Sheltered
  <2>5. "tofu" \in Mutex
    BY DEF Mutex
  <2>6. Held(Tail(s), "tofu")
    BY <2>2, <2>4, <2>5, HeldHead
  <2>7. s[1] # Take("tofu") /\ s[1] # Drop("tofu")
    BY <2>2, LockFields
  <2>8. Held(s, "tofu")
    BY <2>2, <2>5, <2>6, <2>7, HeldHead
  <2> QED
    BY <2>1, <2>5, <2>8 DEF ThreadsOK, Locked
<1>2. todo[t] # << >> /\ todo[t][1].do = "test"
  BY StepFacts
<1>3. owner["tofu"] = t
  BY <1>1, <1>2
<1>4. ASSUME NEW u \in Thread, Saving(todo[u])
      PROVE  FALSE
  <2>1. todo[u] # << >> /\ todo[u][1].do \in {"truncate", "write"}
    BY <1>4, SavingIs DEF Saving
  <2>2. u = t
    BY <1>1, <1>3, <2>1
  <2> QED
    BY <1>2, <2>1, <2>2
<1> QED
  BY <1>4 DEF TofuSaved

\* The first key of a name is pinned, and saved in two steps more; another one
\* is reported in two; the fingerprint itself needs neither.
LEMMA CompareKeys == ASSUME ThreadsOK, KeysOK, NEW t \in Thread, Compare(t) PROVE KeysOK'
<1>1. Step(t, "test") /\ UNCHANGED <<known, disk, warned, used, torn>>
  BY DEF Compare
<1>2. PICK e \in Pairs, a \in Seq(Steps) :
        /\ todo[t][1] = Test(e)
        /\ \/ tofu[e[1]] = NoKey /\ a = Save
              /\ tofu' = [tofu EXCEPT ![e[1]] = e[2]] /\ pinned' = pinned \cup {e}
           \/ tofu[e[1]] = e[2] /\ a = << >> /\ UNCHANGED <<tofu, pinned>>
           \/ /\ tofu[e[1]] \notin {NoKey, e[2]} /\ UNCHANGED <<tofu, pinned>>
              /\ a = <<Take("print"), Warn(e[1], e[2]), Drop("print")>>
        /\ todo' = [todo EXCEPT ![t] = a \o Tail(todo[t])]
        /\ Apart(a, "known")
        /\ Kinds(a, {"take", "drop", "warn", "truncate", "write"})
  BY CompareMoves
<1>3. /\ todo[t] # << >> /\ todo[t][1].do = "test" /\ todo[t] \in Seq(Steps)
      /\ tofu \in [Peer -> Entry \cup {NoKey}] /\ e[1] \in Peer /\ e[2] \in Entry /\ NoKey \notin Entry
  BY <1>1, StepFacts, PairParts, EntryIs DEF ThreadsOK, Types
<1>4. /\ \A n \in Peer : tofu'[n] # tofu[n] => n = e[1] /\ tofu[n] = NoKey /\ tofu'[n] = e[2] /\ a = Save
      /\ tofu[e[1]] = NoKey => e \in pinned' /\ tofu'[e[1]] = e[2] /\ a = Save
      /\ pinned \subseteq pinned'
  BY <1>2, <1>3
<1>5. ASSUME NEW f \in Pairs
      PROVE  /\ Met(f) => Met(f)'
             /\ Pinned(f) => Pinned(f)'
             /\ Saved(f) => Saved(f)'
             /\ Cleared(f) => Cleared(f)'
  <2>1. f[1] \in Peer /\ f[2] # NoKey
    BY <1>3, PairParts
  <2>2. tofu[f[1]] = f[2] => tofu'[f[1]] = f[2]
    BY <1>4, <2>1
  <2> QED
    BY <1>1, <1>4, <2>2 DEF Met, Pinned, Saved, Cleared, Reported
<1>6. ASSUME NEW f \in Pairs, f = e
      PROVE  \/ Cleared(f)'
             \/ Pinned(f)' /\ \E j \in 1 .. Len(a) : a[j] = Write
             \/ \E j \in 1 .. Len(a) : a[j] = Warn(f[1], f[2])
  <2>1. CASE tofu[e[1]] = NoKey
    <3>1. Pinned(f)'
      BY <1>4, <1>6, <2>1 DEF Pinned, Met
    <3>2. a[2] = Write /\ 2 \in 1 .. Len(a)
      <4>1. a = Save
        BY <1>4, <2>1
      <4>2. a[2] = Write /\ Len(a) = 2
        BY <4>1, SaveBalanced
      <4> QED
        BY <4>2
    <3> QED
      BY <3>1, <3>2
  <2>2. CASE tofu[e[1]] = e[2]
    <3>1. Met(f) /\ tofu[f[1]] = f[2]
      BY <1>6, <2>2 DEF KeysOK, TofuMet
    <3>2. Saved(f)
      BY <1>1, <3>1, TestSaved DEF KeysOK
    <3> QED
      BY <1>5, <3>1, <3>2 DEF Cleared, Pinned
  <2>3. CASE tofu[e[1]] \notin {NoKey, e[2]}
    <3>1. a = <<Take("print"), Warn(e[1], e[2]), Drop("print")>>
      BY <1>2, <2>3
    <3>2. a[2] = Warn(e[1], e[2]) /\ 2 \in 1 .. Len(a)
      BY <3>1, WarnBalanced
    <3> QED
      BY <1>6, <3>2
  <2> QED
    BY <2>1, <2>2, <2>3
<1>7. ASSUME NEW f \in Pairs
      PROVE  Kept(todo[t], a, f)
  <2>1. todo[t][1] # Write /\ todo[t][1] # Warn(f[1], f[2])
    BY <1>3, NameFields, OtherFields
  <2>2. todo[t][1] = Test(f) => f = e
    <3>1. ASSUME todo[t][1] = Test(f)
          PROVE  f[1] = e[1] /\ f[2] = e[2]
      <4>1. PICK x : x = todo[t][1]
        OBVIOUS
      <4>2. x = Test(f) /\ x = Test(e)
        BY <1>2, <3>1, <4>1
      <4>3. x.name = f[1] /\ x.key = f[2]
        BY <4>2, KeyFields
      <4>4. x.name = e[1] /\ x.key = e[2]
        BY <4>2, <1>2, KeyFields
      <4> QED
        BY <4>3, <4>4
    <3> QED
      BY <3>1, PairParts
  <2> QED
    BY <1>5, <1>6, <2>1, <2>2 DEF Kept
<1>8. Moves(t, a)
  BY <1>2, <1>3, <1>7 DEF Moves
<1>9. SendsCleared' /\ PinsCleared' /\ KnownCleared'
  BY <1>1, <1>8, QueuesStay DEF KeysOK
<1>10. UsedCleared'
  BY <1>1, <1>8, UsedStays DEF KeysOK
<1>11. TofuMet'
  <2> SUFFICES ASSUME NEW f \in Pairs, tofu'[f[1]] = f[2] PROVE Met(f)'
    BY DEF TofuMet
  <2>1. CASE tofu[f[1]] = f[2]
    BY <1>5, <2>1 DEF KeysOK, TofuMet
  <2>2. CASE tofu[f[1]] # f[2]
    <3>1. f[1] \in Peer /\ f[1] = e[1] /\ tofu[e[1]] = NoKey /\ f[2] = e[2]
      BY <1>4, <2>2, PairParts
    <3>2. f = e
      BY <3>1, PairParts
    <3> QED
      BY <1>4, <3>1, <3>2 DEF Met
  <2> QED
    BY <2>1, <2>2
<1>12. DiskMet'
  BY <1>1, <1>5 DEF KeysOK, DiskMet
<1>13. TofuSaved'
  <2>1. CASE UNCHANGED tofu
    <3>1. \A u \in Thread : u # t => todo'[u] = todo[u]
      BY <1>8, MovesIs
    <3> QED
      BY <1>3, <1>5, <2>1, <3>1, SavedStays DEF KeysOK
  <2>2. CASE tofu' # tofu
    <3>1. a = Save
      BY <1>2, <2>2
    <3>2. PICK q : q = todo'[t]
      OBVIOUS
    <3>3. q = a \o Tail(todo[t])
      BY <1>8, <3>2, MovesIs
    <3>4. Len(a) = 2 /\ a[1] = Truncate /\ a[2] = Write
      BY <3>1, SaveBalanced
    <3>5. q[1] = Truncate /\ q[2] = Write /\ Len(q) > 1 /\ q # << >>
      <4>1. /\ Len(q) = Len(a) + Len(todo[t]) - 1 /\ Len(todo[t]) \in Nat \ {0} /\ q \in Seq(Steps)
            /\ \A i \in 1 .. Len(a) : q[i] = a[i]
        BY <1>2, <1>3, <3>3, MovedPlaces
      <4>2. Len(q) > 1
        BY <3>4, <4>1
      <4>3. q # << >>
        BY <4>1, <4>2
      <4> QED
        BY <3>4, <4>1, <4>2, <4>3
    <3>6. (\E u \in Thread : Saving(todo[u]))'
      BY <3>2, <3>5 DEF Saving
    <3> QED
      BY <3>6 DEF TofuSaved
  <2> QED
    BY <2>1, <2>2
<1> QED
  BY <1>9, <1>10, <1>11, <1>12, <1>13 DEF KeysOK

\* The key that the user trusts was met and saved, and whoever is known by
\* another one too has been reported.
LEMMA TrustKeys == ASSUME ThreadsOK, KeysOK, Trust PROVE KeysOK'
<1>1. "main" \in Thread
  BY DEF Thread
<1>2. /\ Step("main", "pin") /\ ThenFirst("main", << >>)
      /\ tofu' = [tofu EXCEPT ![Head(todo["main"]).name] = Head(todo["main"]).key]
      /\ UNCHANGED <<known, disk, pinned, warned, torn, used>>
  BY DEF Trust, history
<1>3. /\ Head(todo["main"]) = todo["main"][1] /\ todo["main"][1] \in Steps
      /\ todo["main"][1].do = "pin" /\ Len(todo["main"]) \in Nat \ {0}
  BY <1>1, <1>2, StepFacts
<1>4. PICK x, e : x = todo["main"][1] /\ e = <<x.name, x.key>>
  OBVIOUS
<1>5. e \in Pairs /\ x = Pin(e[1], e[2])
  BY <1>3, <1>4, StepIs
<1>6. Cleared(e)
  BY <1>3, <1>4, <1>5, SMTT(30) DEF KeysOK, PinsCleared
<1>7. /\ tofu' = [tofu EXCEPT ![e[1]] = e[2]] /\ e[1] \in Peer
      /\ tofu \in [Peer -> Entry \cup {NoKey}]
  BY <1>2, <1>3, <1>4, <1>5, PairParts DEF ThreadsOK, Types
<1>8. ASSUME NEW f \in Pairs
      PROVE  /\ Met(f) => Met(f)'
             /\ Pinned(f) => Pinned(f)'
             /\ Saved(f) => Saved(f)'
             /\ Cleared(f) => Cleared(f)'
  <2>1. f[1] \in Peer
    BY PairParts
  <2>2. tofu'[f[1]] = IF f[1] = e[1] THEN e[2] ELSE tofu[f[1]]
    BY <1>7, <2>1
  <2> QED
    BY <1>2, <1>6, <2>2 DEF Met, Pinned, Saved, Cleared, Reported
<1>9. ASSUME NEW f \in Pairs
      PROVE  Kept(todo["main"], << >>, f)
  <2>1. todo["main"][1] # Write /\ todo["main"][1] # Test(f) /\ todo["main"][1] # Warn(f[1], f[2])
    BY <1>3, KeyFields, NameFields, OtherFields
  <2> QED
    BY <1>8, <2>1 DEF Kept
<1>10. /\ Moves("main", << >>) /\ todo["main"][1].do \notin {"truncate", "write"}
       /\ \A u \in Thread : u # "main" => todo'[u] = todo[u]
  BY <1>1, <1>2, <1>3, <1>9, FirstMoves
<1>11. SendsCleared' /\ PinsCleared' /\ KnownCleared'
  BY <1>1, <1>2, <1>10, QueuesStay DEF KeysOK
<1>12. UsedCleared'
  BY <1>1, <1>2, <1>10, UsedStays DEF KeysOK
<1>13. ASSUME NEW f \in Pairs, tofu'[f[1]] = f[2], tofu[f[1]] # f[2]
       PROVE  f = e
  <2>1. f[1] = e[1] /\ f[2] = e[2]
    BY <1>7, <1>13, PairParts
  <2> QED
    BY <1>5, <2>1, PairParts
<1>14. TofuMet'
  BY <1>6, <1>8, <1>13 DEF KeysOK, TofuMet, Cleared, Pinned
<1>15. DiskMet'
  BY <1>2, <1>8 DEF KeysOK, DiskMet
<1>16. TofuSaved'
  <2> SUFFICES ASSUME NEW f \in Pairs, tofu'[f[1]] = f[2]
               PROVE  Saved(f)' \/ \E u \in Thread : Saving(todo'[u])
    BY DEF TofuSaved, Saving
  <2>1. CASE tofu[f[1]] = f[2]
    <3>1. Saved(f) \/ \E u \in Thread : Saving(todo[u])
      BY <2>1 DEF KeysOK, TofuSaved
    <3> QED
      BY <1>1, <1>8, <1>10, <3>1, SavingStays
  <2>2. CASE tofu[f[1]] # f[2]
    BY <1>6, <1>8, <1>13, <2>2 DEF Cleared
  <2> QED
    BY <2>1, <2>2
<1> QED
  BY <1>11, <1>12, <1>14, <1>15, <1>16 DEF KeysOK


\* Who neither tests nor warns nor writes clears nothing more than is cleared.
LEMMA NothingAhead ==
  ASSUME NEW s, Kinds(s, {"ask", "await", "look", "recall", "drop"}),
         NEW i, i - 1 <= Len(s), Len(s) \in Nat, i \in Nat, NEW e \in Pairs, Clears(s, i, e)
  PROVE  Cleared(e)
<1>1. ASSUME NEW x, Ahead(s, i, x)
      PROVE  x.do \in {"ask", "await", "look", "recall", "drop"}
  <2>1. PICK j \in 1 .. i - 1 : s[j] = x
    BY <1>1 DEF Ahead
  <2>2. j \in 1 .. Len(s)
    BY <2>1
  <2> QED
    BY <2>1, <2>2 DEF Kinds
<1>2. ~Ahead(s, i, Write)
  BY <1>1, OtherFields
<1>3. ~Ahead(s, i, Test(e))
  BY <1>1, KeyFields
<1>4. ~Ahead(s, i, Warn(e[1], e[2]))
  <2>1. Warn(e[1], e[2]).do = "warn"
    BY NameFields
  <2> QED
    BY <1>1, <2>1
<1> QED
  BY <1>2, <1>3, <1>4 DEF Clears

\* A thread begins something else; what it had still to do was to ask or look.
LEMMA StartKeys ==
  ASSUME ThreadsOK, KeysOK, NEW t \in Thread, NEW q \in Seq(Steps), todo' = [todo EXCEPT ![t] = q],
         UNCHANGED <<keys, history>>,
         Kinds(todo[t], {"ask", "await", "look", "recall", "drop"}),
         t = "reader" => todo[t] = << >>,
         \A e \in Pairs : \A i \in 1 .. Len(q) : q[i] = Send(e) => Cleared(e) \/ Ahead(q, i, Test(e)),
         \A e \in Pairs : \A i \in 1 .. Len(q) : q[i] = Pin(e[1], e[2]) => Cleared(e)
  PROVE  KeysOK'
<1>1. UNCHANGED <<known, tofu, disk, pinned, warned, used, torn>>
  BY DEF keys, history
<1>2. ASSUME NEW e \in Pairs
      PROVE  /\ Met(e) => Met(e)'
             /\ Saved(e) => Saved(e)'
             /\ Cleared(e) => Cleared(e)'
  BY <1>1 DEF Met, Pinned, Saved, Cleared, Reported
<1>3. ASSUME NEW e \in Pairs, NEW s, NEW i, Clears(s, i, e)
      PROVE  Clears(s, i, e)'
  BY <1>1, <1>3 DEF Clears, Met, Pinned, Saved, Cleared, Reported
<1>4. "main" \in Thread /\ "reader" \in Thread /\ "main" # "reader"
  BY DEF Thread
<1>5. todo'[t] = q /\ \A u \in Thread : u # t => todo'[u] = todo[u]
  BY DEF ThreadsOK, Types
<1>6. SendsCleared'
  <2>1. PICK z : z = todo'["main"]
    OBVIOUS
  <2> SUFFICES ASSUME NEW e \in Pairs, NEW i \in 1 .. Len(z), z[i] = Send(e)
               PROVE  Clears(z, i, e)'
    BY <2>1 DEF SendsCleared
  <2>2. CASE t = "main"
    <3>1. Cleared(e) \/ Ahead(z, i, Test(e))
      BY <1>5, <2>1, <2>2
    <3> QED
      BY <1>2, <3>1 DEF Clears
  <2>3. CASE t # "main"
    <3>1. z = todo["main"]
      BY <1>4, <1>5, <2>1, <2>3
    <3>2. Clears(z, i, e)
      BY <3>1 DEF KeysOK, SendsCleared
    <3> QED
      BY <1>3, <3>2
  <2> QED
    BY <2>2, <2>3
<1>7. PinsCleared'
  <2>1. PICK z : z = todo'["main"]
    OBVIOUS
  <2> SUFFICES ASSUME NEW e \in Pairs, NEW i \in 1 .. Len(z), z[i] = Pin(e[1], e[2])
               PROVE  Cleared(e)'
    BY <2>1 DEF PinsCleared
  <2>2. CASE t = "main"
    BY <1>2, <1>5, <2>1, <2>2
  <2>3. CASE t # "main"
    <3>1. z = todo["main"]
      BY <1>4, <1>5, <2>1, <2>3
    <3>2. Cleared(e)
      BY <3>1 DEF KeysOK, PinsCleared
    <3> QED
      BY <1>2, <3>2
  <2> QED
    BY <2>2, <2>3
<1>8. KnownCleared'
  <2> SUFFICES ASSUME NEW e \in Pairs, known'[e[1]] = e[2]
               PROVE  SeenTo(e)'
    BY DEF KnownCleared
  <2>1. SeenTo(e)
    BY <1>1 DEF KeysOK, KnownCleared
  <2>2. PICK s, r, z : s = todo["main"] /\ r = todo["reader"] /\ z = todo'["main"]
    OBVIOUS
  <2>3. CASE t = "main"
    <3>1. CASE Clears(s, Len(s) + 1, e)
      <4>1. Len(s) \in Nat /\ Kinds(s, {"ask", "await", "look", "recall", "drop"})
        BY <2>2, <2>3 DEF ThreadsOK, Types
      <4>2. Len(s) + 1 \in Nat /\ (Len(s) + 1) - 1 <= Len(s)
        BY <4>1
      <4>3. Cleared(e)
        BY <3>1, <4>1, <4>2, NothingAhead
      <4> QED
        BY <1>2, <4>3 DEF SeenTo, Clears
    <3>2. CASE ReaderClears(r, e)
      <4>1. todo'["reader"] = r
        BY <1>4, <1>5, <2>2, <2>3
      <4>2. Clears(r, Len(r), e)'
        BY <1>3, <3>2 DEF ReaderClears
      <4>3. ReaderClears(r, e)'
        BY <3>2, <4>2 DEF ReaderClears
      <4> QED
        BY <4>1, <4>3 DEF SeenTo, ReaderClears, Clears
    <3> QED
      BY <2>1, <2>2, <3>1, <3>2 DEF SeenTo
  <2>4. CASE t = "reader"
    <3>1. ~ReaderClears(r, e)
      BY <2>2, <2>4 DEF ReaderClears
    <3>2. Clears(s, Len(s) + 1, e) /\ z = s
      BY <1>4, <1>5, <2>1, <2>2, <2>4, <3>1 DEF SeenTo
    <3>3. Clears(z, Len(z) + 1, e)'
      BY <1>3, <3>2
    <3> QED
      BY <2>2, <3>3 DEF SeenTo, Clears
  <2> QED
    BY <2>3, <2>4 DEF Thread
<1>9. UsedCleared' /\ TofuMet' /\ DiskMet'
  BY <1>1, <1>2 DEF KeysOK, UsedCleared, TofuMet, DiskMet, ThreadsOK, Types
<1>10. TofuSaved'
  <2>1. todo[t] = << >> \/ todo[t][1].do \notin {"truncate", "write"}
    <3>1. ASSUME todo[t] # << >>
          PROVE  1 \in 1 .. Len(todo[t])
      BY <3>1, TailPlaces DEF ThreadsOK, Types
    <3> QED
      BY <3>1 DEF Kinds
  <2>2. ~Saving(todo[t])
    BY <2>1, SavingIs DEF Saving
  <2> SUFFICES ASSUME NEW e \in Pairs, tofu'[e[1]] = e[2]
               PROVE  Saved(e)' \/ \E u \in Thread : Saving(todo'[u])
    BY DEF TofuSaved, Saving
  <2>3. Saved(e) \/ \E u \in Thread : Saving(todo[u])
    BY <1>1 DEF KeysOK, TofuSaved
  <2> QED
    BY <1>2, <1>5, <2>2, <2>3
<1> QED
  BY <1>6, <1>7, <1>8, <1>9, <1>10 DEF KeysOK

LEMMA LastKinds ==
  ASSUME ThreadsOK, NEW what \in {"ask", "await", "look", "recall"}, Step("main", what)
  PROVE  Kinds(todo["main"], {"ask", "await", "look", "recall", "drop"})
<1>1. "main" \in Thread
  BY DEF Thread
<1>2. PICK s : s = todo["main"]
  OBVIOUS
<1>3. s[1].do = what
  BY <1>1, <1>2, StepFacts
<1>4. Len(s) = 1 \/ (Len(s) = 2 /\ s[2] = Drop("known"))
  BY <1>2, LastSteps
<1>5. ASSUME NEW i \in 1 .. Len(s)
      PROVE  i = 1 \/ (i = 2 /\ s[2] = Drop("known"))
  <2>1. CASE Len(s) = 1
    BY <2>1
  <2>2. CASE Len(s) = 2 /\ s[2] = Drop("known")
    <3>1. i \in 1 .. 2
      BY <2>2
    <3> QED
      BY <2>2, <3>1
  <2> QED
    BY <1>4, <2>1, <2>2
<1> QED
  BY <1>2, <1>3, <1>5, LockFields DEF Kinds

\* What the main thread finds known while it holds the known keys.
LEMMA KnownIsCleared ==
  ASSUME ThreadsOK, KeysOK, NEW what \in {"look", "recall"}, Step("main", what),
         NEW e \in Pairs, known[e[1]] = e[2]
  PROVE  Cleared(e)
<1>1. "main" \in Thread /\ "reader" \in Thread /\ "known" \in Mutex /\ "main" # "reader"
  BY DEF Thread, Mutex
<1>2. PICK s, r : s = todo["main"] /\ r = todo["reader"]
  OBVIOUS
<1>3. /\ Len(s) = 2 /\ s[2] = Drop("known") /\ s[1].do = what
      /\ owner["known"] = "main"
  BY <1>1, <1>2, LastSteps, StepFacts
<1>4. Kinds(s, {"ask", "await", "look", "recall", "drop"})
  BY <1>2, LastKinds
<1>5. ~ReaderClears(r, e)
  <2> SUFFICES ASSUME ReaderClears(r, e) PROVE FALSE
    OBVIOUS
  <2>1. r # << >> /\ r[Len(r)] = Drop("known") /\ r[1] # Take("known")
    BY DEF ReaderClears
  <2>2. r \in Seq(Steps) /\ Reads(r)
    BY <1>1, <1>2 DEF ThreadsOK, Types, InOrder, Orderly
  <2>3. Len(r) \in Nat \ {0}
    BY <2>1, <2>2, TailPlaces
  <2>4. ASSUME NEW j \in 1 .. Len(r) - 1
        PROVE  r[j] # Take("known")
    <3>1. j \in 1 .. Len(r)
      BY <2>3
    <3> QED
      BY <2>1, <2>2, <3>1 DEF Reads
  <2>5. Len(r) \in 1 .. Len(r)
    BY <2>3
  <2>6. Held(r, "known")
    BY <2>1, <2>4, <2>5 DEF Held, HeldFrom
  <2>7. owner["known"] = "reader"
    BY <1>1, <1>2, <2>6 DEF ThreadsOK, Locked
  <2> QED
    BY <1>1, <1>3, <2>7
<1>6. Clears(s, Len(s) + 1, e)
  BY <1>2, <1>5 DEF KeysOK, KnownCleared, SeenTo
<1>7. Clears(s, 3, e)
  BY <1>3, <1>6
<1>8. 3 \in Nat /\ 3 - 1 <= Len(s) /\ Len(s) \in Nat
  BY <1>3
<1> QED
  BY <1>4, <1>7, <1>8, NothingAhead

\* The main thread frees the known keys and does a.
LEMMA LookKeys ==
  ASSUME ThreadsOK, KeysOK, NEW what \in {"look", "recall"}, Step("main", what),
         NEW a \in Seq(Steps), todo' = [todo EXCEPT !["main"] = <<Drop("known")>> \o a],
         UNCHANGED <<keys, history>>,
         \A e \in Pairs, i \in 1 .. Len(a) :
           a[i] = Send(e) \/ a[i] = Pin(e[1], e[2]) => known[e[1]] = e[2]
  PROVE  KeysOK'
<1>1. "main" \in Thread /\ "main" # "reader"
  BY DEF Thread
<1>2. PICK d, q : d = <<Drop("known")>> /\ q = d \o a
  OBVIOUS
<1>3. d \in Seq(Steps) /\ Len(d) = 1 /\ d[1] = Drop("known")
  BY <1>2 DEF Steps, Mutex
<1>4. /\ q \in Seq(Steps) /\ Len(q) = 1 + Len(a) /\ Len(a) \in Nat /\ q[1] = d[1]
      /\ \A i \in 1 + 1 .. 1 + Len(a) : i - 1 \in 1 .. Len(a) /\ q[i] = a[i - 1]
  BY <1>2, <1>3, JoinPlaces
<1>5. ASSUME NEW e \in Pairs, NEW i \in 1 .. Len(q), q[i] = Send(e) \/ q[i] = Pin(e[1], e[2])
      PROVE  Cleared(e)
  <2>1. q[1].do = "drop" /\ Send(e).do = "send" /\ Pin(e[1], e[2]).do = "pin"
    BY <1>3, <1>4, LockFields, KeyFields, NameFields
  <2>2. i # 1
    BY <1>5, <2>1
  <2>3. i - 1 \in 1 .. Len(a) /\ q[i] = a[i - 1]
    BY <1>4, <2>2
  <2>4. known[e[1]] = e[2]
    BY <1>5, <2>3
  <2> QED
    BY <2>4, KnownIsCleared
<1>6. Kinds(todo["main"], {"ask", "await", "look", "recall", "drop"})
  BY LastKinds
<1>7. todo' = [todo EXCEPT !["main"] = q]
  BY <1>2
<1> QED
  BY <1>1, <1>4, <1>5, <1>6, <1>7, StartKeys

LEMMA LookUpKeys == ASSUME ThreadsOK, KeysOK, LookUp PROVE KeysOK'
<1>1. Step("main", "look") /\ UNCHANGED <<keys, history>>
  BY DEF LookUp
<1>2. PICK a \in Seq(Steps) :
        /\ todo' = [todo EXCEPT !["main"] = <<Drop("known")>> \o a]
        /\ Kinds(a, {"ask", "send", "take", "drop"})
        /\ \A e \in Pairs, i \in 1 .. Len(a) : a[i] = Send(e) => known[e[1]] = e[2]
  BY LookUpMoves
<1>3. ASSUME NEW e \in Pairs, NEW i \in 1 .. Len(a), a[i] = Pin(e[1], e[2])
      PROVE  FALSE
  <2>1. a[i].do = "pin"
    BY <1>3, NameFields
  <2> QED
    BY <1>2, <2>1 DEF Kinds
<1> QED
  BY <1>1, <1>2, <1>3, LookKeys

LEMMA RecallKeys == ASSUME ThreadsOK, KeysOK, RecallKey PROVE KeysOK'
<1>1. Step("main", "recall") /\ UNCHANGED <<keys, history>>
  BY DEF RecallKey
<1>2. PICK a \in Seq(Steps) :
        /\ todo' = [todo EXCEPT !["main"] = <<Drop("known")>> \o a]
        /\ Kinds(a, {"pin", "take", "drop", "truncate", "write"})
        /\ \A e \in Pairs, i \in 1 .. Len(a) : a[i] = Pin(e[1], e[2]) => known[e[1]] = e[2]
  BY RecallMoves
<1>3. ASSUME NEW e \in Pairs, NEW i \in 1 .. Len(a), a[i] = Send(e)
      PROVE  FALSE
  <2>1. a[i].do = "send"
    BY <1>3, KeyFields
  <2> QED
    BY <1>2, <2>1 DEF Kinds
<1> QED
  BY <1>1, <1>2, <1>3, LookKeys

\* What begins without a send or a pin.
LEMMA PlainStart ==
  ASSUME ThreadsOK, KeysOK, NEW t \in Thread, NEW q \in Seq(Steps), todo' = [todo EXCEPT ![t] = q],
         UNCHANGED <<keys, history>>,
         Kinds(todo[t], {"ask", "await", "look", "recall", "drop"}),
         t = "reader" => todo[t] = << >>,
         NEW K, Kinds(q, K), "send" \notin K, "pin" \notin K
  PROVE  KeysOK'
<1>1. \A i \in 1 .. Len(q) : q[i].do \in K
  BY DEF Kinds
<1>2. \A e \in Pairs : \A i \in 1 .. Len(q) : q[i] # Send(e)
  BY <1>1, KeyFields
<1>3. \A e \in Pairs : \A i \in 1 .. Len(q) : q[i] # Pin(e[1], e[2])
  BY <1>1, NameFields
<1> QED
  BY <1>2, <1>3, StartKeys

LEMMA EmptyKinds ==
  ASSUME NEW t, todo[t] = << >>
  PROVE  Kinds(todo[t], {"ask", "await", "look", "recall", "drop"})
  BY NothingIs

LEMMA RequestKeys == ASSUME ThreadsOK, KeysOK, Request \/ TimeOut PROVE KeysOK'
<1>1. "main" \in Thread /\ "main" # "reader"
  BY DEF Thread
<1>2. PICK what \in {"ask", "await"} : Step("main", what)
  BY DEF Request, TimeOut
<1>3. Kinds(todo["main"], {"ask", "await", "look", "recall", "drop"}) /\ UNCHANGED <<keys, history>>
  BY <1>2, LastKinds DEF Request, TimeOut
<1>4. CASE Request
  <2>1. PICK a \in Seq(Steps) : todo' = [todo EXCEPT !["main"] = a] /\ Kinds(a, {"await"})
    BY <1>4, RequestMoves
  <2>2. "send" \notin {"await"} /\ "pin" \notin {"await"}
    OBVIOUS
  <2> QED
    BY <1>1, <1>3, <2>1, <2>2, PlainStart
<1>5. CASE TimeOut
  <2>1. /\ todo' = [todo EXCEPT !["main"] = PPrint] /\ PPrint \in Seq(Steps)
        /\ Kinds(PPrint, {"take", "drop"})
    BY <1>5, TimeOutMoves, PPrintSound DEF Sound
  <2>2. "send" \notin {"take", "drop"} /\ "pin" \notin {"take", "drop"}
    OBVIOUS
  <2> QED
    BY <1>1, <1>3, <2>1, <2>2, PlainStart
<1> QED
  BY <1>4, <1>5

LEMMA UserKeys == ASSUME ThreadsOK, KeysOK, User PROVE KeysOK'
<1>1. "main" \in Thread /\ "main" # "reader"
  BY DEF Thread
<1>2. PICK a \in Seq(Steps) : /\ todo' = [todo EXCEPT !["main"] = a]
                              /\ Kinds(a, {"take", "drop", "look", "recall", "ask"})
  BY UserMoves
<1>3. todo["main"] = << >> /\ UNCHANGED <<keys, history>>
  BY UserMoves
<1>4. Kinds(todo["main"], {"ask", "await", "look", "recall", "drop"})
  BY <1>3, EmptyKinds
<1>5. /\ "send" \notin {"take", "drop", "look", "recall", "ask"}
      /\ "pin" \notin {"take", "drop", "look", "recall", "ask"}
  OBVIOUS
<1> QED
  BY <1>1, <1>2, <1>3, <1>4, <1>5, PlainStart

LEMMA ServerKeys == ASSUME ThreadsOK, KeysOK, Server PROVE KeysOK'
<1>1. "main" \in Thread /\ "reader" \in Thread /\ "main" # "reader"
  BY DEF Thread
<1>2. CASE Announce \/ ReadText \/ ReadLine
  <2>1. PICK a \in Seq(Steps) : /\ todo' = [todo EXCEPT !["reader"] = a]
                                /\ Kinds(a, {"take", "drop", "put", "test"})
    BY <1>2, FramesMove
  <2>2. todo["reader"] = << >> /\ UNCHANGED <<keys, history>>
    BY <1>2, FramesMove
  <2>3. Kinds(todo["reader"], {"ask", "await", "look", "recall", "drop"})
    BY <2>2, EmptyKinds
  <2>4. /\ "send" \notin {"take", "drop", "put", "test"}
        /\ "pin" \notin {"take", "drop", "put", "test"}
    OBVIOUS
  <2> QED
    BY <1>1, <2>1, <2>2, <2>3, <2>4, PlainStart
<1>3. CASE Respond
  <2>1. UNCHANGED <<keys, history>>
    BY <1>3, RespondMoves
  <2>2. CASE UNCHANGED todo
    BY <2>1, <2>2
       DEF keys, history, KeysOK, SendsCleared, PinsCleared, KnownCleared, UsedCleared, TofuMet,
           DiskMet, TofuSaved, SeenTo, ReaderClears, Clears, Cleared, Pinned, Saved, Met, Reported
  <2>3. CASE todo' # todo
    <3>1. PICK a \in Seq(Steps) :
            /\ todo' = [todo EXCEPT !["main"] = a] /\ SendsTested(a)
            /\ Kinds(a, {"take", "drop", "put", "test", "send"})
      BY <1>3, <2>3, RespondMoves
    <3>2. Step("main", "await")
      BY <1>3, <2>3, RespondMoves
    <3>3. Kinds(todo["main"], {"ask", "await", "look", "recall", "drop"})
      BY <3>2, LastKinds
    <3>4. \A e \in Pairs : \A i \in 1 .. Len(a) : a[i] = Send(e) => Ahead(a, i, Test(e))
      BY <3>1 DEF SendsTested, Ahead
    <3>5. \A e \in Pairs : \A i \in 1 .. Len(a) : a[i] # Pin(e[1], e[2])
      <4>1. \A i \in 1 .. Len(a) : a[i].do \in {"take", "drop", "put", "test", "send"}
        BY <3>1 DEF Kinds
      <4> QED
        BY <4>1, NameFields
    <3> QED
      BY <1>1, <2>1, <3>1, <3>3, <3>4, <3>5, StartKeys
  <2> QED
    BY <2>2, <2>3
<1> QED
  BY <1>2, <1>3 DEF Server

\* After a kill the names have the keys of the file, or the file was torn.
LEMMA KillKeys == ASSUME ThreadsOK, KeysOK, Kill PROVE KeysOK'
<1>1. /\ todo' = [t \in Thread |-> << >>] /\ known' = None
      /\ tofu' = (IF disk = Torn THEN None ELSE disk)
      /\ torn' = (torn \/ disk = Torn)
      /\ UNCHANGED <<disk, pinned, warned, used>>
  BY DEF Kill
<1>2. todo'["main"] = << >> /\ Len(todo'["main"]) = 0
  BY <1>1, NothingIs DEF Thread
<1>3. SendsCleared' /\ PinsCleared'
  BY <1>2 DEF SendsCleared, PinsCleared
<1>4. \A e \in Pairs : None[e[1]] # e[2]
  BY PairParts, EntryIs DEF None
<1>5. KnownCleared'
  BY <1>1, <1>4 DEF KnownCleared
<1>6. ASSUME NEW e \in Pairs
      PROVE  /\ Met(e) => Met(e)'
             /\ tofu'[e[1]] = e[2] => disk # Torn /\ disk[e[1]] = e[2]
             /\ Saved(e) => Saved(e)'
             /\ Cleared(e) => Cleared(e)'
  BY <1>1, <1>4 DEF Met, Pinned, Saved, Cleared, Reported
<1>7. UsedCleared'
  BY <1>1, <1>6 DEF KeysOK, UsedCleared, ThreadsOK, Types
<1>8. TofuMet' /\ DiskMet'
  BY <1>1, <1>6 DEF KeysOK, TofuMet, DiskMet
<1>9. TofuSaved'
  BY <1>1, <1>6 DEF TofuSaved, Saved
<1> QED
  BY <1>3, <1>5, <1>7, <1>8, <1>9 DEF KeysOK

LEMMA InitKeys == CInit => KeysOK
<1> SUFFICES ASSUME CInit PROVE KeysOK
  OBVIOUS
<1>1. /\ todo["main"] = << >> /\ Len(todo["main"]) = 0
      /\ known = None /\ tofu = None /\ disk = None /\ used = {}
  BY NothingIs DEF CInit, Thread
<1>2. \A e \in Pairs : None[e[1]] # e[2]
  BY PairParts, EntryIs DEF None
<1> QED
  BY <1>1, <1>2 DEF KeysOK, SendsCleared, PinsCleared, KnownCleared, UsedCleared, TofuMet, DiskMet, TofuSaved

\* Every step keeps what is known, pinned and saved of the keys.
LEMMA NextKeys == ASSUME ThreadsOK, KeysOK, [CNext]_cvars PROVE KeysOK'
<1>1. "main" \in Thread /\ "reader" \in Thread
  BY DEF Thread
<1>2. ASSUME NEW t \in Thread, OneStep(t)
      PROVE  KeysOK'
  BY <1>2, QuietKeys, CompareKeys, ReportKeys, TruncateKeys, WriteKeys DEF OneStep
<1>3. CASE Main
  BY <1>1, <1>2, <1>3, LookUpKeys, RequestKeys, EncryptKeys, RecallKeys, TrustKeys DEF Main
<1>4. CASE OneStep("reader")
  BY <1>1, <1>2, <1>4
<1>5. CASE User
  BY <1>5, UserKeys
<1>6. CASE Server
  BY <1>6, ServerKeys
<1>7. CASE Kill
  BY <1>7, KillKeys
<1>8. CASE UNCHANGED cvars
  BY <1>8 DEF cvars, threads, keys, history, KeysOK, SendsCleared, PinsCleared, KnownCleared, UsedCleared,
              TofuMet, DiskMet, TofuSaved, SeenTo, ReaderClears, Clears, Cleared, Pinned, Saved, Met, Reported
<1> QED
  BY <1>3, <1>4, <1>5, <1>6, <1>7, <1>8 DEF CNext

\* Threads and keys keep their invariants together.
LEMMA ConsoleInvariant == CSpec => [](ThreadsOK /\ KeysOK)
<1>1. CInit => ThreadsOK /\ KeysOK
  BY InitOK, InitKeys
<1>2. ThreadsOK /\ KeysOK /\ [CNext]_cvars => (ThreadsOK /\ KeysOK)'
  BY NextOK, NextKeys
<1> QED
  BY <1>1, <1>2, PTL DEF CSpec

\* Nothing is encrypted for a key before that key has been pinned as the first
\* of its name or has been reported as another one, whichever of the threads
\* stored it and whatever the other did between.
THEOREM KeysWarnedBeforeUse == CSpec => []WarnedBeforeUse
<1>1. ThreadsOK /\ KeysOK => WarnedBeforeUse
  BY KeysAreSafe
<1> QED
  BY <1>1, ConsoleInvariant, PTL

\* Nobody is written to under two keys without a report of one, however often
\* the client is killed and started again, unless a kill has torn tofu.json.
THEOREM KeyChangesReported == CSpec => []ChangeIsReported
<1>1. ThreadsOK /\ KeysOK => ChangeIsReported
  BY KeysAreSafe
<1> QED
  BY <1>1, ConsoleInvariant, PTL

=============================================================================
