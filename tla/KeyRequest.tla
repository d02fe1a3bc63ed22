----------------------------- MODULE KeyRequest -----------------------------
(***************************************************************************)
(* How the GUI client gets the public key it encrypts with                 *)
(* (rust_gui/src/net.rs): the cache known, filled by the reader thread     *)
(* from the server's announcements and by the network thread from answers  *)
(* to /pubkey and /roommembers, and the TOFU fingerprints.                 *)
(*                                                                         *)
(* Requests and answers have no numbers.  The network thread puts the one  *)
(* sender of its channel into the slot, sends the request and waits three  *)
(* seconds; the reader thread gives the next [RESP], whatever it answers,  *)
(* to the sender in the slot.  A request typed as a raw command uses no    *)
(* slot, and a late answer meets the next request; so does the ERR of a    *)
(* /whois for an unknown name, which the GUI sends by itself.              *)
(*                                                                         *)
(* The server shows itself only through one ordered stream of frames, so   *)
(* its sending a frame and the reader's taking it are one step, and its    *)
(* answer may be anything the server could say: peers come, go and change  *)
(* their identity meanwhile.                                               *)
(*                                                                         *)
(* Keys are told apart by owner and version; a key and its fingerprint are *)
(* one.  An answer that is no key, a list of members or nothing, is Junk   *)
(* when it is stored as one: encrypt_to_peer then refuses to encrypt.  A   *)
(* client that logs in before its R frame is announced with the empty key, *)
(* Blank, which is pinned and stored like any other.                       *)
(***************************************************************************)
EXTENDS Naturals, Sequences

CONSTANTS Peer,      \* the other users
          Version,   \* the identities each of them has in turn
          NoKey,     \* no entry; the server's `ERR'
          Junk,      \* an entry that is not a key
          Blank,     \* the empty key of a client that has published none
          MaxWire    \* bound on requests without an answer

Key == [of : Peer, ver : Version]

ASSUME NoKeyAssumption == NoKey \notin Key
ASSUME JunkAssumption == Junk \notin Key \cup {NoKey}
ASSUME BlankAssumption == Blank \notin Key \cup {NoKey, Junk}

VARIABLES wire,     \* requests the server has not answered
          slot,     \* NetState.pending: free, or live or stale by its receiver
          net,      \* what the network thread does
          known,    \* NetState.known
          tofu,     \* the fingerprints in memory
          disk,     \* tofu.json
          warned,   \* history: names whose key was reported to have changed
          crossed   \* history: a request timed out or was typed raw, or one
                    \* got the ERR of a /whois

kvars == <<wire, slot, net, known, tofu, disk, warned, crossed>>

NoPairs == [p \in {} |-> NoKey]

Idle == [at |-> "idle", for |-> NoKey, key |-> NoKey, list |-> NoPairs]

AskFor(p) == [q |-> "pubkey", p |-> p]
AskMembers == [q |-> "members"]
AskProfile == [q |-> "whois"]
Requests == {AskFor(p) : p \in Peer} \cup {AskMembers, AskProfile}

Nobody == [p \in Peer |-> NoKey]

\* What the server tells of the clients in s: names with the keys they
\* registered.
Tables == UNION {{t \in [s -> Key] : \A p \in s : t[p].of = p} : s \in SUBSET Peer}

\* The [RESP] the server can give to a request: to /whois only ERR, for a
\* name without an account; a profile is no [RESP].
AnswersTo(req) == CASE req.q = "pubkey"  -> {NoKey} \cup {k \in Key : k.of = req.p}
                    [] req.q = "members" -> Tables
                    [] req.q = "whois"   -> {NoKey}

\* A table of one pair.
One(p, k) == [x \in {p} |-> k]

\* What the server announces: the keys of some clients, or that one without a
\* key is there.
Announcements == Tables \cup {One(p, Blank) : p \in Peer}

\* m with the pairs of t entered, over what was there or only where nothing was.
Entered(t, m) == [p \in Peer |-> IF p \in DOMAIN t THEN t[p] ELSE m[p]]
Pinned(t, m) == [p \in Peer |-> IF p \in DOMAIN t /\ m[p] = NoKey THEN t[p] ELSE m[p]]

\* check_tofu: the first key of a name is pinned, another one is reported
\* and does not replace it.
CheckTofu(t) ==
  /\ tofu' = Pinned(t, tofu)
  /\ warned' = warned \cup {p \in DOMAIN t : tofu[p] \notin {NoKey, t[p]}}

Insert(t) == known' = Entered(t, known)

-----------------------------------------------------------------------------
(* The reader thread *)

\* Fault: the table is stored without a look at the fingerprints.
AnnouncedUnchecked(t) ==
  /\ Insert(t)
  /\ UNCHANGED <<wire, slot, net, tofu, disk, warned, crossed>>

\* [PUBKEYS] or [NEW]: insert_keys, with known locked throughout.
Announced(t) ==
  /\ CheckTofu(t)
  /\ Insert(t)
  /\ UNCHANGED <<wire, slot, net, disk, crossed>>

\* request returns the body of an answer to req.  A list read as a key is
\* Junk, a key or ERR read as a list has no pairs.
Deliver(req, body) ==
  IF net.at = "waitkey"
    THEN net' = [net EXCEPT !.at = "gotkey",
                            !.key = IF req.q = "members" THEN Junk ELSE body]
    ELSE net' = [net EXCEPT !.at = "gotlist",
                            !.list = IF req.q = "members" THEN body ELSE NoPairs]

\* Fault: an answer that finds no key is not passed on.
AnsweredSilently ==
  /\ wire # <<>>
  /\ wire' = Tail(wire)
  /\ slot' = "free"
  /\ \E body \in AnswersTo(Head(wire)) :
       IF slot = "live" /\ body # NoKey THEN Deliver(Head(wire), body) ELSE UNCHANGED net
  /\ crossed' = (crossed \/ (slot = "live" /\ Head(wire) = AskProfile))
  /\ UNCHANGED <<known, tofu, disk, warned>>

\* The server answers and reader_loop takes the [RESP]: the slot is emptied;
\* without a sender, or with one whose receiver has given up, the answer is
\* lost.
Answered ==
  /\ wire # <<>>
  /\ wire' = Tail(wire)
  /\ slot' = "free"
  /\ \E body \in AnswersTo(Head(wire)) :
       IF slot = "live" THEN Deliver(Head(wire), body) ELSE UNCHANGED net
  /\ crossed' = (crossed \/ (slot = "live" /\ Head(wire) = AskProfile))
  /\ UNCHANGED <<known, tofu, disk, warned>>

\* A /whois of a known name is answered with a profile, which touches nothing
\* here.
Profiled ==
  /\ wire # <<>>
  /\ Head(wire) = AskProfile
  /\ wire' = Tail(wire)
  /\ UNCHANGED <<slot, net, known, tofu, disk, warned, crossed>>

-----------------------------------------------------------------------------
(* The network thread *)

\* request: the sender into the slot, the question to the server.
Request(at, p, req) ==
  /\ Len(wire) < MaxWire
  /\ slot' = "live"
  /\ wire' = Append(wire, req)
  /\ net' = [Idle EXCEPT !.at = at, !.for = p]
  /\ UNCHANGED <<known, tofu, disk, warned, crossed>>

\* Fault: a new request does not wait for the end of the one before.
AskKeyUnwaited(p) ==
  /\ known[p] = NoKey
  /\ Request("waitkey", p, AskFor(p))

\* A private message, file or reaction for p whose key is not cached:
\* recipient_pub.
AskKey(p) ==
  /\ net.at = "idle"
  /\ known[p] = NoKey
  /\ Request("waitkey", p, AskFor(p))

\* One for a room: room_targets.
AskList ==
  /\ net.at = "idle"
  /\ Request("waitlist", NoKey, AskMembers)

\* Three seconds without an answer.  The sender stays in the slot.
TimeOut ==
  /\ net.at \in {"waitkey", "waitlist"}
  /\ net' = Idle
  /\ slot' = "stale"
  /\ crossed' = TRUE
  /\ UNCHANGED <<wire, known, tofu, disk, warned>>

\* Fault: `ERR' is pinned and stored like a key.
CheckKeyUnread ==
  /\ net.at = "gotkey"
  /\ net' = [net EXCEPT !.at = "store"]
  /\ CheckTofu(One(net.for, net.key))
  /\ UNCHANGED <<wire, slot, known, disk, crossed>>

\* recipient_pub goes on: `ERR' ends the command; else the fingerprint is
\* checked ...
CheckKey ==
  /\ net.at = "gotkey"
  /\ IF net.key = NoKey
       THEN net' = Idle /\ UNCHANGED <<tofu, warned>>
       ELSE net' = [net EXCEPT !.at = "store"] /\ CheckTofu(One(net.for, net.key))
  /\ UNCHANGED <<wire, slot, known, disk, crossed>>

\* ... and then, under another lock, the key is cached and used.
StoreKey ==
  /\ net.at = "store"
  /\ Insert(One(net.for, net.key))
  /\ net' = Idle
  /\ UNCHANGED <<wire, slot, tofu, disk, warned, crossed>>

\* room_targets goes on: every pair of the list is checked, cached and used.
StoreList ==
  /\ net.at = "gotlist"
  /\ CheckTofu(net.list)
  /\ Insert(net.list)
  /\ net' = Idle
  /\ UNCHANGED <<wire, slot, disk, crossed>>

\* /pubkey or /roommembers typed by the user: no slot.
TypeRaw(req) ==
  /\ net.at = "idle"
  /\ Len(wire) < MaxWire
  /\ wire' = Append(wire, req)
  /\ crossed' = TRUE
  /\ UNCHANGED <<slot, net, known, tofu, disk, warned>>

\* A click on a user whose chat is not open, or /whois typed: no slot.
Whois ==
  /\ net.at = "idle"
  /\ Len(wire) < MaxWire
  /\ wire' = Append(wire, AskProfile)
  /\ UNCHANGED <<slot, net, known, tofu, disk, warned, crossed>>

\* The user trusts the cached key of p: pinned, and every pin saved.
Trust(p) ==
  /\ net.at = "idle"
  /\ known[p] # NoKey
  /\ tofu' = [tofu EXCEPT ![p] = known[p]]
  /\ disk' = tofu'
  /\ warned' = warned \ {p}
  /\ UNCHANGED <<wire, slot, net, known, crossed>>

\* A new login: a new NetState.  The fingerprints belong to the program.
Reconnect ==
  /\ wire' = <<>>
  /\ slot' = "free"
  /\ net' = Idle
  /\ known' = Nobody
  /\ warned' = {}
  /\ crossed' = FALSE

Relogin == /\ net.at = "idle"
           /\ Reconnect
           /\ UNCHANGED <<tofu, disk>>

\* The program is closed, at any moment, and started again with the saved
\* fingerprints.
Restart == /\ Reconnect
           /\ tofu' = disk
           /\ UNCHANGED disk

-----------------------------------------------------------------------------

KInit == /\ wire = <<>>
         /\ slot = "free"
         /\ net = Idle
         /\ known = Nobody
         /\ tofu = Nobody
         /\ disk = Nobody
         /\ warned = {}
         /\ crossed = FALSE

Reader == Answered \/ Profiled \/ \E t \in Announcements : Announced(t)

User == \/ \E p \in Peer : AskKey(p) \/ TypeRaw(AskFor(p)) \/ Trust(p)
        \/ AskList \/ TypeRaw(AskMembers) \/ Whois \/ Relogin \/ Restart

Network == TimeOut \/ CheckKey \/ StoreKey \/ StoreList

KNext == Reader \/ User \/ Network

KSpec == KInit /\ [][KNext]_kvars

-----------------------------------------------------------------------------

Stored == Key \cup {NoKey, Junk, Blank}

\* The state of the network thread between two steps.
NetOK ==
  /\ net \in [at : {"idle", "waitkey", "waitlist", "gotkey", "store", "gotlist"},
             for : Peer \cup {NoKey}, key : Stored, list : Tables]
  /\ net.at \in {"waitkey", "gotkey", "store"} => net.for \in Peer
  /\ net.at = "store" => net.key # NoKey

\* Types, and that neither ERR nor an empty entry is ever on its way into
\* the cache.
KTypeOK ==
  /\ wire \in Seq(Requests)
  /\ slot \in {"free", "live", "stale"}
  /\ NetOK
  /\ known \in [Peer -> Stored] /\ tofu \in [Peer -> Stored]
  /\ disk \in [Peer -> Stored]
  /\ warned \in SUBSET Peer
  /\ crossed \in BOOLEAN

\* The network thread waits only while its sender is in the slot and its own
\* question is still to be answered, the last of those under way: its three
\* seconds are not waited in vain.
WaitIsAnswered ==
  /\ net.at = "waitkey"  => slot = "live" /\ wire # <<>> /\ wire[Len(wire)] = AskFor(net.for)
  /\ net.at = "waitlist" => slot = "live" /\ wire # <<>> /\ wire[Len(wire)] = AskMembers

\* While no request times out, none is typed raw, and no /whois of an unknown
\* name is answered while a request waits, the one slot is enough: every
\* cached key belongs to its name, whatever is announced meanwhile and
\* whatever profiles are looked at; or it is the empty one announced for it.
KeysBelong == ~crossed => \A p \in Peer : known[p] \notin {NoKey, Blank} =>
                            known[p] # Junk /\ known[p].of = p

\* Of a name whose cached key is not the pinned one, the user has been warned
\* on this connection: the check comes before the use on every path, though
\* two threads check and store (CHANGELOG.md:89).
ChangeIsReported == \A p \in Peer : known[p] \notin {NoKey, tofu[p]} => p \in warned

\* A message for p is encrypted for p (per-recipient encryption,
\* CHANGELOG.md:148), always.  Promised, not kept.
EncryptedForRecipient == \A p \in Peer : known[p] \in Key => known[p].of = p

\* A fingerprint once met is remembered (tofu.json, CHANGELOG.md:89), so that
\* another key under its name is reported, whatever is done meanwhile.
\* Promised, not kept: only Trust saves it, and a program that is closed forgets.
FirstMeetingIsKept == [][\A p \in Peer : tofu[p] # NoKey => tofu'[p] # NoKey]_kvars

=============================================================================
