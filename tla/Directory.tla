----------------------------- MODULE Directory -----------------------------
(***************************************************************************)
(* What the messenger's server promises about addresses, with everything   *)
(* else left out: passwords, hashing, locks, frames.  An address is held   *)
(* by at most one live session, only a session whose address has an        *)
(* account is a member, and an account moves with the member that renames  *)
(* itself.  MeshAccounts is shown to implement this specification.         *)
(***************************************************************************)
CONSTANTS Session,   \* live connections
          Address,   \* @usernames
          Nobody     \* what a session without an address holds: no Address

VARIABLES holds,       \* the address each session holds
          members,     \* the sessions that have logged in
          registered   \* the addresses that have an account

dvars == <<holds, members, registered>>

Free(a) == \A s \in Session : holds[s] # a

DirInit == /\ holds = [s \in Session |-> Nobody]
           /\ members = {}
           /\ registered \in SUBSET Address

Claim(s, a) == /\ holds[s] = Nobody
               /\ Free(a)
               /\ holds' = [holds EXCEPT ![s] = a]
               /\ UNCHANGED <<members, registered>>

Release(s) == /\ holds[s] # Nobody
              /\ holds' = [holds EXCEPT ![s] = Nobody]
              /\ members' = members \ {s}
              /\ UNCHANGED registered

Register(a) == /\ registered' = registered \cup {a}
               /\ UNCHANGED <<holds, members>>

Admit(s) == /\ holds[s] \in registered
            /\ members' = members \cup {s}
            /\ UNCHANGED <<holds, registered>>

Move(s, a) == /\ s \in members
              /\ a \notin registered
              /\ Free(a)
              /\ holds' = [holds EXCEPT ![s] = a]
              /\ registered' = (registered \ {holds[s]}) \cup {a}
              /\ UNCHANGED members

DirNext == \/ \E a \in Address : Register(a)
           \/ \E s \in Session : Release(s) \/ Admit(s)
           \/ \E s \in Session, a \in Address : Claim(s, a) \/ Move(s, a)

DirSpec == DirInit /\ [][DirNext]_dvars

=============================================================================
