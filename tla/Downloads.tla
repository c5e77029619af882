----------------------------- MODULE Downloads -----------------------------
(***************************************************************************)
(* What cascade promises of a resource: at most Permits nodes download it  *)
(* at a time with a permit.  A permit may be lost (the lease of the slot   *)
(* blob lapses) while its download goes on without one.                    *)
(***************************************************************************)
EXTENDS Naturals, FiniteSets

CONSTANTS Node, Resource, Permits

VARIABLES
  users,   \* [Resource -> nodes that download with a permit]
  strays   \* [Resource -> nodes whose download lost its permit]

Init ==
  /\ users = [r \in Resource |-> {}]
  /\ strays = [r \in Resource |-> {}]

Start(n, r) ==
  /\ n \notin users[r] \cup strays[r]
  /\ Cardinality(users[r]) < Permits
  /\ users' = [users EXCEPT ![r] = @ \cup {n}]
  /\ UNCHANGED strays

Lose(n, r) ==
  /\ n \in users[r]
  /\ users' = [users EXCEPT ![r] = @ \ {n}]
  /\ strays' = [strays EXCEPT ![r] = @ \cup {n}]

End(n, r) ==
  /\ n \in users[r] \cup strays[r]
  /\ users' = [users EXCEPT ![r] = @ \ {n}]
  /\ strays' = [strays EXCEPT ![r] = @ \ {n}]

Next == \E n \in Node, r \in Resource : Start(n, r) \/ Lose(n, r) \/ End(n, r)

Spec == Init /\ [][Next]_<<users, strays>>

=============================================================================
