---------------------------- MODULE JobActionQueue ----------------------------
(***************************************************************************)
(* What a federation promises of the actions submitted to it               *)
(* (docs/68-batch-shipyard-federation.md, "FIFO ordering of actions within *)
(* a job"): the accepted actions of a job form a queue; only the action at *)
(* its head is performed, possibly more than once when a proxy fails; and  *)
(* an action leaves the queue only when it was performed, or when its      *)
(* submitter withdrew it.                                                  *)
(***************************************************************************)
EXTENDS Naturals, Sequences

CONSTANTS Job, Uid

VARIABLES
  todo,       \* [Job -> Seq(Uid)]: accepted actions, oldest first
  log,        \* [Job -> Seq(Uid)]: performances, in the order they happened
  withdrawn   \* actions zapped or rolled back

vars == <<todo, log, withdrawn>>

Performed(j, u) == \E i \in 1..Len(log[j]) : log[j][i] = u

Init ==
  /\ todo = [j \in Job |-> <<>>]
  /\ log = [j \in Job |-> <<>>]
  /\ withdrawn = {}

Accept(j, u) ==
  /\ todo' = [todo EXCEPT ![j] = Append(@, u)]
  /\ UNCHANGED <<log, withdrawn>>

Withdraw(u) ==
  /\ withdrawn' = withdrawn \cup {u}
  /\ UNCHANGED <<todo, log>>

Perform(j) ==
  /\ todo[j] # <<>>
  /\ log' = [log EXCEPT ![j] = Append(@, Head(todo[j]))]
  /\ UNCHANGED <<todo, withdrawn>>

Retire(j) ==
  /\ todo[j] # <<>>
  /\ Performed(j, Head(todo[j])) \/ Head(todo[j]) \in withdrawn
  /\ todo' = [todo EXCEPT ![j] = Tail(@)]
  /\ UNCHANGED <<log, withdrawn>>

Next ==
  \/ \E j \in Job : Perform(j) \/ Retire(j)
  \/ \E j \in Job, u \in Uid : Accept(j, u)
  \/ \E u \in Uid : Withdraw(u)

Spec == Init /\ [][Next]_vars
=============================================================================
