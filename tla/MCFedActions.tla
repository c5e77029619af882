----------------------------- MODULE MCFedActions -----------------------------
(***************************************************************************)
(* Instances of FedActions for TLC: three actions of one job, or of two.   *)
(***************************************************************************)
EXTENDS FedActions, TLC

CONSTANTS j1, j2, u1, u2, u3, p1, p2

OneJob == [u \in Uid |-> j1]

AddDeleteAdd == [u \in Uid |-> IF u = u2 THEN "delete" ELSE "add"]
=============================================================================
