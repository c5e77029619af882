------------------------------- MODULE MCFedJobs -------------------------------
(***************************************************************************)
(* Instances of FedJobs for TLC: two pools share a Batch account, a third  *)
(* has an account of its own.                                              *)
(***************************************************************************)
EXTENDS FedJobs, TLC

CONSTANTS p1, p2, p3, a1, a2

Shared == [p \in Pool |-> IF p = p3 THEN a2 ELSE a1]
=============================================================================
