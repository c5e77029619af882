------------------------------ MODULE MCFedTasks ------------------------------
(***************************************************************************)
(* Instances of FedTasks for TLC: one custom id sorts before, one after the*)
(* generated ones.                                                         *)
(***************************************************************************)
EXTENDS FedTasks, TLC

CONSTANTS early, late
=============================================================================
