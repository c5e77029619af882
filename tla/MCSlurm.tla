------------------------------ MODULE MCSlurm ------------------------------
(* Slurm for TLC.  Hosts, nodes and daemons are interchangeable; a new node   *)
(* is any one not used yet (CHOOSE), so the nodes are left out.               *)
EXTENDS Slurm, TLC

Interchangeable == Permutations(Host) \cup Permutations(Daemon)

=============================================================================
