----------------------------- MODULE MCFedPools -----------------------------
(***************************************************************************)
(* Two pools for FedPools: p1 fixed with one slot per node, p2 with two,   *)
(* autoscaled, with low priority nodes and inter-node communication.       *)
(***************************************************************************)
EXTENDS FedPools, TLC

CONSTANTS p1, p2, small, large

MCStart == (p1 :> small) @@ (p2 :> large)
MCSlots == (p1 :> 1) @@ (p2 :> 2)
MCFeats == (p1 :> {"native"}) @@ (p2 :> {})

Count(idleD, idleL, runD, runL) ==
    [idle |-> [dedicated |-> idleD, low |-> idleL],
     running |-> [dedicated |-> runD, low |-> runL]]
MCCounts == {Count(0, 0, 0, 0), Count(1, 0, 0, 0), Count(0, 1, 2, 0)}

Job(nodes, scale, multi, need, ratio, exclusive, feats, sizes, test) ==
    [nodes |-> nodes, scale |-> scale, multi |-> multi, need |-> need,
     ratio |-> ratio, exclusive |-> exclusive, feats |-> feats,
     sizes |-> sizes, test |-> test]
MCConstraints == {
    Job("any", TRUE, FALSE, 2, FALSE, FALSE, {}, {small, large}, "props"),
    Job("dedicated", FALSE, FALSE, 1, FALSE, TRUE, {"native"}, {small}, "name"),
    Job("low", TRUE, TRUE, 1, FALSE, FALSE, {}, {small, large}, "family"),
    Job("any", TRUE, FALSE, 1, TRUE, FALSE, {}, {small, large}, "props")}
=============================================================================
