--------------------------- MODULE MCPendingPool ---------------------------
(* Instances of PendingPool for TLC.                                       *)
EXTENDS PendingPool, TLC

NodeSymmetry == Permutations(Nodes)
=============================================================================
