----------------------------- MODULE MCGovernor -----------------------------
(***************************************************************************)
(* A governor over two interchangeable agents on two nodes, n1 before n2   *)
(* in the cluster.                                                         *)
(***************************************************************************)
EXTENDS Governor, TLC

CONSTANTS n1, n2

MCNode == {n1, n2}
MCRank == [n \in MCNode |-> IF n = n1 THEN 1 ELSE 2]

Symmetry == Permutations(Agents)

=============================================================================
