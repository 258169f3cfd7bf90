------------------------------- MODULE MCFleet -------------------------------
(***************************************************************************)
(* A fleet of two nodes, n1 before n2 in the cluster.                      *)
(***************************************************************************)
EXTENDS Fleet

CONSTANTS n1, n2

MCNode == {n1, n2}
MCRank == [n \in MCNode |-> IF n = n1 THEN 1 ELSE 2]

=============================================================================
