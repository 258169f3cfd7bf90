---------------------------- MODULE MCHeuristic ----------------------------
(***************************************************************************)
(* The heuristic over a few nodes, n1, n2, n3 in the cluster's order.      *)
(***************************************************************************)
EXTENDS HeuristicControl

CONSTANTS n1, n2, n3

MCThreeNodes == {n1, n2, n3}
MCRank == [n \in Node |-> IF n = n1 THEN 1 ELSE IF n = n2 THEN 2 ELSE 3]

=============================================================================
