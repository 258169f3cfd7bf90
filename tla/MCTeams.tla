------------------------------ MODULE MCTeams ------------------------------
(***************************************************************************)
(* Teams of three over two vector spaces: every paradigm, all members in   *)
(* one space or the last in another, every capability good, or one of      *)
(* them covering nobody, or that of member 1 covering member 2 only.       *)
(***************************************************************************)
EXTENDS Teams, TLC

CONSTANTS s1, s2

MCSpace == {s1, s2}

MCTeamSet ==
    [kind : Kinds,
     space : {[m \in Member |-> s1], [m \in Member |-> IF m = N THEN s2 ELSE s1]},
     may : {[m \in Member |-> Member], [m \in Member |-> IF m = 1 THEN {2} ELSE Member]}
           \cup {[m \in Member |-> IF m = x THEN {} ELSE Member] : x \in {1, N - 1}}]

\* Two rounds at once, but not of a swarm, whose broadcasts go out in any order.
MCMaxActive == [k \in Kinds |-> IF k = "Swarm" THEN 1 ELSE 2]

Symmetry == Permutations(Rounds)

=============================================================================
