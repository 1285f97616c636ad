---------------------------- MODULE MCRepoIndex ----------------------------
(* Instances of RepoIndex for TLC: two commits that share one file, files   *)
(* of different prices and one without text.                                *)
EXTENDS RepoIndex

CONSTANTS shaOne, shaTwo

MCTree == [s \in Sha |-> IF s = shaOne THEN {1, 2, 4} ELSE {2, 3}]
MCPrice == [f \in File |-> CASE f = 1 -> 1 [] f = 2 -> 2 [] f = 3 -> 0 [] f = 4 -> 1]
=============================================================================
