----------------------------- MODULE MCSessions -----------------------------
(* Instances of Sessions for TLC: one account, a handful of refresh rows,   *)
(* one or two requests in flight.                                           *)
EXTENDS Sessions, TLC

(* Accounts, rows and workers are interchangeable. *)
Symmetry == Permutations(Token) \cup Permutations(Worker)
=============================================================================
