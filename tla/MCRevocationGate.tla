-------------------------- MODULE MCRevocationGate --------------------------
(* Instances of RevocationGate: a few tokens of one account, two requests   *)
(* at the product, one or two revocations at identity.                      *)
EXTENDS RevocationGate, TLC

Symmetry == Permutations(Token) \cup Permutations(Request) \cup Permutations(Publisher)
=============================================================================
