---------------------------- MODULE MCDirectory ----------------------------
(* Instances of Directory for TLC: three people, two departments and a team *)
(* with one request at a time, and one person whom two requests add to and  *)
(* move between two departments.                                            *)
EXTENDS Directory, TLC

CONSTANTS
  Racer,   \* the one person of the second part
  Clerk    \* the one worker of the first

VARIABLE part

Serial == INSTANCE Directory WITH Worker <- {Clerk}
Races  == INSTANCE Directory WITH User <- {Racer}, Team <- {}

Running == {w \in Worker : req[w].pc = "idle"}

MCInit ==
  \/ part = "alone" /\ Init /\ Running = {Clerk}
  \/ part = "races" /\ Races!Init /\ Running = Worker \ {Clerk}

MCNext ==
  /\ part' = part
  /\ \/ part = "alone" /\ Serial!Next
     \/ part = "races" /\ Races!Next

MCSpec == MCInit /\ [][MCNext]_<<part, vars>>

(* People, departments, row ids and the workers that race are              *)
(* interchangeable.  No part has both people and workers to exchange, so   *)
(* the two workers change places with the odd permutations of people.      *)
Odd(p) == Cardinality({x \in DOMAIN p : p[x] = x}) = 1

Symmetry ==
  {u @@ d @@ i @@ w : u \in {p \in Permutations(User) : ~Odd(p)}, d \in Permutations(Dept),
                      i \in Permutations(Id), w \in {[v \in Worker \ {Clerk} |-> v]}}
  \cup
  {u @@ d @@ i @@ w : u \in {p \in Permutations(User) : Odd(p)}, d \in Permutations(Dept),
                      i \in Permutations(Id), w \in {p \in Permutations(Worker \ {Clerk}) : \A v \in DOMAIN p : p[v] # v}}
=============================================================================
