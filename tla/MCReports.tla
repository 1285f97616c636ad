------------------------------ MODULE MCReports ------------------------------
(* Instances of Reports for TLC: requests one at a time, with departments,  *)
(* texts and generations to tell apart and with crashes; and requests that  *)
(* overlap, with one department, which stays, one text, a provider that     *)
(* answers at the first attempt or not at all, and no crash.                *)
EXTENDS Reports, TLC

VARIABLE part

(* People, rows and workers are interchangeable. *)
Symmetry == Permutations(User) \cup Permutations(Report) \cup Permutations(Worker)

OneDept == {CHOOSE d \in Dept : TRUE}
OneText == {CHOOSE t \in Text : TRUE}
Races == INSTANCE Reports WITH
  Dept <- OneDept, Text <- OneText, MaxStamp <- 3, MaxPaid <- 1, MaxWasted <- 0, MaxCrashes <- 0

(* Nobody files the repository, nothing is asked twice. *)
Plain == \A w \in Worker : req'[w].pc \notin {"file", "again"}

Running == {w \in Worker : req[w] = Idle}

MCInit ==
  \/ part = "serial" /\ Init /\ Cardinality(Running) = 1
  \/ part = "overlapping" /\ Races!Init /\ Running = Worker

MCNext ==
  \/ part = "serial" /\ Next /\ UNCHANGED part
  \/ part = "overlapping" /\ Races!Next /\ Plain /\ UNCHANGED part

MCSpec == MCInit /\ [][MCNext]_<<part, vars>>
=============================================================================
