-------------------------- MODULE BackgroundProofs --------------------------
(***************************************************************************)
(* What holds of the tasks that build Pulse's index of a repository.       *)
(*                                                                         *)
(* For any number of workers, messages, files and commits: no index is     *)
(* forgotten, tasks that overlap on one row included; and with one task at *)
(* a time the allowance holds, an unfinished run is resumable and a ready  *)
(* index is whole, whatever fails, dies, pauses or is pushed on the way.   *)
(***************************************************************************)
EXTENDS MCBackground, FunctionTheorems, SequenceTheorems, Totals

(* What the argument needs of the types. *)
Shape ==
  /\ asking \in Nat /\ queued \in Nat /\ crashes \in Nat
  /\ task = [w \in Worker |-> task[w]]

(* Inductive: NoneForgotten relates the row to the queue and the tasks,    *)
(* and every step that moves the one moves the other.                      *)
Kept == Shape /\ NoneForgotten

LEMMA BecomeShape ==
  ASSUME Shape, NEW w \in Worker, NEW t, Become(w, t)
  PROVE  /\ task' = [v \in Worker |-> task'[v]]
         /\ task'[w] = t
         /\ \A v \in Worker \ {w} : task'[v] = task[v]
BY DEF Shape, Become

(* A task that goes on is still a task. *)
LEMMA StepBusy ==
  ASSUME Shape, NEW w \in Worker, NEW pc \in {"read", "prepare", "loop", "embed", "save"},
         NEW sha, NEW seen, NEW todo, NEW cost, Become(w, At(pc, sha, seen, todo, cost))
  PROVE  /\ task' = [v \in Worker |-> task'[v]]
         /\ Busy(w)'
<1>1. task' = [v \in Worker |-> task'[v]] /\ task'[w] = At(pc, sha, seen, todo, cost)
  BY BecomeShape
<1>2. At(pc, sha, seen, todo, cost).pc = pc
  BY DEF At
<1> QED BY <1>1, <1>2 DEF Busy

(* The row and the queue keep still while a task moves from pc to pc. *)
LEMMA GoesOn ==
  ASSUME Kept, NEW w \in Worker, NEW pc \in {"read", "prepare", "loop", "embed", "save"},
         NEW sha, NEW seen, NEW todo, NEW cost, Become(w, At(pc, sha, seen, todo, cost)),
         UNCHANGED <<status, asking, queued, crashes>>
  PROVE  Kept'
<1>1. task' = [v \in Worker |-> task'[v]] /\ Busy(w)'
  BY StepBusy DEF Kept
<1> QED BY <1>1 DEF Kept, Shape, NoneForgotten

(* A task that ends leaves a row that is answered, or no row. *)
LEMMA Ends ==
  ASSUME Kept, NEW w \in Worker, Become(w, Idle), status' \notin Asked,
         UNCHANGED <<asking, queued, crashes>>
  PROVE  Kept'
<1>1. task' = [v \in Worker |-> task'[v]]
  BY BecomeShape DEF Kept
<1> QED BY <1>1 DEF Kept, Shape, NoneForgotten, Asked

LEMMA FinishEnds ==
  ASSUME Kept, NEW w \in Worker, NEW s \in Answered, Finish(w, s)
  PROVE  Kept'
<1>1. status' \notin Asked
  BY DEF Finish, Exists, Asked, Answered
<1>2. Become(w, Idle) /\ UNCHANGED <<asking, queued, crashes>>
  BY DEF Finish
<1> QED BY <1>1, <1>2, Ends

LEMMA KeptInit == Init => Kept
<1> SUFFICES ASSUME Init PROVE Kept
  OBVIOUS
<1>1. PICK running \in SUBSET Worker \ {{}} :
        task = [w \in Worker |-> IF w \in running THEN Idle ELSE Off]
  BY DEF Init
<1>2. task = [w \in Worker |-> task[w]]
  BY <1>1
<1> QED BY <1>2 DEF Init, Kept, Shape, NoneForgotten

LEMMA KeptNext == Kept /\ [Next]_vars => Kept'
<1> SUFFICES ASSUME Kept, [Next]_vars PROVE Kept'
  OBVIOUS
<1>1. CASE Ask
  BY <1>1 DEF Ask, Kept, Shape, NoneForgotten
<1>2. CASE Dispatch
  BY <1>2 DEF Dispatch, record, Kept, Shape, NoneForgotten, Busy
<1>3. CASE DispatchRefused
  BY <1>3 DEF DispatchRefused, Exists, Kept, Shape, NoneForgotten, Busy
<1>12. CASE DispatchUnclear
  BY <1>12 DEF DispatchUnclear, Exists, Kept, Shape, NoneForgotten, Busy
<1>4. CASE Delete
  BY <1>4 DEF Delete, Kept, Shape, NoneForgotten
<1>5. ASSUME NEW w \in Worker, Work(w) PROVE Kept'
  <2>1. CASE Start(w)
    <3>1. CASE Exists
      <4>1. Become(w, At("read", None, ingest, <<>>, 0)) /\ status' = "running"
        BY <2>1, <3>1 DEF Start
      <4>2. task' = [v \in Worker |-> task'[v]] /\ Busy(w)'
        BY <4>1, StepBusy DEF Kept
      <4> QED BY <2>1, <4>1, <4>2 DEF Start, Kept, Shape, NoneForgotten
    <3>2. CASE ~Exists
      BY <2>1, <3>2 DEF Start, Exists, Kept, Shape, NoneForgotten, Busy
    <3> QED BY <3>1, <3>2
  <2>2. CASE ReadHead(w)
    BY <2>2, GoesOn DEF ReadHead, record
  <2>3. CASE Prepare(w)
    BY <2>3, GoesOn DEF Prepare, Step
  <2>4. CASE SkipBatch(w)
    BY <2>4, GoesOn DEF SkipBatch, Step, record
  <2>5. CASE AdmitBatch(w)
    BY <2>5, GoesOn DEF AdmitBatch, Step, record
  <2>6. CASE SplitBatch(w)
    BY <2>6, GoesOn DEF SplitBatch, Step, record
  <2>7. CASE EmbedSome(w)
    <3>1. PICK pc \in {"embed", "save"}, c \in task[w].cost + 1 .. Estimate(Current(w)) :
            Step(w, pc, task[w].todo, c)
      BY <2>7 DEF EmbedSome
    <3> QED BY <2>7, <3>1, GoesOn DEF EmbedSome, Step, record
  <2>8. CASE SaveBatch(w)
    BY <2>8, GoesOn DEF SaveBatch, Step
  <2>9. CASE Complete(w)
    BY <2>9, Ends DEF Complete, Asked
  <2>10. CASE BudgetStop(w)
    BY <2>10, FinishEnds DEF BudgetStop, Answered
  <2>11. CASE RowGone(w)
    BY <2>11, Ends DEF RowGone, Exists, Asked, record
  <2> QED BY <1>5, <2>1, <2>2, <2>3, <2>4, <2>5, <2>6, <2>7, <2>8, <2>9, <2>10, <2>11 DEF Work
<1>6. ASSUME NEW w \in Worker, GitHubFails(w) PROVE Kept'
  BY <1>6, FinishEnds DEF GitHubFails, Answered
<1>7. ASSUME NEW w \in Worker, EmbeddingFails(w) PROVE Kept'
  BY <1>7, FinishEnds DEF EmbeddingFails, Answered
<1>8. CASE Die
  <2>1. asking' \in Nat /\ queued' \in Nat
    BY <1>8 DEF Die, Kept, Shape
  <2>2. task' = [v \in Worker |-> task'[v]]
    <3>1. CASE task' = task
      BY <3>1 DEF Kept, Shape
    <3>2. ASSUME NEW w \in Worker, Become(w, Idle) PROVE task' = [v \in Worker |-> task'[v]]
      BY <3>2, BecomeShape DEF Kept
    <3> QED BY <1>8, <3>1, <3>2 DEF Die
  <2>3. crashes' \in Nat /\ crashes' > 0
    BY <1>8 DEF Die, Kept, Shape
  <2> QED BY <2>1, <2>2, <2>3 DEF Kept, Shape, NoneForgotten
<1>9. CASE Push
  BY <1>9 DEF Push, record, Kept, Shape, NoneForgotten, Busy
<1>10. CASE NewDay
  BY <1>10 DEF NewDay, record, Kept, Shape, NoneForgotten, Busy
<1>11. CASE UNCHANGED vars
  BY <1>11 DEF vars, Kept, Shape, NoneForgotten, Busy
<1> QED BY <1>1, <1>2, <1>3, <1>4, <1>5, <1>6, <1>7, <1>8, <1>9, <1>10, <1>11, <1>12 DEF Next

(* Unless a process is killed, a pending row has a request or a message    *)
(* behind it and a running row a task, with any number of workers and      *)
(* overlapping tasks (queue_indexes, ingest_repo).                         *)
THEOREM NobodyForgotten == Spec => []NoneForgotten
<1>1. Kept => NoneForgotten
  BY DEF Kept
<1> QED BY KeptInit, KeptNext, <1>1, PTL DEF Spec

-----------------------------------------------------------------------------
(* Listings and batches.                                                   *)

LEMMA Rank ==
  ASSUME NEW S \in SUBSET Nat, IsFiniteSet(S)
  PROVE  /\ Cardinality(S) \in Nat
         /\ \A f \in S : Place(S, f) \in 1 .. Cardinality(S)
         /\ \A f, g \in S : Place(S, f) = Place(S, g) => f = g
         /\ \A i \in 1 .. Cardinality(S) : \E f \in S : Place(S, f) = i
<1> DEFINE n == Cardinality(S)
           Upto(f) == {g \in S : g <= f}
           p == [f \in S |-> Cardinality(Upto(f))]
<1>1. n \in Nat
  BY FS_CardinalityType
<1>2. \A f \in S : Upto(f) \subseteq S /\ f \in Upto(f)
  OBVIOUS
<1>3. \A f \in S : IsFiniteSet(Upto(f)) /\ Cardinality(Upto(f)) \in Nat /\ Cardinality(Upto(f)) <= n
  <2> SUFFICES ASSUME NEW f \in S
               PROVE  IsFiniteSet(Upto(f)) /\ Cardinality(Upto(f)) \in Nat /\ Cardinality(Upto(f)) <= n
    OBVIOUS
  <2>1. Upto(f) \in SUBSET S
    OBVIOUS
  <2> HIDE DEF Upto, n
  <2>2. IsFiniteSet(Upto(f)) /\ Cardinality(Upto(f)) <= Cardinality(S)
    BY <2>1, FS_Subset
  <2>. QED
    BY <2>2, FS_CardinalityType DEF n
<1>4. \A f \in S : Cardinality(Upto(f)) # 0
  <2> HIDE DEF Upto
  <2>. QED
    BY <1>2, <1>3, FS_EmptySet
<1>5. \A f, g \in S : f < g => Cardinality(Upto(f)) < Cardinality(Upto(g))
  <2> SUFFICES ASSUME NEW f \in S, NEW g \in S, f < g
               PROVE  Cardinality(Upto(f)) < Cardinality(Upto(g))
    OBVIOUS
  <2>1. f \in Nat /\ g \in Nat /\ f < g /\ \A h \in S : h \in Nat
    OBVIOUS
  <2>2. Upto(f) \subseteq Upto(g) /\ g \in Upto(g) /\ g \notin Upto(f)
    <3>1. \A h \in S : h <= f => h <= g
      BY <2>1
    <3>2. g <= g /\ ~(g <= f)
      BY <2>1
    <3>. QED
      BY <3>1, <3>2
  <2> HIDE DEF Upto
  <2>3. Upto(f) \in SUBSET Upto(g) /\ IsFiniteSet(Upto(g)) /\ Upto(f) # Upto(g)
    BY <1>3, <2>2
  <2>. QED
    BY <1>3, <2>3, FS_Subset
<1>6. \A f, g \in S : Cardinality(Upto(f)) = Cardinality(Upto(g)) => f = g
  <2> SUFFICES ASSUME NEW f \in S, NEW g \in S, f # g
               PROVE  Cardinality(Upto(f)) # Cardinality(Upto(g))
    OBVIOUS
  <2>1. f \in Nat /\ g \in Nat
    OBVIOUS
  <2> HIDE DEF Upto
  <2>2. Cardinality(Upto(f)) \in Nat /\ Cardinality(Upto(g)) \in Nat
    BY <1>3
  <2>. QED
    BY <1>5, <2>1, <2>2
<1>7. p \in [S -> 1 .. n]
  <2> HIDE DEF Upto, n
  <2>. QED
    BY <1>1, <1>3, <1>4
<1>8. p \in Injection(S, 1 .. n)
  <2> HIDE DEF Upto, n
  <2>. QED
    BY <1>6, <1>7 DEF Injection, IsInjective
<1>9. IsFiniteSet(1 .. n) /\ Cardinality(1 .. n) = n
  <2>1. CASE n = 0
    BY <1>1, <2>1, FS_Interval
  <2>2. CASE n # 0
    BY <1>1, <2>2, FS_Interval
  <2>. QED
    BY <2>1, <2>2
<1>10. p \in Surjection(S, 1 .. n)
  <2> HIDE DEF p
  <2>. QED
    BY <1>8, <1>9, FS_Injection
<1>11. \A i \in 1 .. n : \E f \in S : Cardinality(Upto(f)) = i
  <2> HIDE DEF Upto, n
  <2>. QED
    BY <1>10 DEF Surjection
<1>12. \A f \in S : Place(S, f) = Cardinality(Upto(f))
  BY DEF Place
<1> HIDE DEF Upto
<1>. QED
  BY <1>1, <1>3, <1>4, <1>6, <1>11, <1>12

(* A listing holds every file once and nothing else. *)
LEMMA ListingFacts ==
  ASSUME NEW S \in SUBSET Nat, IsFiniteSet(S)
  PROVE  /\ Listing(S) \in Seq(S)
         /\ \A f \in S : \E i \in 1 .. Len(Listing(S)) : Listing(S)[i] = f
         /\ \A i, j \in 1 .. Len(Listing(S)) : Listing(S)[i] = Listing(S)[j] => i = j
<1> DEFINE n == Cardinality(S)
           l(i) == CHOOSE f \in S : Place(S, f) = i
<1>1. \A i \in 1 .. n : l(i) \in S /\ Place(S, l(i)) = i
  BY Rank
<1>2. Listing(S) = [i \in 1 .. n |-> l(i)]
  BY DEF Listing
<1>3. n \in Nat
  BY Rank
<1>4. \A f \in S : Place(S, f) \in 1 .. n
  BY Rank
<1>5. \A f \in S : l(Place(S, f)) = f
  <2> SUFFICES ASSUME NEW f \in S PROVE l(Place(S, f)) = f
    OBVIOUS
  <2>1. l(Place(S, f)) \in S /\ Place(S, l(Place(S, f))) = Place(S, f)
    <3> HIDE DEF l
    <3>. QED
      BY <1>1, <1>4
  <2>. QED
    BY <2>1, Rank
<1> HIDE DEF l, n
<1>6. Listing(S) \in Seq(S) /\ Len(Listing(S)) = n
  BY <1>1, <1>2, <1>3
<1>7. \A i \in 1 .. n : Listing(S)[i] = l(i)
  BY <1>2
<1>. QED
  BY <1>1, <1>4, <1>5, <1>6, <1>7

LEMMA Division ==
  ASSUME NEW a \in Nat, NEW b \in Nat \ {0}
  PROVE  /\ a \div b \in Nat
         /\ (a \div b) * b <= a
         /\ a < (a \div b) * b + b
OBVIOUS

LEMMA Later ==
  ASSUME NEW i \in Nat, NEW j \in Nat, i < j, NEW b \in Nat
  PROVE  i * b + b <= j * b
OBVIOUS

(* Position k of the slice after a and up to b is a position of the whole. *)
LEMMA Inside ==
  ASSUME NEW a \in Nat, NEW b \in Nat, NEW n \in Nat, b <= n, NEW k \in 1 .. b - a
  PROVE  a + k \in 1 .. n
OBVIOUS

(* The batches hold the files of the list, each at one place. *)
Waits(todo, f) == \E i \in 1 .. Len(todo) : \E k \in 1 .. Len(todo[i]) : todo[i][k] = f

Once(todo) ==
  \A i, j \in 1 .. Len(todo) : \A k \in 1 .. Len(todo[i]), m \in 1 .. Len(todo[j]) :
    todo[i][k] = todo[j][m] => i = j /\ k = m

LEMMA OnceMeans ==
  ASSUME NEW todo, Once(todo), NEW i \in 1 .. Len(todo), NEW j \in 1 .. Len(todo),
         NEW k \in 1 .. Len(todo[i]), NEW m \in 1 .. Len(todo[j]), todo[i][k] = todo[j][m]
  PROVE  i = j /\ k = m
BY Zenon DEF Once

LEMMA BatchedFacts ==
  ASSUME NEW S, NEW l \in Seq(S),
         \A i, j \in 1 .. Len(l) : l[i] = l[j] => i = j
  PROVE  /\ Batched(l) \in Seq(Seq(S))
         /\ Once(Batched(l))
         /\ \A f : Waits(Batched(l), f) <=> \E p \in 1 .. Len(l) : l[p] = f
<1> DEFINE n == (Len(l) + Batch - 1) \div Batch
           lo(i) == (i - 1) * Batch
           hi(i) == IF i * Batch < Len(l) THEN i * Batch ELSE Len(l)
<1>1. Len(l) \in Nat /\ Batch \in Nat \ {0} /\ Batch \in Nat /\ Len(l) + Batch - 1 \in Nat
  BY BoundsAssumption
<1>2. n \in Nat /\ n * Batch <= Len(l) + Batch - 1 /\ Len(l) + Batch - 1 < n * Batch + Batch
  BY <1>1, Division
<1>3. \A i \in 1 .. n : lo(i) \in Nat /\ i * Batch = lo(i) + Batch /\ lo(i) < Len(l)
  <2> SUFFICES ASSUME NEW i \in 1 .. n
               PROVE  lo(i) \in Nat /\ i * Batch = lo(i) + Batch /\ lo(i) < Len(l)
    OBVIOUS
  <2>1. lo(i) \in Nat /\ i * Batch \in Nat
    BY <1>1, <1>2
  <2>2. i * Batch = lo(i) + Batch
    BY <1>1, <1>2
  <2>3. i * Batch <= n * Batch
    <3>1. CASE i = n
      BY <1>1, <1>2, <3>1
    <3>2. CASE i < n
      <4>1. i * Batch + Batch <= n * Batch
        BY <1>1, <1>2, <3>2, Later
      <4>2. n * Batch \in Nat
        BY <1>1, <1>2
      <4>. QED
        BY <1>1, <2>1, <4>1, <4>2
    <3>. QED
      BY <1>2, <3>1, <3>2
  <2>4. n * Batch \in Nat
    BY <1>1, <1>2
  <2> DEFINE x == i * Batch
             y == n * Batch
  <2>5. lo(i) \in Nat /\ x = lo(i) + Batch /\ x <= y /\ y \in Nat /\ y <= Len(l) + Batch - 1
    BY <1>2, <2>1, <2>2, <2>3, <2>4
  <2> HIDE DEF lo, n, x, y
  <2>6. lo(i) < Len(l)
    BY <1>1, <2>5
  <2>. QED
    BY <2>1, <2>2, <2>6
<1>4. \A i, j \in 1 .. n : i < j => lo(i) + Batch <= lo(j)
  <2> SUFFICES ASSUME NEW i \in 1 .. n, NEW j \in 1 .. n, i < j PROVE lo(i) + Batch <= lo(j)
    OBVIOUS
  <2>1. i - 1 \in Nat /\ j - 1 \in Nat /\ i - 1 < j - 1
    BY <1>2
  <2>. QED
    BY <1>1, <2>1, Later
<1>5. \A p \in 1 .. Len(l) : \E i \in 1 .. n : lo(i) < p /\ p <= lo(i) + Batch
  <2> SUFFICES ASSUME NEW p \in 1 .. Len(l)
               PROVE  \E i \in 1 .. n : lo(i) < p /\ p <= lo(i) + Batch
    OBVIOUS
  <2> DEFINE q == (p - 1) \div Batch
  <2>1. p - 1 \in Nat /\ p \in Nat
    BY <1>1
  <2>2. q \in Nat /\ q * Batch <= p - 1 /\ p - 1 < q * Batch + Batch
    BY <1>1, <2>1, Division
  <2>3. q < n
    <3> SUFFICES ASSUME n <= q PROVE FALSE
      <4> HIDE DEF q, n
      <4>. QED
        BY <1>2, <2>2
    <3>1. n * Batch <= q * Batch
      <4> HIDE DEF q, n
      <4>1. CASE n = q
        BY <1>1, <1>2, <4>1
      <4>2. CASE n < q
        <5>1. n * Batch + Batch <= q * Batch
          BY <1>1, <1>2, <2>2, <4>2, Later
        <5>2. n * Batch \in Nat /\ q * Batch \in Nat
          BY <1>1, <1>2, <2>2
        <5>. QED
          BY <1>1, <5>1, <5>2
      <4>. QED
        BY <1>2, <2>2, <4>1, <4>2
    <3> HIDE DEF q, n
    <3>2. n * Batch \in Nat /\ q * Batch \in Nat
      BY <1>1, <1>2, <2>2
    <3>. QED
      BY <1>1, <1>2, <2>1, <2>2, <3>1, <3>2
  <2>4. lo(q + 1) = q * Batch
    <3> HIDE DEF q
    <3>. QED
      BY <1>1, <2>2
  <2> HIDE DEF q, n, lo
  <2>5. q * Batch \in Nat /\ q + 1 \in 1 .. n
    BY <1>1, <1>2, <2>2, <2>3
  <2>6. lo(q + 1) < p /\ p <= lo(q + 1) + Batch
    BY <1>1, <2>1, <2>2, <2>4, <2>5
  <2>. QED
    BY <2>5, <2>6
<1>6. Batched(l) = [i \in 1 .. n |-> SubSeq(l, lo(i) + 1, hi(i))]
  BY DEF Batched
<1>7. \A i \in 1 .. n : hi(i) \in Nat /\ lo(i) < hi(i) /\ hi(i) <= Len(l) /\ hi(i) <= lo(i) + Batch
                        /\ \A p \in 1 .. Len(l) : p <= lo(i) + Batch => p <= hi(i)
  <2> SUFFICES ASSUME NEW i \in 1 .. n
               PROVE  hi(i) \in Nat /\ lo(i) < hi(i) /\ hi(i) <= Len(l) /\ hi(i) <= lo(i) + Batch
                      /\ \A p \in 1 .. Len(l) : p <= lo(i) + Batch => p <= hi(i)
    OBVIOUS
  <2>1. lo(i) \in Nat /\ i * Batch = lo(i) + Batch /\ lo(i) < Len(l)
    BY <1>3
  <2>2. hi(i) = IF lo(i) + Batch < Len(l) THEN lo(i) + Batch ELSE Len(l)
    BY <2>1
  <2> HIDE DEF lo, hi, n
  <2>. QED
    BY <1>1, <2>1, <2>2
<1> HIDE DEF lo, hi, n
<1>8. \A i \in 1 .. n : /\ SubSeq(l, lo(i) + 1, hi(i)) \in Seq(S)
                        /\ Len(SubSeq(l, lo(i) + 1, hi(i))) = hi(i) - lo(i)
                        /\ \A k \in 1 .. hi(i) - lo(i) : SubSeq(l, lo(i) + 1, hi(i))[k] = l[lo(i) + k]
  <2> SUFFICES ASSUME NEW i \in 1 .. n
               PROVE    /\ SubSeq(l, lo(i) + 1, hi(i)) \in Seq(S)
                        /\ Len(SubSeq(l, lo(i) + 1, hi(i))) = hi(i) - lo(i)
                        /\ \A k \in 1 .. hi(i) - lo(i) : SubSeq(l, lo(i) + 1, hi(i))[k] = l[lo(i) + k]
    OBVIOUS
  <2>1. lo(i) \in Nat /\ hi(i) \in Nat /\ lo(i) < hi(i) /\ hi(i) <= Len(l)
    BY <1>3, <1>7
  <2>. QED
    BY <1>1, <2>1
<1>9. Batched(l) \in Seq(Seq(S)) /\ Len(Batched(l)) = n
  BY <1>2, <1>6, <1>8
<1>10. \A i \in 1 .. n : /\ Len(Batched(l)[i]) = hi(i) - lo(i)
                         /\ \A k \in 1 .. hi(i) - lo(i) : Batched(l)[i][k] = l[lo(i) + k]
  BY <1>6, <1>8
<1>11. Once(Batched(l))
  <2> SUFFICES ASSUME NEW i \in 1 .. n, NEW j \in 1 .. n,
                      NEW k \in 1 .. hi(i) - lo(i), NEW m \in 1 .. hi(j) - lo(j),
                      l[lo(i) + k] = l[lo(j) + m]
               PROVE  i = j /\ k = m
    BY <1>9, <1>10 DEF Once
  <2>1. /\ lo(i) \in Nat /\ hi(i) \in Nat /\ hi(i) <= Len(l) /\ hi(i) <= lo(i) + Batch
        /\ lo(j) \in Nat /\ hi(j) \in Nat /\ hi(j) <= Len(l) /\ hi(j) <= lo(j) + Batch
    BY <1>3, <1>7
  <2>2. lo(i) + k = lo(j) + m
    <3>1. lo(i) + k \in 1 .. Len(l)
      BY <1>1, <2>1, Inside
    <3>2. lo(j) + m \in 1 .. Len(l)
      BY <1>1, <2>1, Inside
    <3>. QED
      BY <3>1, <3>2
  <2>3. ~(i < j) /\ ~(j < i)
    <3>1. i < j => lo(i) + Batch <= lo(j)
      BY <1>4
    <3>2. j < i => lo(j) + Batch <= lo(i)
      BY <1>4
    <3>. QED
      BY <1>1, <2>1, <2>2, <3>1, <3>2
  <2>4. i = j
    BY <1>2, <2>3
  <2>. QED
    BY <2>1, <2>2, <2>4
<1>12. \A f : Waits(Batched(l), f) <=> \E p \in 1 .. Len(l) : l[p] = f
  <2>1. ASSUME NEW i \in 1 .. n, NEW k \in 1 .. hi(i) - lo(i)
        PROVE  lo(i) + k \in 1 .. Len(l)
    <3>1. lo(i) \in Nat /\ hi(i) \in Nat /\ hi(i) <= Len(l)
      BY <1>3, <1>7
    <3>. QED
      BY <1>1, <3>1, Inside
  <2>2. ASSUME NEW p \in 1 .. Len(l)
        PROVE  \E i \in 1 .. n : \E k \in 1 .. hi(i) - lo(i) : lo(i) + k = p
    <3>1. PICK i \in 1 .. n : lo(i) < p /\ p <= lo(i) + Batch
      BY <1>5
    <3>2. lo(i) \in Nat /\ hi(i) \in Nat /\ p <= hi(i)
      BY <1>3, <1>7, <3>1
    <3>3. p - lo(i) \in 1 .. hi(i) - lo(i) /\ lo(i) + (p - lo(i)) = p
      BY <3>1, <3>2
    <3>. QED
      BY <3>3
  <2>3. \A f : Waits(Batched(l), f) <=>
              \E i \in 1 .. n : \E k \in 1 .. hi(i) - lo(i) : l[lo(i) + k] = f
    <3> SUFFICES ASSUME NEW f
                 PROVE  Waits(Batched(l), f) <=>
                          \E i \in 1 .. n : \E k \in 1 .. hi(i) - lo(i) : l[lo(i) + k] = f
      OBVIOUS
    <3>1. Waits(Batched(l), f) <=>
            \E i \in 1 .. n : \E k \in 1 .. Len(Batched(l)[i]) : Batched(l)[i][k] = f
      BY <1>9 DEF Waits
    <3>2. \A i \in 1 .. n : 1 .. Len(Batched(l)[i]) = 1 .. hi(i) - lo(i)
      BY <1>10
    <3>3. ASSUME NEW i \in 1 .. n, NEW k \in 1 .. hi(i) - lo(i)
          PROVE  Batched(l)[i][k] = f <=> l[lo(i) + k] = f
      BY <1>10
    <3>4. ASSUME Waits(Batched(l), f)
          PROVE  \E i \in 1 .. n : \E k \in 1 .. hi(i) - lo(i) : l[lo(i) + k] = f
      <4>1. PICK i \in 1 .. n : \E k \in 1 .. Len(Batched(l)[i]) : Batched(l)[i][k] = f
        BY <3>1, <3>4
      <4>2. PICK k \in 1 .. Len(Batched(l)[i]) : Batched(l)[i][k] = f
        BY <4>1
      <4>. QED
        BY <3>2, <3>3, <4>2, Zenon
    <3>5. ASSUME NEW i \in 1 .. n, NEW k \in 1 .. hi(i) - lo(i), l[lo(i) + k] = f
          PROVE  Waits(Batched(l), f)
      <4>1. k \in 1 .. Len(Batched(l)[i]) /\ Batched(l)[i][k] = f
        BY <3>2, <3>3, <3>5, Zenon
      <4>. QED
        BY <3>1, <4>1, Zenon
    <3>. QED
      BY <3>4, <3>5, Zenon
  <2> SUFFICES ASSUME NEW f
               PROVE  (\E i \in 1 .. n : \E k \in 1 .. hi(i) - lo(i) : l[lo(i) + k] = f)
                        <=> (\E p \in 1 .. Len(l) : l[p] = f)
    BY <2>3
  <2>4. ASSUME NEW i \in 1 .. n, NEW k \in 1 .. hi(i) - lo(i), l[lo(i) + k] = f
        PROVE  \E p \in 1 .. Len(l) : l[p] = f
    BY <2>1, <2>4
  <2>5. ASSUME NEW p \in 1 .. Len(l), l[p] = f
        PROVE  \E i \in 1 .. n : \E k \in 1 .. hi(i) - lo(i) : l[lo(i) + k] = f
    BY <2>2, <2>5
  <2>. QED
    BY <2>4, <2>5, Zenon
<1>. QED
  BY <1>9, <1>11, <1>12

(* What a run for commit c has to do: the files not done, each once. *)
LEMMA PlanFacts ==
  ASSUME NEW c \in Sha, NEW done
  PROVE  /\ Batched(Listing(Tree[c] \ done)) \in Seq(Seq(File))
         /\ Once(Batched(Listing(Tree[c] \ done)))
         /\ \A f : Waits(Batched(Listing(Tree[c] \ done)), f) <=> f \in Tree[c] \ done
<1> DEFINE S == Tree[c] \ done
           l == Listing(S)
<1>1. S \in SUBSET Nat /\ IsFiniteSet(S) /\ S \subseteq File
  <2>1. Tree[c] \subseteq Nat /\ IsFiniteSet(Tree[c]) /\ Tree[c] \subseteq File
    BY TreeAssumption DEF File
  <2>2. S \in SUBSET Tree[c]
    OBVIOUS
  <2> HIDE DEF S
  <2>3. IsFiniteSet(S)
    BY <2>1, <2>2, FS_Subset
  <2>. QED
    BY <2>1, <2>2, <2>3
<1> HIDE DEF S
<1>2. /\ l \in Seq(S)
      /\ \A f \in S : \E i \in 1 .. Len(l) : l[i] = f
      /\ \A i, j \in 1 .. Len(l) : l[i] = l[j] => i = j
  BY <1>1, ListingFacts
<1> HIDE DEF l
<1>3. l \in Seq(File) /\ \A i \in 1 .. Len(l) : l[i] \in S
  <2>1. \A i \in 1 .. Len(l) : l[i] \in S
    BY <1>2
  <2>2. \A i \in 1 .. Len(l) : l[i] \in File
    BY <1>1, <2>1
  <2>3. l = [i \in 1 .. Len(l) |-> l[i]] /\ Len(l) \in Nat
    BY <1>2
  <2>. QED
    BY <2>1, <2>2, <2>3
<1>4. /\ Batched(l) \in Seq(Seq(File))
      /\ Once(Batched(l))
      /\ \A f : Waits(Batched(l), f) <=> \E p \in 1 .. Len(l) : l[p] = f
  BY <1>2, <1>3, BatchedFacts
<1>5. \A f : (\E p \in 1 .. Len(l) : l[p] = f) <=> f \in S
  BY <1>2, <1>3
<1>. QED
  BY <1>4, <1>5 DEF l, S

(* Doing the first batch. *)
LEMMA TailFacts ==
  ASSUME NEW todo \in Seq(Seq(File)), todo # <<>>
  PROVE  /\ Tail(todo) \in Seq(Seq(File))
         /\ \A f : Waits(todo, f) <=> f \in ToSet(Head(todo)) \/ Waits(Tail(todo), f)
         /\ Once(todo) => Once(Tail(todo))
         /\ Once(todo) => \A f \in ToSet(Head(todo)) : ~Waits(Tail(todo), f)
<1> DEFINE n == Len(todo)
           rest == Tail(todo)
<1>1. n \in Nat \ {0} /\ Head(todo) = todo[1] /\ todo[1] \in Seq(File)
  BY EmptySeq
<1>2. rest \in Seq(Seq(File)) /\ Len(rest) = n - 1 /\ \A i \in 1 .. n - 1 : rest[i] = todo[i + 1]
  OBVIOUS
<1>3. \A f : f \in ToSet(Head(todo)) <=> \E k \in 1 .. Len(todo[1]) : todo[1][k] = f
  BY <1>1 DEF ToSet
<1> HIDE DEF n, rest
<1>4. \A f : Waits(rest, f) <=> \E i \in 2 .. n : \E k \in 1 .. Len(todo[i]) : todo[i][k] = f
  <2> SUFFICES ASSUME NEW f
               PROVE  Waits(rest, f) <=> \E i \in 2 .. n : \E k \in 1 .. Len(todo[i]) : todo[i][k] = f
    OBVIOUS
  <2>1. ASSUME NEW i \in 2 .. n, NEW k \in 1 .. Len(todo[i]), todo[i][k] = f
        PROVE  Waits(rest, f)
    <3>1. i - 1 \in 1 .. n - 1 /\ rest[i - 1] = todo[i]
      BY <1>1, <1>2
    <3>. QED
      BY <1>2, <2>1, <3>1 DEF Waits
  <2>2. ASSUME NEW j \in 1 .. n - 1, NEW k \in 1 .. Len(rest[j]), rest[j][k] = f
        PROVE  \E i \in 2 .. n : \E m \in 1 .. Len(todo[i]) : todo[i][m] = f
    <3>1. j + 1 \in 2 .. n /\ rest[j] = todo[j + 1]
      BY <1>1, <1>2
    <3>. QED
      BY <2>2, <3>1
  <2>. QED
    BY <1>2, <2>1, <2>2 DEF Waits
<1>5. \A f : Waits(todo, f) <=> f \in ToSet(Head(todo)) \/ Waits(rest, f)
  <2>1. \A i : i \in 1 .. n <=> i = 1 \/ i \in 2 .. n
    BY <1>1
  <2>. QED
    BY <1>3, <1>4, <2>1 DEF Waits, n
<1>6. ASSUME Once(todo) PROVE Once(rest)
  <2> SUFFICES ASSUME NEW i \in 1 .. n - 1, NEW j \in 1 .. n - 1,
                      NEW k \in 1 .. Len(rest[i]), NEW m \in 1 .. Len(rest[j]),
                      rest[i][k] = rest[j][m]
               PROVE  i = j /\ k = m
    BY <1>2 DEF Once
  <2>1. i + 1 \in 1 .. n /\ j + 1 \in 1 .. n /\ rest[i] = todo[i + 1] /\ rest[j] = todo[j + 1]
    BY <1>1, <1>2
  <2>2. i + 1 = j + 1 /\ k = m
    BY <1>6, <2>1 DEF Once, n
  <2>. QED
    BY <2>2
<1>7. ASSUME Once(todo), NEW f \in ToSet(Head(todo)) PROVE ~Waits(rest, f)
  <2> SUFFICES ASSUME Waits(rest, f) PROVE FALSE
    OBVIOUS
  <2>1. PICK k \in 1 .. Len(todo[1]) : todo[1][k] = f
    BY <1>3
  <2>2. PICK i \in 2 .. n : \E m \in 1 .. Len(todo[i]) : todo[i][m] = f
    BY <1>4
  <2>3. PICK m \in 1 .. Len(todo[i]) : todo[i][m] = f
    BY <2>2
  <2>4. 1 \in 1 .. n /\ i \in 1 .. n /\ i # 1
    BY <1>1
  <2>. QED
    BY <1>7, <2>1, <2>3, <2>4 DEF Once, n
<1>. QED
  BY <1>2, <1>5, <1>6, <1>7 DEF rest

(* Splitting it. *)
LEMMA Half ==
  ASSUME NEW a \in Nat, a > 1
  PROVE  a \div 2 \in Nat /\ 1 <= a \div 2 /\ a \div 2 < a
OBVIOUS

LEMMA ElementOf ==
  ASSUME NEW S, NEW s \in Seq(S), NEW i \in 1 .. Len(s)
  PROVE  s[i] \in S /\ Len(s) \in Nat /\ i \in Nat /\ i > 0
OBVIOUS

(* A batch that is split leaves two in the place of its own. *)
LEMMA SamePart ==
  ASSUME NEW i \in Nat, NEW j \in Nat, i > 0, j > 0,
         (IF i <= 2 THEN 1 ELSE i - 1) = (IF j <= 2 THEN 1 ELSE j - 1)
  PROVE  i = j \/ (i = 1 /\ j = 2) \/ (i = 2 /\ j = 1)
OBVIOUS

LEMMA PairFirst ==
  ASSUME NEW S, NEW x \in S, NEW y \in S, NEW rest \in Seq(S)
  PROVE  /\ <<x, y>> \o rest \in Seq(S)
         /\ Len(<<x, y>> \o rest) = Len(rest) + 2
         /\ (<<x, y>> \o rest)[1] = x
         /\ (<<x, y>> \o rest)[2] = y
         /\ \A i \in 1 .. Len(rest) : (<<x, y>> \o rest)[i + 2] = rest[i]
OBVIOUS

LEMMA SplitFacts ==
  ASSUME NEW todo \in Seq(Seq(File)), todo # <<>>, Len(Head(todo)) > 1,
         NEW new,
         new = <<SubSeq(Head(todo), 1, Len(Head(todo)) \div 2),
                 SubSeq(Head(todo), Len(Head(todo)) \div 2 + 1, Len(Head(todo)))>> \o Tail(todo)
  PROVE  /\ new \in Seq(Seq(File))
         /\ \A f : Waits(new, f) <=> Waits(todo, f)
         /\ Once(todo) => Once(new)
<1> DEFINE n == Len(todo)
           b == Head(todo)
           h == Len(b) \div 2
           x == SubSeq(b, 1, h)
           y == SubSeq(b, h + 1, Len(b))
           at(i) == IF i <= 2 THEN 1 ELSE i - 1
           off(i) == IF i = 2 THEN h ELSE 0
<1>1. n \in Nat \ {0} /\ b = todo[1] /\ b \in Seq(File) /\ Len(b) \in Nat
  BY EmptySeq
<1>2. h \in Nat /\ 1 <= h /\ h < Len(b)
  BY <1>1, Half
<1>3. Tail(todo) \in Seq(Seq(File)) /\ Len(Tail(todo)) = n - 1 /\ \A i \in 1 .. n - 1 : Tail(todo)[i] = todo[i + 1]
  OBVIOUS
<1> HIDE DEF n, b, h
<1>4. x \in Seq(File) /\ Len(x) = h /\ \A k \in 1 .. h : x[k] = b[k]
  BY <1>1, <1>2
<1>5. y \in Seq(File) /\ Len(y) = Len(b) - h /\ \A k \in 1 .. Len(b) - h : y[k] = b[h + k]
  BY <1>1, <1>2
<1>6. new = <<x, y>> \o Tail(todo)
  BY DEF b, h
<1> HIDE DEF x, y, at, off
<1>7. /\ new \in Seq(Seq(File))
      /\ Len(new) = Len(Tail(todo)) + 2
      /\ new[1] = x /\ new[2] = y
      /\ \A i \in 1 .. Len(Tail(todo)) : new[i + 2] = Tail(todo)[i]
  <2> DEFINE rest == Tail(todo)
             both == <<x, y>> \o rest
  <2>1. x \in Seq(File) /\ y \in Seq(File) /\ rest \in Seq(Seq(File))
    BY <1>3, <1>4, <1>5
  <2> HIDE DEF rest
  <2>2. /\ both \in Seq(Seq(File))
        /\ Len(both) = Len(rest) + 2
        /\ both[1] = x /\ both[2] = y
        /\ \A i \in 1 .. Len(rest) : both[i + 2] = rest[i]
    BY <2>1, PairFirst
  <2>3. new = both
    BY <1>6 DEF rest
  <2> HIDE DEF both
  <2>. QED
    BY <2>2, <2>3 DEF rest
<1>8. Len(new) = n + 1
  BY <1>1, <1>3, <1>7
<1>9. \A i \in 3 .. n + 1 : new[i] = todo[i - 1]
  <2> SUFFICES ASSUME NEW i \in 3 .. n + 1 PROVE new[i] = todo[i - 1]
    OBVIOUS
  <2>1. i - 2 \in 1 .. n - 1 /\ (i - 2) + 1 = i - 1 /\ (i - 2) + 2 = i
    BY <1>1
  <2>. QED
    BY <1>3, <1>7, <2>1
<1>10. ASSUME NEW i \in 1 .. n + 1, NEW k \in 1 .. Len(new[i])
       PROVE  /\ at(i) \in 1 .. n
              /\ off(i) + k \in 1 .. Len(todo[at(i)])
              /\ new[i][k] = todo[at(i)][off(i) + k]
              /\ i = 1 => k <= h
  <2>1. CASE i = 1
    <3>1. at(i) = 1 /\ off(i) = 0
      BY <2>1 DEF at, off
    <3>2. k \in 1 .. h /\ new[i][k] = b[k]
      BY <1>4, <1>7, <2>1
    <3>3. 0 + k = k /\ k \in 1 .. Len(b) /\ 1 \in 1 .. n /\ k <= h
      BY <1>1, <1>2, <3>2
    <3>. QED
      BY <1>1, <3>1, <3>2, <3>3
  <2>2. CASE i = 2
    <3>1. at(i) = 1 /\ off(i) = h
      BY <2>2 DEF at, off
    <3>2. k \in 1 .. Len(b) - h /\ new[i][k] = b[h + k]
      BY <1>5, <1>7, <2>2
    <3>3. h + k \in 1 .. Len(b) /\ 1 \in 1 .. n /\ i # 1
      BY <1>1, <1>2, <2>2, <3>2
    <3>. QED
      BY <1>1, <3>1, <3>2, <3>3
  <2>3. CASE i \in 3 .. n + 1
    <3>1. i - 1 \in 1 .. n /\ at(i) = i - 1 /\ off(i) = 0 /\ i # 1
      BY <1>1, <2>3 DEF at, off
    <3>2. new[i] = todo[i - 1]
      BY <1>9, <2>3
    <3>3. k \in Nat
      BY <1>7, <1>8
    <3>4. k \in 1 .. Len(todo[i - 1])
      BY <3>2, Zenon
    <3>5. 0 + k = k
      BY <3>3
    <3>. QED
      BY <3>1, <3>2, <3>4, <3>5
  <2>4. i = 1 \/ i = 2 \/ i \in 3 .. n + 1
    BY <1>1
  <2>. QED
    BY <2>1, <2>2, <2>3, <2>4
<1>11. ASSUME NEW j \in 1 .. n, NEW m \in 1 .. Len(todo[j])
       PROVE  \E i \in 1 .. n + 1 : \E k \in 1 .. Len(new[i]) : new[i][k] = todo[j][m]
  <2>1. h \in Nat /\ m \in Nat /\ todo[j] \in Seq(File)
    BY <1>1, <1>2 DEF n
  <2>2. CASE j = 1 /\ m <= h
    <3>1. m \in 1 .. h
      BY <2>1, <2>2
    <3>2. 1 \in 1 .. n + 1
      BY <1>1
    <3>3. m \in 1 .. Len(new[1]) /\ new[1][m] = todo[1][m]
      BY <1>1, <1>4, <1>7, <3>1
    <3>. QED
      BY <2>2, <3>2, <3>3, Zenon
  <2>3. CASE j = 1 /\ m > h
    <3>1. m - h \in 1 .. Len(b) - h /\ h + (m - h) = m
      BY <1>1, <1>2, <2>1, <2>3
    <3>2. 2 \in 1 .. n + 1
      BY <1>1
    <3>3. m - h \in 1 .. Len(new[2]) /\ new[2][m - h] = todo[1][m]
      BY <1>1, <1>5, <1>7, <3>1
    <3>. QED
      BY <2>3, <3>2, <3>3, Zenon
  <2>4. CASE j # 1
    <3>1. j + 1 \in 3 .. n + 1 /\ (j + 1) - 1 = j
      BY <1>1, <2>4
    <3>2. j + 1 \in 1 .. n + 1
      BY <1>1, <3>1
    <3>3. new[j + 1] = todo[j]
      BY <1>9, <3>1
    <3>. QED
      BY <3>2, <3>3, Zenon
  <2>5. m <= h \/ m > h
    BY <2>1
  <2>. QED
    BY <2>2, <2>3, <2>4, <2>5, Zenon
<1>12. \A f : Waits(new, f) <=> Waits(todo, f)
  <2> SUFFICES ASSUME NEW f PROVE Waits(new, f) <=> Waits(todo, f)
    OBVIOUS
  <2>1. ASSUME NEW i \in 1 .. n + 1, NEW k \in 1 .. Len(new[i]), new[i][k] = f
        PROVE  Waits(todo, f)
    BY <1>10, <2>1 DEF Waits, n
  <2>2. ASSUME NEW j \in 1 .. n, NEW m \in 1 .. Len(todo[j]), todo[j][m] = f
        PROVE  Waits(new, f)
    <3>1. PICK i \in 1 .. n + 1 : \E k \in 1 .. Len(new[i]) : new[i][k] = f
      BY <1>11, <2>2
    <3>. QED
      BY <1>8, <3>1 DEF Waits
  <2>. QED
    BY <1>8, <2>1, <2>2 DEF Waits, n
<1>13. ASSUME Once(todo) PROVE Once(new)
  <2> SUFFICES ASSUME NEW i \in 1 .. Len(new), NEW j \in 1 .. Len(new),
                      NEW k \in 1 .. Len(new[i]), NEW m \in 1 .. Len(new[j]),
                      new[i][k] = new[j][m]
               PROVE  i = j /\ k = m
    BY DEF Once
  <2>0. i \in 1 .. n + 1 /\ j \in 1 .. n + 1
    BY <1>8
  <2>1. at(i) = at(j) /\ off(i) + k = off(j) + m
    <3> DEFINE a == at(i)
               c == at(j)
               d == off(i) + k
               e == off(j) + m
    <3>1. a \in 1 .. n /\ d \in 1 .. Len(todo[a]) /\ new[i][k] = todo[a][d]
      BY <1>10, <2>0
    <3>2. c \in 1 .. n /\ e \in 1 .. Len(todo[c]) /\ new[j][m] = todo[c][e]
      BY <1>10, <2>0
    <3> HIDE DEF a, c, d, e
    <3>3. todo[a][d] = todo[c][e]
      BY <3>1, <3>2, Zenon
    <3>4. a \in 1 .. Len(todo) /\ c \in 1 .. Len(todo)
      BY <3>1, <3>2 DEF n
    <3>5. a = c /\ d = e
      BY <1>13, <3>1, <3>2, <3>3, <3>4, OnceMeans, SMTT(60)
    <3>. QED
      BY <3>5 DEF a, c, d, e
  <2>2. (i = 1 => k <= h) /\ (j = 1 => m <= h)
    BY <1>10, <2>0
  <2>3. Len(new[i]) \in Nat /\ Len(new[j]) \in Nat
    <3>1. new[i] \in Seq(File) /\ new[j] \in Seq(File)
      BY <1>7, ElementOf, Zenon
    <3>. QED
      BY <3>1, ElementOf, Zenon
  <2>4. k \in Nat /\ m \in Nat /\ k > 0 /\ m > 0
    BY <2>3
  <2>5. i = j
    <3>1. i = j \/ (i = 1 /\ j = 2) \/ (i = 2 /\ j = 1)
      <4>1. i \in Nat /\ j \in Nat /\ i > 0 /\ j > 0
        BY <1>7, ElementOf, Zenon
      <4>. QED
        BY <2>1, <4>1, SamePart, Zenon DEF at
    <3>2. ~(i = 1 /\ j = 2)
      BY <1>2, <2>1, <2>2, <2>4 DEF off
    <3>3. ~(i = 2 /\ j = 1)
      BY <1>2, <2>1, <2>2, <2>4 DEF off
    <3>. QED
      BY <3>1, <3>2, <3>3
  <2>. QED
    BY <1>2, <2>1, <2>4, <2>5 DEF off
<1>. QED
  BY <1>7, <1>12, <1>13

-----------------------------------------------------------------------------
(* One task at a time.                                                     *)

OthersOff(w) == \A v \in Worker \ {w} : task[v] = Off

Whole(c) == \A f \in File, s \in Sha : stored[<<f, s>>] = IF s = c /\ f \in Text(Tree[s]) THEN 1 ELSE 0
Clean(c) == \A f \in File, s \in Sha : stored[<<f, s>>] <= IF s = c /\ f \in Text(Tree[s]) THEN 1 ELSE 0

(* Of commit c's texts exactly those in todo are still to be stored. *)
Remaining(c, todo) ==
  /\ todo \in Seq(Seq(File)) /\ Once(todo)
  /\ \A f : Waits(todo, f) => f \in Tree[c]
  /\ \A f \in Text(Tree[c]) : stored[<<f, c>>] = IF Waits(todo, f) THEN 0 ELSE 1

(* What a task knows, at each point of a run, is still so. *)
Pursued(t) ==
  /\ t.pc = "read" => (Exists => t.seen = ingest)
  /\ t.pc = "prepare" => t.sha \in Sha /\ (Exists => t.seen = ingest)
  /\ t.pc \in {"loop", "embed", "save"} =>
       t.sha \in Sha /\ (Exists => ingest = t.sha /\ Remaining(t.sha, t.todo))
  /\ t.pc \in {"embed", "save"} => t.todo # <<>>
  /\ t.pc = "embed" => Fits(Head(t.todo)) /\ t.cost \in 0 .. Estimate(Head(t.todo))
  /\ t.pc = "save" => t.cost \in 0 .. Cap - used

(* Inductive while one task runs at a time: the chunks are of the commit   *)
(* in hand, those of its texts that no batch still holds, and the ledger   *)
(* has room for the bill of the batch in hand.                             *)
Serial ==
  /\ used \in 0 .. Cap
  /\ stored \in [File \X Sha -> Nat]
  /\ status = "ready" => commit \in Sha /\ Whole(commit)
  /\ ingest # None => Clean(ingest)
  /\ \A w \in Worker : Busy(w) => status \notin {"none", "ready"}
  /\ \A w \in Worker : Pursued(task[w])

SInv == Kept /\ head \in Sha /\ (Alone => Serial)

LEMMA OffFacts ==
  /\ Off.pc = "off" /\ Idle.pc = "idle"
  /\ Pursued(Off) /\ Pursued(Idle)
BY DEF Off, Idle, At, Pursued

LEMMA OffPursued == Pursued(Off)' /\ Pursued(Idle)'
BY OffFacts, PTL

LEMMA AtFacts ==
  ASSUME NEW pc, NEW sha, NEW seen, NEW todo, NEW cost
  PROVE  /\ At(pc, sha, seen, todo, cost).pc = pc
         /\ At(pc, sha, seen, todo, cost).sha = sha
         /\ At(pc, sha, seen, todo, cost).seen = seen
         /\ At(pc, sha, seen, todo, cost).todo = todo
         /\ At(pc, sha, seen, todo, cost).cost = cost
BY DEF At

(* A worker that moves was on and stays on: whether one task runs at a     *)
(* time is settled when the workers start.                                 *)
LEMMA StaysAlone ==
  ASSUME Shape, NEW w \in Worker, NEW t, task[w].pc # "off", Become(w, t), t.pc # "off"
  PROVE  /\ Alone <=> OthersOff(w)
         /\ Alone' <=> OthersOff(w)
<1>1. task[w] # Off /\ task'[w] # Off
  BY BecomeShape, OffFacts
<1>2. \A v \in Worker \ {w} : task'[v] = task[v]
  BY BecomeShape
<1>. QED
  BY <1>1, <1>2 DEF Alone, OthersOff

(* The one task moves and what it finds is what Serial says. *)
LEMMA MoveSerial ==
  ASSUME Shape, NEW w \in Worker, NEW t, OthersOff(w), Become(w, t),
         used' \in 0 .. Cap,
         stored' \in [File \X Sha -> Nat],
         status' = "ready" => commit' \in Sha /\ Whole(commit)',
         (ingest # None => Clean(ingest))',
         t.pc \in {"idle", "off"} \/ status' \notin {"none", "ready"},
         Pursued(t)'
  PROVE  Serial'
<1>1. task'[w] = t /\ \A v \in Worker \ {w} : task'[v] = Off
  BY BecomeShape DEF OthersOff
<1>2. \A v \in Worker : Busy(v)' => status' \notin {"none", "ready"}
  BY <1>1, OffFacts DEF Busy
<1>3. \A v \in Worker : Pursued(task[v])'
  <2> SUFFICES ASSUME NEW v \in Worker PROVE Pursued(task[v])'
    OBVIOUS
  <2>1. CASE v = w
    BY <1>1, <2>1 DEF Pursued, Remaining, Fits
  <2>2. CASE v # w
    BY <1>1, <2>2, OffPursued DEF Pursued, Remaining, Fits
  <2>. QED
    BY <2>1, <2>2
<1>. QED
  BY <1>2, <1>3 DEF Serial

LEMMA CleanStays ==
  ASSUME NEW c, Clean(c), UNCHANGED stored
  PROVE  Clean(c)'
<1> SUFFICES ASSUME NEW f \in File, NEW s \in Sha
             PROVE  stored'[<<f, s>>] <= IF s = c /\ f \in Text(Tree[s]) THEN 1 ELSE 0
  BY Zenon DEF Clean
<1>1. stored[<<f, s>>] <= IF s = c /\ f \in Text(Tree[s]) THEN 1 ELSE 0
  BY Zenon DEF Clean
<1>. QED
  BY <1>1

(* The rows and the ledger keep still. *)
LEMMA StillSerial ==
  ASSUME Shape, Serial, NEW w \in Worker, NEW t, OthersOff(w), Become(w, t),
         UNCHANGED <<ingest, commit, stored, used>>,
         status' = "ready" => status = "ready",
         t.pc \in {"idle", "off"} \/ status' \notin {"none", "ready"},
         Pursued(t)'
  PROVE  Serial'
<1>1. used' \in 0 .. Cap /\ stored' \in [File \X Sha -> Nat]
  BY DEF Serial
<1>2. status' = "ready" => commit' \in Sha /\ Whole(commit)'
  BY DEF Serial, Whole
<1>3. (ingest # None => Clean(ingest))'
  BY CleanStays DEF Serial
<1>. QED
  BY <1>1, <1>2, <1>3, MoveSerial

(* Nobody moves; the world does. *)
LEMMA WorldSerial ==
  ASSUME Shape, Serial, UNCHANGED task,
         used' \in 0 .. used,
         status' \in {"none", "ready"} => UNCHANGED <<status, commit>>,
         \/ UNCHANGED <<ingest, stored>> /\ (UNCHANGED status \/ (status # "gone" /\ status' # "gone"))
         \/ status' = "gone" /\ ingest' = None /\ stored' = Empty
  PROVE  Serial'
<1>1. used' \in 0 .. Cap /\ used \in 0 .. Cap
  BY BoundsAssumption DEF Serial
<1>2. stored' \in [File \X Sha -> Nat]
  BY DEF Serial, Empty
<1>3. status' = "ready" => commit' \in Sha /\ Whole(commit)'
  BY DEF Serial, Whole
<1>4. (ingest # None => Clean(ingest))'
  BY CleanStays DEF Serial
<1>5. \A w \in Worker : Busy(w)' => status' \notin {"none", "ready"}
  BY DEF Serial, Busy
<1>6. \A w \in Worker : Pursued(task[w])'
  <2> SUFFICES ASSUME NEW w \in Worker PROVE Pursued(task[w])'
    OBVIOUS
  <2>1. PICK t : t = task[w]
    OBVIOUS
  <2>2. Pursued(t) /\ (t.pc \in {"read", "prepare", "loop", "embed", "save"} => status # "none")
    BY <2>1 DEF Serial, Busy
  <2>3. CASE t.pc \notin {"read", "prepare", "loop", "embed", "save"}
    <3>1. Pursued(t)'
      BY <2>3 DEF Pursued
    <3>. QED
      BY <2>1, <3>1 DEF Pursued, Remaining, Fits
  <2>4. CASE t.pc \in {"read", "prepare", "loop", "embed", "save"}
    <3>1. Exists' => Exists /\ UNCHANGED <<ingest, stored>>
      BY <2>2, <2>4 DEF Exists
    <3>2. Exists' => (Remaining(t.sha, t.todo) <=> Remaining(t.sha, t.todo)')
      BY <3>1 DEF Remaining
    <3>3. \A e : e \in 0 .. Cap - used => e \in 0 .. Cap - used'
      BY <1>1, BoundsAssumption
    <3>4. Fits(Head(t.todo)) => Fits(Head(t.todo))'
      BY <3>3 DEF Fits
    <3>5. Pursued(t)'
      BY <2>2, <3>1, <3>2, <3>3, <3>4 DEF Pursued
    <3>. QED
      BY <2>1, <3>5 DEF Pursued, Remaining, Fits
  <2>. QED
    BY <2>3, <2>4
<1>. QED
  BY <1>1, <1>2, <1>3, <1>4, <1>5, <1>6 DEF Serial

LEMMA CleanMeans ==
  ASSUME NEW c, Clean(c), stored \in [File \X Sha -> Nat], NEW f \in File, NEW s \in Sha
  PROVE  /\ stored[<<f, s>>] \in {0, 1}
         /\ s # c => stored[<<f, s>>] = 0
         /\ f \notin Text(Tree[s]) => stored[<<f, s>>] = 0
<1>1. stored[<<f, s>>] \in Nat
  OBVIOUS
<1>2. stored[<<f, s>>] <= IF s = c /\ f \in Text(Tree[s]) THEN 1 ELSE 0
  BY DEF Clean
<1>3. CASE s = c /\ f \in Text(Tree[s])
  <2>1. stored[<<f, s>>] <= 1
    BY <1>2, <1>3
  <2>. QED
    BY <1>1, <1>3, <2>1
<1>4. CASE ~(s = c /\ f \in Text(Tree[s]))
  <2>1. stored[<<f, s>>] <= 0
    BY <1>2, <1>4
  <2>. QED
    BY <1>1, <2>1
<1>. QED
  BY <1>3, <1>4

LEMMA StartSerial ==
  ASSUME Shape, Serial, NEW w \in Worker, OthersOff(w), Start(w)
  PROVE  Serial'
<1>1. UNCHANGED <<ingest, commit, stored, used>> /\ used \in 0 .. used
  BY DEF Start, Serial
<1>2. CASE ~Exists
  BY <1>1, <1>2, WorldSerial DEF Start
<1>3. CASE Exists
  <2>1. PICK t : t = At("read", None, ingest, <<>>, 0)
    OBVIOUS
  <2>2. Become(w, t) /\ status' = "running"
    BY <1>3, <2>1 DEF Start
  <2>3. t.pc = "read" /\ t.seen = ingest
    BY <2>1, AtFacts
  <2>4. Pursued(t)'
    BY <1>1, <2>3 DEF Pursued
  <2>. QED
    BY <1>1, <2>2, <2>4, StillSerial
<1>. QED
  BY <1>2, <1>3

LEMMA ReadHeadSerial ==
  ASSUME Shape, Serial, head \in Sha, NEW w \in Worker, OthersOff(w), ReadHead(w)
  PROVE  Serial'
<1>1. UNCHANGED <<status, ingest, commit, stored, used>>
  BY DEF ReadHead, record
<1>2. PICK t : t = At("prepare", head, task[w].seen, <<>>, 0)
  OBVIOUS
<1>3. Become(w, t) /\ task[w].pc = "read"
  BY <1>2 DEF ReadHead
<1>4. t.pc = "prepare" /\ t.sha \in Sha /\ t.seen = task[w].seen
  BY <1>2, AtFacts
<1>5. (Exists => task[w].seen = ingest) /\ status \notin {"none", "ready"}
  BY <1>3 DEF Serial, Pursued, Busy
<1>6. Pursued(t)'
  BY <1>1, <1>4, <1>5 DEF Pursued, Exists
<1>. QED
  BY <1>1, <1>3, <1>5, <1>6, StillSerial

LEMMA PrepareSerial ==
  ASSUME Shape, Serial, NEW w \in Worker, OthersOff(w), Prepare(w)
  PROVE  Serial'
<1>1. PICK c : c = task[w].sha
  OBVIOUS
<1>2. PICK done : done = IF task[w].seen = task[w].sha THEN StoredPaths ELSE {}
  OBVIOUS
<1>3. PICK t : t = At("loop", c, task[w].seen, Batched(Listing(Tree[c] \ done)), 0)
  OBVIOUS
<1>4. /\ task[w].pc = "prepare" /\ Exists
      /\ Become(w, t)
      /\ UNCHANGED <<status, used, commit>>
  BY <1>1, <1>2, <1>3 DEF Prepare, Step
<1>5. c \in Sha /\ task[w].seen = ingest /\ status \notin {"none", "ready"}
  BY <1>1, <1>4 DEF Serial, Pursued, Busy
<1>6. /\ t.pc = "loop" /\ t.sha = c
      /\ t.todo \in Seq(Seq(File)) /\ Once(t.todo)
      /\ \A f : Waits(t.todo, f) <=> f \in Tree[c] \ done
  <2>1. PICK todo : todo = Batched(Listing(Tree[c] \ done))
    OBVIOUS
  <2>2. PICK seen : seen = task[w].seen
    OBVIOUS
  <2>3. t.pc = "loop" /\ t.sha = c /\ t.todo = todo
    <3>1. t = At("loop", c, seen, todo, 0)
      BY <1>3, <2>1, <2>2, Zenon
    <3>. QED
      BY <3>1, AtFacts
  <2>4. todo \in Seq(Seq(File)) /\ Once(todo) /\ \A f : Waits(todo, f) <=> f \in Tree[c] \ done
    BY <1>5, <2>1, PlanFacts, Zenon
  <2>. QED
    BY <2>3, <2>4, Zenon
<1>7. Text(Tree[c]) \subseteq File /\ Text(Tree[c]) \subseteq Tree[c]
  <2>1. Tree[c] \subseteq File
    BY <1>5 DEF File
  <2>. QED
    BY <2>1 DEF Text
<1>8. /\ ingest' = c /\ Clean(c)' /\ stored' \in [File \X Sha -> Nat]
      /\ \A f \in Text(Tree[c]) : stored'[<<f, c>>] = IF f \in Tree[c] \ done THEN 0 ELSE 1
  <2>1. CASE ingest = c
    <3>1. stored' = stored /\ ingest' = ingest /\ done = StoredPaths
      BY <1>1, <1>2, <1>5, <2>1 DEF Prepare
    <3>2. c # None /\ Clean(c) /\ stored \in [File \X Sha -> Nat]
      BY <1>5, <2>1, TreeAssumption DEF Serial
    <3>3. ASSUME NEW f \in Text(Tree[c])
          PROVE  stored[<<f, c>>] = IF f \in Tree[c] \ done THEN 0 ELSE 1
      <4>1. f \in File /\ f \in Tree[c]
        BY <1>7
      <4>2. stored[<<f, c>>] \in {0, 1} /\ \A s \in Sha \ {c} : stored[<<f, s>>] = 0
        BY <1>5, <3>2, <4>1, CleanMeans
      <4>3. f \in StoredPaths <=> stored[<<f, c>>] > 0
        <5>1. stored[<<f, c>>] > 0 => f \in StoredPaths
          BY <1>5, <4>1 DEF StoredPaths
        <5>2. ASSUME f \in StoredPaths PROVE stored[<<f, c>>] > 0
          <6>1. PICK s \in Sha : stored[<<f, s>>] > 0
            BY <5>2 DEF StoredPaths
          <6>2. s = c
            BY <4>2, <6>1
          <6>. QED
            BY <6>1, <6>2
        <5>. QED
          BY <5>1, <5>2
      <4>. QED
        BY <3>1, <4>1, <4>2, <4>3
    <3>. QED
      BY <2>1, <3>1, <3>2, <3>3 DEF Clean
  <2>2. CASE ingest # c
    <3>1. stored' = Empty /\ ingest' = c /\ done = {}
      BY <1>1, <1>2, <1>5, <2>2 DEF Prepare
    <3>2. \A f \in File, s \in Sha : stored'[<<f, s>>] = 0
      BY <3>1 DEF Empty
    <3>3. Clean(c)'
      <4>1. ASSUME NEW f \in File, NEW s \in Sha, NEW m, m = IF s = c /\ f \in Text(Tree[s]) THEN 1 ELSE 0
            PROVE  stored'[<<f, s>>] <= m
        <5>1. m \in Nat
          BY <4>1
        <5>. QED
          BY <3>2, <5>1
      <4>. QED
        BY <4>1, Zenon DEF Clean
    <3>4. stored' \in [File \X Sha -> Nat]
      BY <3>1 DEF Empty
    <3>. QED
      BY <1>5, <1>7, <3>1, <3>2, <3>3, <3>4
  <2>. QED
    BY <2>1, <2>2
<1>9. Remaining(c, t.todo)'
  BY <1>6, <1>8 DEF Remaining
<1>10. Pursued(t)'
  BY <1>5, <1>6, <1>8, <1>9 DEF Pursued
<1>11. (ingest # None => Clean(ingest))'
  BY <1>8
<1>12. used' \in 0 .. Cap /\ (status' = "ready" => commit' \in Sha /\ Whole(commit)')
  BY <1>4, <1>5 DEF Serial
<1>. QED
  BY <1>4, <1>5, <1>8, <1>10, <1>11, <1>12, MoveSerial

LEMMA InHand ==
  ASSUME Shape, Serial, NEW w \in Worker, task[w].pc \in {"loop", "embed", "save"}
  PROVE  /\ task[w].sha \in Sha /\ task[w].sha # None
         /\ status \notin {"none", "ready"}
         /\ Exists => /\ ingest = task[w].sha /\ Clean(task[w].sha)
                      /\ Remaining(task[w].sha, task[w].todo)
BY TreeAssumption DEF Serial, Pursued, Busy

(* A task goes on between two calls, with the same texts still to store. *)
LEMMA LoopSerial ==
  ASSUME Shape, Serial, NEW w \in Worker, OthersOff(w),
         task[w].pc \in {"loop", "embed", "save"},
         NEW pc \in {"loop", "embed", "save"}, NEW todo, NEW cost,
         Step(w, pc, todo, cost),
         UNCHANGED <<status, ingest, commit, stored, used>>,
         Exists => /\ todo \in Seq(Seq(File)) /\ Once(todo)
                   /\ \A f : Waits(todo, f) => f \in Tree[task[w].sha]
                   /\ \A f \in Text(Tree[task[w].sha]) : Waits(todo, f) <=> Waits(task[w].todo, f),
         pc \in {"embed", "save"} => todo # <<>>,
         pc = "embed" => Fits(Head(todo)) /\ cost \in 0 .. Estimate(Head(todo)),
         pc = "save" => cost \in 0 .. Cap - used
  PROVE  Serial'
<1>1. PICK c, seen, t : c = task[w].sha /\ seen = task[w].seen /\ t = At(pc, c, seen, todo, cost)
  OBVIOUS
<1>2. Become(w, t)
  BY <1>1 DEF Step
<1>3. t.pc = pc /\ t.sha = c /\ t.todo = todo /\ t.cost = cost
  BY <1>1, AtFacts
<1>4. /\ c \in Sha /\ status \notin {"none", "ready"}
      /\ Exists => ingest = c /\ Remaining(c, task[w].todo)
  BY <1>1, InHand
<1>5. Exists => Remaining(c, todo)
  BY <1>1, <1>4 DEF Remaining
<1>6. (Exists <=> Exists') /\ (Remaining(c, todo) <=> Remaining(c, todo)')
  BY DEF Exists, Remaining
<1>7. Fits(Head(todo)) => Fits(Head(todo))'
  BY DEF Fits
<1>8. Pursued(t)'
  BY <1>3, <1>4, <1>5, <1>6, <1>7 DEF Pursued
<1>. QED
  BY <1>2, <1>4, <1>8, StillSerial

LEMMA SkipSerial ==
  ASSUME Shape, Serial, NEW w \in Worker, OthersOff(w), SkipBatch(w)
  PROVE  Serial'
<1>1. PICK c, todo : c = task[w].sha /\ todo = task[w].todo
  OBVIOUS
<1>2. /\ task[w].pc = "loop" /\ Exists /\ todo # <<>>
      /\ Text(ToSet(Head(todo))) = {}
      /\ Step(w, "loop", Tail(todo), 0)
      /\ UNCHANGED <<status, ingest, commit, stored, used>>
  BY <1>1 DEF SkipBatch, HasBatch, Current, record
<1>3. Remaining(c, todo)
  BY <1>1, <1>2, InHand
<1>4. /\ Tail(todo) \in Seq(Seq(File)) /\ Once(Tail(todo))
      /\ \A f : Waits(todo, f) <=> f \in ToSet(Head(todo)) \/ Waits(Tail(todo), f)
  BY <1>2, <1>3, TailFacts DEF Remaining
<1>5. \A f \in Text(Tree[c]) : f \notin ToSet(Head(todo))
  BY <1>2 DEF Text
<1>6. PICK rest : rest = Tail(todo)
  OBVIOUS
<1>7. /\ rest \in Seq(Seq(File)) /\ Once(rest)
      /\ \A f : Waits(rest, f) => f \in Tree[c]
      /\ \A f \in Text(Tree[c]) : Waits(rest, f) <=> Waits(todo, f)
      /\ Step(w, "loop", rest, 0)
  BY <1>2, <1>3, <1>4, <1>5, <1>6 DEF Remaining
<1>. QED
  BY <1>1, <1>2, <1>7, LoopSerial

(* The batches stay as they are. *)
LEMMA SameBatches ==
  ASSUME Shape, Serial, NEW w \in Worker, OthersOff(w),
         task[w].pc \in {"loop", "embed", "save"}, task[w].todo # <<>>,
         NEW pc \in {"embed", "save"}, NEW cost,
         Step(w, pc, task[w].todo, cost),
         UNCHANGED <<status, ingest, commit, stored, used>>,
         pc = "embed" => Fits(Head(task[w].todo)) /\ cost \in 0 .. Estimate(Head(task[w].todo)),
         pc = "save" => cost \in 0 .. Cap - used
  PROVE  Serial'
<1>1. PICK todo : todo = task[w].todo
  OBVIOUS
<1>2. Exists => /\ todo \in Seq(Seq(File)) /\ Once(todo)
                /\ \A f : Waits(todo, f) => f \in Tree[task[w].sha]
  BY <1>1, InHand DEF Remaining
<1>. QED
  BY <1>1, <1>2, LoopSerial

LEMMA AdmitSerial ==
  ASSUME Shape, Serial, NEW w \in Worker, OthersOff(w), AdmitBatch(w)
  PROVE  Serial'
<1>1. /\ task[w].pc = "loop" /\ task[w].todo # <<>> /\ Fits(Head(task[w].todo))
      /\ Step(w, "embed", task[w].todo, 0)
      /\ UNCHANGED <<status, ingest, commit, stored, used>>
  BY DEF AdmitBatch, HasBatch, Current, record
<1>2. 0 \in 0 .. Estimate(Head(task[w].todo))
  <2>1. PICK e : e = Estimate(Head(task[w].todo))
    OBVIOUS
  <2>2. e \in 0 .. Cap - used
    BY <1>1, <2>1 DEF Fits
  <2>3. Cap \in Nat /\ used \in Nat
    BY BoundsAssumption DEF Serial
  <2>. QED
    BY <2>1, <2>2, <2>3
<1>. QED
  BY <1>1, <1>2, SameBatches

LEMMA EmbedSerial ==
  ASSUME Shape, Serial, NEW w \in Worker, OthersOff(w), EmbedSome(w)
  PROVE  Serial'
<1>1. PICK e, b : e = Estimate(b) /\ b = Head(task[w].todo)
  OBVIOUS
<1>2. PICK c \in task[w].cost + 1 .. e :
        \/ Step(w, "save", task[w].todo, c)
        \/ c < e /\ Step(w, "embed", task[w].todo, c)
  BY <1>1 DEF EmbedSome, Current
<1>3. /\ task[w].pc = "embed"
      /\ UNCHANGED <<status, ingest, commit, stored, used>>
  BY DEF EmbedSome, record
<1>4. task[w].todo # <<>> /\ Fits(b) /\ task[w].cost \in 0 .. e
  BY <1>1, <1>3 DEF Serial, Pursued
<1>5. e \in 0 .. Cap - used /\ Cap \in Nat /\ used \in Nat
  BY <1>1, <1>4, BoundsAssumption DEF Fits, Serial
<1>6. c \in 0 .. e /\ c \in 0 .. Cap - used
  BY <1>2, <1>4, <1>5
<1>. QED
  BY <1>1, <1>2, <1>3, <1>4, <1>6, SameBatches

LEMMA SplitSerial ==
  ASSUME Shape, Serial, NEW w \in Worker, OthersOff(w), SplitBatch(w)
  PROVE  Serial'
<1>1. PICK c, todo : c = task[w].sha /\ todo = task[w].todo
  OBVIOUS
<1>2. PICK new : new = <<SubSeq(Head(todo), 1, Len(Head(todo)) \div 2),
                         SubSeq(Head(todo), Len(Head(todo)) \div 2 + 1, Len(Head(todo)))>> \o Tail(todo)
  OBVIOUS
<1>3. /\ task[w].pc = "loop" /\ Exists /\ todo # <<>> /\ Len(Head(todo)) > 1
      /\ Step(w, "loop", new, 0)
      /\ UNCHANGED <<status, ingest, commit, stored, used>>
  BY <1>1, <1>2 DEF SplitBatch, HasBatch, Current, record
<1>4. Remaining(c, todo)
  BY <1>1, <1>3, InHand
<1>5. /\ new \in Seq(Seq(File)) /\ Once(new)
      /\ \A f : Waits(new, f) <=> Waits(todo, f)
  BY <1>2, <1>3, <1>4, SplitFacts DEF Remaining
<1>6. \A f : Waits(new, f) => f \in Tree[c]
  BY <1>4, <1>5 DEF Remaining
<1>. QED
  BY <1>1, <1>3, <1>5, <1>6, LoopSerial

LEMMA SaveSerial ==
  ASSUME Shape, Serial, NEW w \in Worker, OthersOff(w), SaveBatch(w)
  PROVE  Serial'
<1>1. PICK c, todo, seen, files :
        c = task[w].sha /\ todo = task[w].todo /\ seen = task[w].seen /\ files = Text(ToSet(Head(todo)))
  OBVIOUS
<1>2. PICK t : t = At("loop", c, seen, Tail(todo), 0)
  OBVIOUS
<1>3. /\ task[w].pc = "save" /\ Exists
      /\ stored' = [x \in File \X Sha |->
                      IF x[1] \in files /\ x[2] = c THEN stored[x] + 1 ELSE stored[x]]
      /\ used' = used + task[w].cost
      /\ Become(w, t)
      /\ UNCHANGED <<status, ingest, commit>>
  BY <1>1, <1>2 DEF SaveBatch, Current, Step
<1>4. t.pc = "loop" /\ t.sha = c /\ t.todo = Tail(todo)
  <2>1. PICK rest : rest = Tail(todo)
    OBVIOUS
  <2>2. t = At("loop", c, seen, rest, 0)
    BY <1>2, <2>1
  <2>3. t.pc = "loop" /\ t.sha = c /\ t.todo = rest
    BY <2>2, AtFacts
  <2>. QED
    BY <2>1, <2>3, Zenon
<1>5. /\ c \in Sha /\ c # None /\ ingest = c /\ status \notin {"none", "ready"}
      /\ Clean(c) /\ Remaining(c, todo) /\ stored \in [File \X Sha -> Nat]
  BY <1>1, <1>3, InHand DEF Serial
<1>6. todo # <<>> /\ task[w].cost \in 0 .. Cap - used /\ used \in 0 .. Cap
  BY <1>1, <1>3 DEF Serial, Pursued
<1>7. /\ Tail(todo) \in Seq(Seq(File)) /\ Once(Tail(todo))
      /\ \A f : Waits(todo, f) <=> f \in ToSet(Head(todo)) \/ Waits(Tail(todo), f)
      /\ \A f \in ToSet(Head(todo)) : ~Waits(Tail(todo), f)
  BY <1>5, <1>6, TailFacts DEF Remaining
<1>8. used' \in 0 .. Cap
  <2>1. PICK k : k = task[w].cost
    OBVIOUS
  <2>2. k \in 0 .. Cap - used /\ used' = used + k
    BY <1>3, <1>6, <2>1
  <2>. QED
    BY <1>6, <2>2, BoundsAssumption
<1>9. Tree[c] \subseteq File
  BY <1>5 DEF File
<1>10. \A f \in files : f \in Text(Tree[c]) /\ f \in ToSet(Head(todo)) /\ f \in File
  <2>1. \A f \in files : f \in ToSet(Head(todo)) /\ Price[f] > 0
    BY <1>1 DEF Text
  <2>2. \A f \in files : f \in Tree[c]
    BY <1>5, <1>7, <2>1 DEF Remaining
  <2>. QED
    BY <1>9, <2>1, <2>2 DEF Text
<1>11. ASSUME NEW f \in File, NEW s \in Sha
       PROVE  stored'[<<f, s>>] = IF f \in files /\ s = c THEN stored[<<f, s>>] + 1 ELSE stored[<<f, s>>]
  BY <1>3, <1>11
<1>12. stored' \in [File \X Sha -> Nat]
  BY <1>3, <1>5
<1>13. \A f \in Text(Tree[c]) : f \in File /\ stored'[<<f, c>>] = IF Waits(Tail(todo), f) THEN 0 ELSE 1
  <2> SUFFICES ASSUME NEW f \in Text(Tree[c])
               PROVE  f \in File /\ stored'[<<f, c>>] = IF Waits(Tail(todo), f) THEN 0 ELSE 1
    OBVIOUS
  <2>1. f \in Tree[c] /\ f \in File /\ Price[f] > 0
    BY <1>9 DEF Text
  <2>2. stored[<<f, c>>] = IF Waits(todo, f) THEN 0 ELSE 1
    BY <1>5 DEF Remaining
  <2>3. stored'[<<f, c>>] = IF f \in files THEN stored[<<f, c>>] + 1 ELSE stored[<<f, c>>]
    BY <1>5, <1>11, <2>1
  <2>4. f \in files <=> f \in ToSet(Head(todo))
    BY <1>1, <2>1 DEF Text
  <2>5. CASE f \in ToSet(Head(todo))
    <3>1. Waits(todo, f) /\ ~Waits(Tail(todo), f)
      BY <1>7, <2>5
    <3>. QED
      BY <2>1, <2>2, <2>3, <2>4, <2>5, <3>1
  <2>6. CASE f \notin ToSet(Head(todo))
    <3>1. Waits(todo, f) <=> Waits(Tail(todo), f)
      BY <1>7, <2>6
    <3>. QED
      BY <2>1, <2>2, <2>3, <2>4, <2>6, <3>1
  <2>. QED
    BY <2>5, <2>6
<1>14. Remaining(c, Tail(todo))'
  <2>1. \A f : Waits(Tail(todo), f) => f \in Tree[c]
    BY <1>5, <1>7 DEF Remaining
  <2>. QED
    BY <1>7, <1>13, <2>1 DEF Remaining
<1>15. Clean(c)'
  <2>1. ASSUME NEW f \in File, NEW s \in Sha, NEW m, m = IF s = c /\ f \in Text(Tree[s]) THEN 1 ELSE 0
        PROVE  stored'[<<f, s>>] <= m
    <3>1. CASE s = c /\ f \in Text(Tree[c])
      BY <1>13, <2>1, <3>1
    <3>2. CASE ~(s = c /\ f \in Text(Tree[c]))
      <4>1. stored'[<<f, s>>] = stored[<<f, s>>]
        BY <1>10, <1>11, <3>2
      <4>2. stored[<<f, s>>] = 0
        BY <1>5, <3>2, CleanMeans
      <4>3. m = 0
        BY <2>1, <3>2
      <4>. QED
        BY <4>1, <4>2, <4>3
    <3>. QED
      BY <3>1, <3>2
  <2>. QED
    BY <2>1, Zenon DEF Clean
<1>16. Pursued(t)'
  <2>1. PICK rest : rest = Tail(todo)
    OBVIOUS
  <2>2. Remaining(c, rest)' /\ t.todo = rest
    BY <1>4, <1>14, <2>1 DEF Remaining
  <2>. QED
    BY <1>3, <1>4, <1>5, <2>2 DEF Pursued
<1>17. (ingest # None => Clean(ingest))'
  BY <1>3, <1>5, <1>15
<1>. QED
  BY <1>3, <1>5, <1>8, <1>12, <1>16, <1>17, MoveSerial

LEMMA CompleteSerial ==
  ASSUME Shape, Serial, NEW w \in Worker, OthersOff(w), Complete(w)
  PROVE  Serial'
<1>1. PICK c : c = task[w].sha
  OBVIOUS
<1>2. /\ task[w].pc = "loop" /\ task[w].todo = <<>> /\ Exists
      /\ commit' = c /\ ingest' = None /\ Become(w, Idle)
      /\ UNCHANGED <<stored, used>>
  BY <1>1 DEF Complete
<1>3. /\ c \in Sha /\ Clean(c) /\ Remaining(c, <<>>) /\ stored \in [File \X Sha -> Nat]
      /\ used \in 0 .. Cap
  BY <1>1, <1>2, InHand DEF Serial
<1>4. \A f : ~Waits(<<>>, f)
  BY DEF Waits
<1>5. ASSUME NEW f \in File, NEW s \in Sha
      PROVE  stored[<<f, s>>] = IF s = c /\ f \in Text(Tree[s]) THEN 1 ELSE 0
  <2>1. CASE s = c /\ f \in Text(Tree[s])
    BY <1>3, <1>4, <2>1 DEF Remaining
  <2>2. CASE ~(s = c /\ f \in Text(Tree[s]))
    BY <1>3, <2>2, CleanMeans
  <2>. QED
    BY <2>1, <2>2
<1>6. Whole(c)
  BY <1>5, Zenon DEF Whole
<1>7. commit' \in Sha /\ Whole(commit)'
  BY <1>2, <1>3, <1>6 DEF Whole
<1>8. (ingest # None => Clean(ingest))'
  BY <1>2
<1>. QED
  BY <1>2, <1>3, <1>7, <1>8, OffFacts, OffPursued, MoveSerial

(* A run ends some other way: the row keeps what it has. *)
LEMMA EndSerial ==
  ASSUME Shape, Serial, NEW w \in Worker, OthersOff(w), Become(w, Idle),
         UNCHANGED <<ingest, commit, stored, used>>,
         status' = status \/ status' # "ready"
  PROVE  Serial'
BY OffFacts, OffPursued, StillSerial

LEMMA FinishSerial ==
  ASSUME Shape, Serial, NEW w \in Worker, OthersOff(w), NEW s \in Answered \ {"ready"}, Finish(w, s)
  PROVE  Serial'
<1>1. status' = status \/ status' # "ready"
  BY DEF Finish
<1>. QED
  BY <1>1, EndSerial DEF Finish

LEMMA SInvInit == Init => SInv
<1> SUFFICES ASSUME Init PROVE SInv
  OBVIOUS
<1>1. PICK running \in SUBSET Worker \ {{}} :
        task = [w \in Worker |-> IF w \in running THEN Idle ELSE Off]
  BY DEF Init
<1>2. \A w \in Worker : task[w] = Idle \/ task[w] = Off
  BY <1>1
<1>3. \A w \in Worker : ~Busy(w) /\ Pursued(task[w])
  BY <1>2, OffFacts DEF Busy
<1>4. stored \in [File \X Sha -> Nat]
  BY DEF Init, Empty
<1>5. used \in 0 .. Cap /\ ingest = None /\ status = "none" /\ head \in Sha
  BY DEF Init
<1>6. Serial
  BY <1>3, <1>4, <1>5 DEF Serial
<1>. QED
  BY <1>5, <1>6, KeptInit DEF SInv

Acts(w) == Work(w) \/ GitHubFails(w) \/ EmbeddingFails(w)

(* Every step of a task is of a worker that is on and stays on. *)
LEMMA ActsMoves ==
  ASSUME NEW w \in Worker, Acts(w)
  PROVE  /\ task[w].pc # "off"
         /\ UNCHANGED head
         /\ \/ UNCHANGED task
            \/ \E t : Become(w, t) /\ t.pc # "off"
<1> DEFINE Moves == \E t : Become(w, t) /\ t.pc # "off"
<1>1. ASSUME Become(w, Idle) PROVE Moves
  BY <1>1, OffFacts
<1>2. ASSUME NEW pc \in {"read", "prepare", "loop", "embed", "save"}, NEW sha, NEW seen, NEW todo, NEW cost,
             Become(w, At(pc, sha, seen, todo, cost))
      PROVE  Moves
  BY <1>2, AtFacts
<1>3. ASSUME NEW pc \in {"loop", "embed", "save"}, NEW todo, NEW cost, Step(w, pc, todo, cost)
      PROVE  Moves
  <2>1. PICK sha, seen : sha = task[w].sha /\ seen = task[w].seen
    OBVIOUS
  <2>. QED
    BY <1>2, <1>3, <2>1 DEF Step
<1>4. \A s : Finish(w, s) => UNCHANGED head /\ Become(w, Idle)
  BY DEF Finish
<1> HIDE DEF Moves
<1>5. CASE Start(w)
  <2>1. CASE ~Exists
    BY <1>5, <2>1 DEF Start
  <2>2. CASE Exists
    <3>1. PICK seen : seen = ingest
      OBVIOUS
    <3>2. Become(w, At("read", None, seen, <<>>, 0))
      BY <1>5, <2>2, <3>1 DEF Start
    <3>. QED
      BY <1>2, <1>5, <3>2 DEF Start, Moves
  <2>. QED
    BY <2>1, <2>2
<1>6. CASE ReadHead(w)
  <2>1. PICK sha, seen : sha = head /\ seen = task[w].seen
    OBVIOUS
  <2>2. Become(w, At("prepare", sha, seen, <<>>, 0))
    BY <1>6, <2>1 DEF ReadHead
  <2>. QED
    BY <1>2, <1>6, <2>2 DEF ReadHead, Moves
<1>7. CASE Prepare(w)
  <2>1. PICK todo : Step(w, "loop", todo, 0)
    BY <1>7 DEF Prepare
  <2>. QED
    BY <1>3, <1>7, <2>1 DEF Prepare, Moves
<1>8. CASE SkipBatch(w)
  <2>1. PICK todo : Step(w, "loop", todo, 0)
    BY <1>8 DEF SkipBatch
  <2>. QED
    BY <1>3, <1>8, <2>1 DEF SkipBatch, HasBatch, Moves
<1>9. CASE AdmitBatch(w)
  <2>1. PICK todo : Step(w, "embed", todo, 0)
    BY <1>9 DEF AdmitBatch
  <2>. QED
    BY <1>3, <1>9, <2>1 DEF AdmitBatch, HasBatch, Moves
<1>10. CASE SplitBatch(w)
  <2>1. PICK todo : Step(w, "loop", todo, 0)
    BY <1>10 DEF SplitBatch
  <2>. QED
    BY <1>3, <1>10, <2>1 DEF SplitBatch, HasBatch, Moves
<1>11. CASE EmbedSome(w)
  <2>1. PICK pc, todo, c : pc \in {"embed", "save"} /\ Step(w, pc, todo, c)
    BY <1>11 DEF EmbedSome
  <2>. QED
    BY <1>3, <1>11, <2>1 DEF EmbedSome, Moves
<1>12. CASE SaveBatch(w)
  <2>1. PICK todo : Step(w, "loop", todo, 0)
    BY <1>12 DEF SaveBatch
  <2>. QED
    BY <1>3, <1>12, <2>1 DEF SaveBatch, Moves
<1>13. CASE Complete(w)
  BY <1>1, <1>13 DEF Complete, Moves
<1>14. CASE BudgetStop(w)
  BY <1>1, <1>4, <1>14 DEF BudgetStop, Moves
<1>15. CASE RowGone(w)
  BY <1>1, <1>15 DEF RowGone, Moves
<1>16. CASE GitHubFails(w)
  BY <1>1, <1>4, <1>16 DEF GitHubFails, Moves
<1>17. CASE EmbeddingFails(w)
  BY <1>1, <1>4, <1>17 DEF EmbeddingFails, Moves
<1>. QED
  BY <1>5, <1>6, <1>7, <1>8, <1>9, <1>10, <1>11, <1>12, <1>13, <1>14, <1>15, <1>16, <1>17 DEF Acts, Work

LEMMA ActsSerial ==
  ASSUME Shape, head \in Sha, Serial, NEW w \in Worker, OthersOff(w), Acts(w)
  PROVE  Serial'
<1>1. CASE BudgetStop(w)
  <2>1. PICK s \in {"error", "paused"} : Finish(w, s)
    BY <1>1 DEF BudgetStop
  <2>. QED
    BY <2>1, FinishSerial DEF Answered
<1>2. CASE RowGone(w)
  BY <1>2, EndSerial DEF RowGone, record
<1>3. CASE GitHubFails(w)
  <2>1. PICK s \in {"rate_limited", "error"} : Finish(w, s)
    BY <1>3 DEF GitHubFails
  <2>. QED
    BY <2>1, FinishSerial DEF Answered
<1>4. CASE EmbeddingFails(w)
  <2>1. PICK s \in {"paused", "error"} : Finish(w, s)
    BY <1>4 DEF EmbeddingFails
  <2>. QED
    BY <2>1, FinishSerial DEF Answered
<1>. QED
  BY <1>1, <1>2, <1>3, <1>4, StartSerial, ReadHeadSerial, PrepareSerial, SkipSerial, AdmitSerial,
     SplitSerial, EmbedSerial, SaveSerial, CompleteSerial DEF Acts, Work

LEMMA SInvNext == SInv /\ [Next]_vars => SInv'
<1> SUFFICES ASSUME SInv, [Next]_vars PROVE SInv'
  OBVIOUS
<1>1. Kept' /\ Shape /\ head \in Sha /\ (Alone => Serial)
  BY KeptNext DEF SInv, Kept
<1>2. ASSUME UNCHANGED task, head' \in Sha, Serial => Serial' PROVE SInv'
  BY <1>1, <1>2 DEF SInv, Alone
<1>3. ASSUME NEW w \in Worker, NEW t, Become(w, t), t.pc # "off", task[w].pc # "off", head' \in Sha,
             Serial /\ OthersOff(w) => Serial'
      PROVE  SInv'
  <2>1. Alone' => Alone /\ OthersOff(w)
    BY <1>1, <1>3, StaysAlone
  <2>. QED
    BY <1>1, <1>3, <2>1 DEF SInv
<1>4. used \in 0 .. Cap => used \in 0 .. used /\ 0 \in 0 .. used
  BY BoundsAssumption
<1>5. CASE Ask
  <2>1. Serial => Serial'
    BY <1>1, <1>4, <1>5, WorldSerial DEF Ask, Serial
  <2>. QED
    BY <1>1, <1>2, <1>5, <2>1 DEF Ask
<1>6. CASE Dispatch
  <2>1. Serial => Serial'
    BY <1>1, <1>4, <1>6, WorldSerial DEF Dispatch, record, Serial
  <2>. QED
    BY <1>1, <1>2, <1>6, <2>1 DEF Dispatch
<1>7. CASE DispatchRefused
  <2>1. Serial => Serial'
    BY <1>1, <1>4, <1>7, WorldSerial DEF DispatchRefused, Exists, Serial
  <2>. QED
    BY <1>1, <1>2, <1>7, <2>1 DEF DispatchRefused
<1>14. CASE DispatchUnclear
  <2>1. Serial => Serial'
    BY <1>1, <1>4, <1>14, WorldSerial DEF DispatchUnclear, Exists, Serial
  <2>. QED
    BY <1>1, <1>2, <1>14, <2>1 DEF DispatchUnclear
<1>8. CASE Delete
  <2>1. Serial => Serial'
    BY <1>1, <1>4, <1>8, WorldSerial DEF Delete, Serial
  <2>. QED
    BY <1>1, <1>2, <1>8, <2>1 DEF Delete
<1>9. ASSUME NEW w \in Worker, Acts(w) PROVE SInv'
  <2>1. task[w].pc # "off" /\ head' \in Sha
    BY <1>1, <1>9, ActsMoves
  <2>2. Serial /\ OthersOff(w) => Serial'
    BY <1>1, <1>9, ActsSerial
  <2>3. CASE UNCHANGED task
    <3>1. Alone' => Alone /\ OthersOff(w)
      BY <2>1, <2>3, OffFacts DEF Alone, OthersOff
    <3>. QED
      BY <1>1, <2>1, <2>2, <3>1 DEF SInv
  <2>4. ASSUME NEW t, Become(w, t), t.pc # "off" PROVE SInv'
    BY <1>3, <2>1, <2>2, <2>4
  <2>. QED
    BY <1>9, <2>3, <2>4, ActsMoves
<1>10. CASE Die
  <2>1. head' \in Sha /\ UNCHANGED <<status, ingest, commit, stored, used>>
    BY <1>1, <1>10 DEF Die, record
  <2>2. CASE UNCHANGED task
    <3>1. Serial => Serial'
      BY <1>1, <1>4, <2>1, <2>2, WorldSerial DEF Serial
    <3>. QED
      BY <1>2, <2>1, <2>2, <3>1
  <2>3. ASSUME NEW w \in Worker, Busy(w), Become(w, Idle) PROVE SInv'
    <3>1. Serial /\ OthersOff(w) => Serial'
      BY <1>1, <2>1, <2>3, EndSerial
    <3>. QED
      BY <1>3, <2>1, <2>3, <3>1, OffFacts DEF Busy
  <2>. QED
    BY <1>10, <2>2, <2>3 DEF Die
<1>11. CASE Push
  <2>1. Serial => Serial'
    BY <1>1, <1>4, <1>11, WorldSerial DEF Push, record, Serial
  <2>. QED
    BY <1>2, <1>11, <2>1 DEF Push
<1>12. CASE NewDay
  <2>1. Serial => Serial'
    BY <1>1, <1>4, <1>12, WorldSerial DEF NewDay, record, Serial
  <2>. QED
    BY <1>1, <1>2, <1>12, <2>1 DEF NewDay
<1>13. CASE UNCHANGED vars
  <2>1. Serial => Serial'
    BY <1>1, <1>4, <1>13, WorldSerial DEF vars, Serial
  <2>. QED
    BY <1>1, <1>2, <1>13, <2>1 DEF vars
<1>. QED
  BY <1>5, <1>6, <1>7, <1>8, <1>9, <1>10, <1>11, <1>12, <1>13, <1>14 DEF Next, Acts

(* With one task at a time, what a run is about to be billed for never     *)
(* takes the ledger past the day's allowance, whatever the files cost and  *)
(* however the batches are split (check_budget, ingest_repo).              *)
THEOREM AllowanceHolds == Spec => []CapHolds
<1>1. SInv => CapHolds
  <2> SUFFICES ASSUME SInv, Alone PROVE used <= Cap /\ \A w \in Worker : task[w].pc \in {"embed", "save"} => used + task[w].cost <= Cap
    BY DEF CapHolds
  <2>1. used \in 0 .. Cap /\ Cap \in Nat /\ \A w \in Worker : Pursued(task[w])
    BY BoundsAssumption DEF SInv, Serial
  <2>2. ASSUME NEW w \in Worker, task[w].pc \in {"embed", "save"} PROVE used + task[w].cost <= Cap
    <3>1. PICK k : k = task[w].cost
      OBVIOUS
    <3>2. k \in 0 .. Cap - used
      <4>1. CASE task[w].pc = "save"
        BY <2>1, <3>1, <4>1 DEF Pursued
      <4>2. CASE task[w].pc = "embed"
        <5>1. PICK e : e = Estimate(Head(task[w].todo))
          OBVIOUS
        <5>2. e \in 0 .. Cap - used /\ k \in 0 .. e
          BY <2>1, <3>1, <4>2, <5>1 DEF Pursued, Fits
        <5>. QED
          BY <2>1, <5>2
      <4>. QED
        BY <2>2, <4>1, <4>2
    <3>. QED
      BY <2>1, <3>1, <3>2
  <2>. QED
    BY <2>1, <2>2
<1>. QED
  BY SInvInit, SInvNext, <1>1, PTL DEF Spec

(* With one task at a time, after any kills, failures, pauses and pushes,  *)
(* the chunks of an unfinished run are of the commit ingest_sha names, one *)
(* copy each: what a run resumes it need not pay for again (_prepare_run). *)
THEOREM ResumesWhatItHas == Spec => []PartIsResumable
<1>1. SInv => PartIsResumable
  <2> SUFFICES ASSUME SInv, Alone, ingest # None, NEW f \in File, NEW s \in Sha
               PROVE  stored[<<f, s>>] <= IF s = ingest /\ f \in Tree[s] THEN 1 ELSE 0
    BY Zenon DEF PartIsResumable
  <2>1. Clean(ingest) /\ stored \in [File \X Sha -> Nat]
    BY DEF SInv, Serial
  <2>2. /\ stored[<<f, s>>] \in {0, 1}
        /\ s # ingest => stored[<<f, s>>] = 0
        /\ f \notin Text(Tree[s]) => stored[<<f, s>>] = 0
    BY <2>1, CleanMeans
  <2>3. f \in Text(Tree[s]) => f \in Tree[s]
    BY DEF Text
  <2>4. CASE s = ingest /\ f \in Tree[s]
    BY <2>2, <2>4
  <2>5. CASE ~(s = ingest /\ f \in Tree[s])
    <3>1. stored[<<f, s>>] = 0
      BY <2>2, <2>3, <2>5
    <3>. QED
      BY <2>5, <3>1
  <2>. QED
    BY <2>4, <2>5
<1>. QED
  BY SInvInit, SInvNext, <1>1, PTL DEF Spec

(* With one task at a time, a ready index holds every text of the commit   *)
(* it names exactly once and nothing of another, whatever failed, died,    *)
(* paused, resumed or was pushed on the way (_prepare_run, ingest_repo).   *)
THEOREM ReadyMeansWhole == Spec => []ReadyIsWhole
<1>1. SInv => ReadyIsWhole
  <2> SUFFICES ASSUME SInv, Alone, status = "ready" PROVE Whole(commit)
    BY Zenon DEF ReadyIsWhole, Whole
  <2>. QED
    BY DEF SInv, Serial
<1>. QED
  BY SInvInit, SInvNext, <1>1, PTL DEF Spec
=============================================================================
