---------------------------- MODULE ForgeProofs ----------------------------
(***************************************************************************)
(* What holds of Forge.                                                    *)
(*                                                                         *)
(* For any number of runs, requests and workers: no run is forgotten, and  *)
(* what was charged is in the ledger or with the worker that will write it *)
(* there.  For any steps a palette offers, any columns and any bounds: a   *)
(* run that succeeds and the script exported from the same workflow do the *)
(* same, where they read the same.  The last is an argument in four parts: *)
(* sorting puts each step once, in canonical order; what the loop of a run *)
(* has prepared after m steps is what the blocks of a script for those m   *)
(* steps say, by induction on m along the fold; a successful run passed    *)
(* every check the script makes; and only a sequence that was validated    *)
(* whole is ever stored.                                                   *)
(***************************************************************************)
EXTENDS MCBackground, FunctionTheorems, SequenceTheorems, Totals

(***************************************************************************)
(* Forge.  A run that is stored and not finished is on its way, for any    *)
(* number of runs, requests and workers, however messages are refused,     *)
(* lost or delivered twice.  RunsArePursued is not inductive by itself:    *)
(* that a request or a worker that gives up a run leaves it with somebody  *)
(* else, or finished, depends on what each of them has in hand (Hands).    *)
(***************************************************************************)

(* Requests and workers have a run in hand from one step of theirs to       *)
(* another, and a worker stores an answer that finishes it.                 *)
Counts ==
  /\ run \in [Run -> {"free", "gone"} \cup Forge!Unfinished \cup Forge!Finished]
  /\ queue \in [Run -> Nat]
  /\ kills \in Nat

Hands ==
  /\ req \in [Request -> Forge!ReqType] /\ job \in [Processor -> Forge!JobType]
  /\ \A q \in Request : req[q].pc \in {"dispatch", "refuse"} => req[q].run \in Run
  /\ \A q \in Request : req[q].pc \in {"idle", "insert"} => req[q].run = None
  /\ \A w \in Processor : job[w].pc # "idle" => job[w].run \in Run
  /\ \A w \in Processor : job[w].pc = "store" => job[w].outcome \in Forge!Finished

FInv == Counts /\ Hands /\ Forge!RunsArePursued

-----------------------------------------------------------------------------
LEMMA RecordMade ==
  ASSUME NEW P, NEW R, NEW O, NEW p \in P, NEW r \in R, NEW o \in O, NEW n \in Nat
  PROVE  [pc |-> p, run |-> r, outcome |-> o, tokens |-> n] \in [pc : P, run : R, outcome : O, tokens : Nat]
OBVIOUS

LEMMA JobMade ==
  /\ \A r \in Run : [pc |-> "work", run |-> r, outcome |-> "", tokens |-> 0] \in Forge!JobType
  /\ \A r \in Run, o \in Forge!Finished, n \in Nat :
       [pc |-> "store", run |-> r, outcome |-> o, tokens |-> n] \in Forge!JobType
  /\ [pc |-> "idle", run |-> None, outcome |-> "", tokens |-> 0] \in Forge!JobType
<1>1. 0 \in Nat /\ \A p \in {"idle", "work", "store"} : p \in {"idle", "work", "store"}
  OBVIOUS
<1>2. \A r \in Run \cup {None} : r \in Run \cup {None}
  OBVIOUS
<1>. QED
  BY <1>1, <1>2, RecordMade, Zenon DEF Forge!JobType

LEMMA FreeHands ==
  /\ Forge!Free.pc = "idle" /\ Forge!Free.run = None /\ Forge!Free.tokens = 0
  /\ Forge!Free \in Forge!JobType
<1>1. Forge!Free \in Forge!JobType
  BY JobMade, Zenon DEF Forge!Free
<1>2. Forge!Free.pc = "idle" /\ Forge!Free.run = None /\ Forge!Free.tokens = 0
  BY Zenon DEF Forge!Free
<1>. QED
  BY <1>1, <1>2

(* The states a run, a request and a worker start in. *)
LEMMA InitOK == Forge!Init => FInv
<1> SUFFICES ASSUME Forge!Init PROVE FInv
  OBVIOUS
<1>1. Counts
  BY DEF Forge!Init, Counts
<1>2. Forge!Idle \in Forge!ReqType
  BY DEF Forge!Idle, Forge!ReqType
<1>3. Hands
  BY <1>2, FreeHands DEF Forge!Init, Hands, Forge!Idle
<1>4. Forge!RunsArePursued
  BY DEF Forge!Init, Forge!RunsArePursued, Forge!Unfinished
<1> QED
  BY <1>1, <1>3, <1>4 DEF FInv

(* The learner's own requests. *)
LEMMA LearnerKeeps ==
  ASSUME FInv, Forge!DeleteDataset \/ Forge!ReplaceSteps \/ Forge!DeleteWorkflow
  PROVE  FInv'
<1>1. CASE Forge!DeleteDataset \/ Forge!ReplaceSteps
  <2>1. UNCHANGED <<run, queue, req, job, kills>>
    BY <1>1 DEF Forge!DeleteDataset, Forge!ReplaceSteps, Forge!history
  <2> QED
    BY <2>1 DEF FInv, Counts, Hands, Forge!RunsArePursued, Forge!Pursued
<1>2. CASE Forge!DeleteWorkflow
  <2>1. UNCHANGED <<queue, req, job, kills>>
    BY <1>2 DEF Forge!DeleteWorkflow, Forge!history
  <2>2. run' \in [Run -> {"free", "gone"}]
    BY <1>2 DEF Forge!DeleteWorkflow
  <2>3. Counts' /\ Hands'
    BY <2>1, <2>2 DEF FInv, Counts, Hands
  <2>4. Forge!RunsArePursued'
    BY <2>2 DEF Forge!RunsArePursued, Forge!Unfinished
  <2> QED
    BY <2>3, <2>4 DEF FInv
<1> QED
  BY <1>1, <1>2

(* A process that dies is counted, and what it had in hand is let go. *)
LEMMA KillKeeps ==
  ASSUME FInv, Forge!Kill
  PROVE  FInv'
<1>1. Forge!Idle \in Forge!ReqType
  BY DEF Forge!Idle, Forge!ReqType
<1>2. Counts'
  BY DEF Forge!Kill, FInv, Counts, Forge!table
<1>3. Hands'
  <2>1. CASE \E q \in Request : req' = [req EXCEPT ![q] = Forge!Idle] /\ job' = job
    BY <1>1, <2>1 DEF FInv, Hands, Forge!Idle
  <2>2. CASE \E w \in Processor : job' = [job EXCEPT ![w] = Forge!Free] /\ req' = req
    <3>1. PICK w \in Processor : job' = [job EXCEPT ![w] = Forge!Free] /\ req' = req
      BY <2>2
    <3>2. \A v \in Processor : job'[v] = IF v = w THEN Forge!Free ELSE job[v]
      BY <3>1 DEF FInv, Hands
    <3>. QED
      BY <3>1, <3>2, FreeHands DEF FInv, Hands
  <2> QED
    BY <2>1, <2>2 DEF Forge!Kill
<1>4. Forge!RunsArePursued'
  BY <1>2 DEF Forge!Kill, FInv, Counts, Forge!RunsArePursued
<1> QED
  BY <1>2, <1>3, <1>4 DEF FInv

-----------------------------------------------------------------------------
(* start_run: a request begins with nothing in hand, takes up the run it    *)
(* inserts, and lets go of it with a message or a failed row.               *)
LEMMA StartRunKeeps ==
  ASSUME FInv, NEW q \in Request, Forge!StartRun(q), None \notin Run
  PROVE  FInv'
<1> DEFINE new == [pc |-> "insert", run |-> None]
<1>1. new \in Forge!ReqType
  BY DEF Forge!ReqType
<1>2. req' = [req EXCEPT ![q] = new] /\ req[q] = Forge!Idle /\ UNCHANGED <<run, queue, job, kills>>
  BY DEF Forge!StartRun, Forge!table
<1>3. Counts' /\ Hands'
  BY <1>1, <1>2 DEF FInv, Counts, Hands
<1>4. Forge!RunsArePursued'
  BY <1>2 DEF FInv, Hands, Forge!RunsArePursued, Forge!Pursued, Forge!Idle
<1> QED
  BY <1>3, <1>4 DEF FInv

LEMMA InsertKeeps ==
  ASSUME FInv, NEW q \in Request, Forge!Insert(q), None \notin Run
  PROVE  FInv'
<1>1. CASE flow.there
  <2>1. PICK r \in Run : /\ run[r] = "free" /\ run' = [run EXCEPT ![r] = "queued"]
                         /\ req' = [req EXCEPT ![q] = [pc |-> "dispatch", run |-> r]]
    BY <1>1 DEF Forge!Insert
  <2>2. UNCHANGED <<queue, job, kills>> /\ req[q].run = None
    BY DEF Forge!Insert, Forge!history, FInv, Hands
  <2>3. [pc |-> "dispatch", run |-> r] \in Forge!ReqType
    BY DEF Forge!ReqType
  <2>4. Counts'
    BY <2>1, <2>2 DEF FInv, Counts, Forge!Unfinished
  <2>5. Hands'
    BY <2>1, <2>2, <2>3 DEF FInv, Hands
  <2>6. Forge!RunsArePursued'
    <3> SUFFICES ASSUME NEW s \in Run,
                        run'[s] \in Forge!Unfinished PROVE Forge!Pursued(s)' \/ kills' > 0
      BY DEF Forge!RunsArePursued
    <3>1. \A p \in Request : req'[p].run = IF p = q THEN r ELSE req[p].run
      BY <2>1 DEF FInv, Hands
    <3>2. CASE s = r
      BY <3>1, <3>2 DEF Forge!Pursued
    <3>3. CASE s # r
      <4>1. Forge!Pursued(s) \/ kills > 0
        BY <2>1, <3>3 DEF FInv, Counts, Forge!RunsArePursued
      <4>2. s # None
        OBVIOUS
      <4>. QED
        BY <2>2, <3>1, <4>1, <4>2 DEF Forge!Pursued
    <3>. QED
      BY <3>2, <3>3
  <2> QED
    BY <2>4, <2>5, <2>6 DEF FInv
<1>2. CASE ~ flow.there
  <2>1. req' = [req EXCEPT ![q] = Forge!Idle] /\ UNCHANGED <<run, queue, job, kills>>
          /\ req[q].run = None
    BY <1>2 DEF Forge!Insert, Forge!history, FInv, Hands
  <2>2. Forge!Idle \in Forge!ReqType
    BY DEF Forge!Idle, Forge!ReqType
  <2>3. Counts' /\ Hands'
    BY <2>1, <2>2 DEF FInv, Counts, Hands, Forge!Idle
  <2>4. Forge!RunsArePursued'
    <3>1. \A p \in Request : req'[p].run = IF p = q THEN None ELSE req[p].run
      BY <2>1 DEF FInv, Hands, Forge!Idle
    <3>. QED
      BY <2>1, <3>1 DEF FInv, Forge!RunsArePursued, Forge!Pursued
  <2> QED
    BY <2>3, <2>4 DEF FInv
<1> QED
  BY <1>1, <1>2

(* Whatever becomes of the message, either it is there or the request is to *)
(* mark the row.                                                            *)
LEMMA DispatchKeeps ==
  ASSUME FInv, NEW q \in Request, Forge!Dispatch(q) \/ Forge!DispatchBadly(q)
  PROVE  FInv'
<1> DEFINE r == req[q].run
           held == [pc |-> "refuse", run |-> r]
<1>1. req[q].pc = "dispatch" /\ r \in Run /\ UNCHANGED <<run, job, kills>>
  BY DEF Forge!Dispatch, Forge!DispatchBadly, Forge!table, Forge!history, FInv, Hands
<1>2. PICK n \in {0, 1, 2} :
        /\ queue' = [queue EXCEPT ![r] = @ + n]
        /\ \/ n > 0 /\ req' = [req EXCEPT ![q] = Forge!Idle]
           \/ req' = [req EXCEPT ![q] = held]
  BY DEF Forge!Dispatch, Forge!DispatchBadly, Forge!Sent
<1>3. Forge!Idle \in Forge!ReqType /\ held \in Forge!ReqType
  BY <1>1 DEF Forge!Idle, Forge!ReqType
<1>4. Counts'
  BY <1>1, <1>2 DEF FInv, Counts
<1>5. Hands'
  BY <1>1, <1>2, <1>3 DEF FInv, Hands, Forge!Idle
<1>6. ASSUME NEW s \in Run, run'[s] \in Forge!Unfinished
      PROVE  Forge!Pursued(s)' \/ kills' > 0
  <2>1. CASE s = r
    BY <1>1, <1>2, <2>1 DEF FInv, Counts, Hands, Forge!Pursued
  <2>2. CASE s # r
    <3>1. Forge!Pursued(s) \/ kills > 0
      BY <1>1, <1>6 DEF FInv, Forge!RunsArePursued
    <3> QED
      BY <1>1, <1>2, <2>2, <3>1 DEF FInv, Counts, Hands, Forge!Pursued
  <2> QED
    BY <2>1, <2>2
<1> QED
  BY <1>4, <1>5, <1>6 DEF FInv, Forge!RunsArePursued

LEMMA RefuseKeeps ==
  ASSUME FInv, NEW q \in Request, Forge!Refuse(q)
  PROVE  FInv'
<1> DEFINE r == req[q].run
<1>1. /\ r \in Run /\ UNCHANGED <<queue, job, kills>>
      /\ req' = [req EXCEPT ![q] = Forge!Idle]
      /\ run' = IF run[r] = "gone" THEN run ELSE [run EXCEPT ![r] = "failed"]
  BY DEF Forge!Refuse, Forge!history, FInv, Hands
<1>2. Forge!Idle \in Forge!ReqType
  BY DEF Forge!Idle, Forge!ReqType
<1>3. Counts'
  BY <1>1 DEF FInv, Counts, Forge!Finished
<1>4. Hands'
  BY <1>1, <1>2 DEF FInv, Hands, Forge!Idle
<1>5. ASSUME NEW s \in Run, run'[s] \in Forge!Unfinished
      PROVE  Forge!Pursued(s)' \/ kills' > 0
  <2>1. s # r /\ run[s] \in Forge!Unfinished
    BY <1>1, <1>5 DEF FInv, Counts, Forge!Unfinished
  <2> QED
    BY <1>1, <2>1 DEF FInv, Hands, Forge!RunsArePursued, Forge!Pursued
<1> QED
  BY <1>3, <1>4, <1>5 DEF FInv, Forge!RunsArePursued

-----------------------------------------------------------------------------
(* execute_run: a worker takes up a run with its message, and stores an     *)
(* answer before it lets go of it.                                          *)
LEMMA TakeKeeps ==
  ASSUME FInv, NEW w \in Processor, NEW r \in Run, Forge!Take(w, r), None \notin Run
  PROVE  FInv'
<1> DEFINE taken == [pc |-> "work", run |-> r, outcome |-> "", tokens |-> 0]
<1>1. /\ job[w] = Forge!Free /\ queue[r] > 0 /\ queue' = [queue EXCEPT ![r] = @ - 1]
      /\ UNCHANGED <<req, kills>>
  BY Zenon DEF Forge!Take, Forge!history
<1>2. CASE run[r] = "gone"
  <2>1. UNCHANGED <<run, job>>
    BY <1>2 DEF Forge!Take
  <2>2. Counts' /\ Hands'
    BY <1>1, <2>1 DEF FInv, Counts, Hands
  <2>3. ASSUME NEW s \in Run, run'[s] \in Forge!Unfinished
        PROVE  Forge!Pursued(s)' \/ kills' > 0
    <3>1. s # r /\ run[s] \in Forge!Unfinished
      BY <1>2, <2>1, <2>3 DEF Forge!Unfinished
    <3> QED
      BY <1>1, <2>1, <3>1 DEF FInv, Counts, Forge!RunsArePursued, Forge!Pursued
  <2> QED
    BY <2>2, <2>3 DEF FInv, Forge!RunsArePursued
<1>3. CASE run[r] # "gone"
  <2>1. run' = [run EXCEPT ![r] = "running"] /\ job' = [job EXCEPT ![w] = taken]
    BY <1>3, Zenon DEF Forge!Take
  <2>2. taken \in Forge!JobType
    BY JobMade, Zenon
  <2>3. Counts'
    <3>1. run' \in [Run -> {"free", "gone"} \cup Forge!Unfinished \cup Forge!Finished]
      BY <2>1, Zenon DEF FInv, Counts, Forge!Unfinished
    <3>2. queue' \in [Run -> Nat] /\ kills' \in Nat
      BY <1>1 DEF FInv, Counts
    <3> QED
      BY <3>1, <3>2 DEF Counts
  <2>4. taken.pc = "work" /\ taken.run = r
    OBVIOUS
  <2> HIDE DEF taken
  <2>5. \A v \in Processor : job'[v] = IF v = w THEN taken ELSE job[v]
    BY <2>1 DEF FInv, Hands
  <2>6. job' \in [Processor -> Forge!JobType]
    BY <2>1, <2>2 DEF FInv, Hands
  <2>7. Hands'
    BY <1>1, <2>4, <2>5, <2>6 DEF FInv, Hands
  <2>8. ASSUME NEW s \in Run, run'[s] \in Forge!Unfinished
        PROVE  Forge!Pursued(s)' \/ kills' > 0
    <3>1. CASE s = r
      BY <2>5, <2>4, <3>1 DEF Forge!Pursued
    <3>2. CASE s # r
      <4>1. run[s] \in Forge!Unfinished /\ queue'[s] = queue[s]
        BY <1>1, <2>1, <2>8, <3>2 DEF FInv, Counts
      <4>2. CASE \E v \in Processor : job[v].run = s
        <5>1. PICK v \in Processor : job[v].run = s
          BY <4>2
        <5>2. v # w
          BY <1>1, <5>1, FreeHands
        <5> QED
          BY <2>5, <5>1, <5>2 DEF Forge!Pursued
      <4>3. CASE ~ \E v \in Processor : job[v].run = s
        BY <1>1, <4>1, <4>3 DEF FInv, Forge!RunsArePursued, Forge!Pursued
      <4> QED
        BY <4>2, <4>3
    <3> QED
      BY <3>1, <3>2
  <2> QED
    BY <2>3, <2>7, <2>8 DEF FInv, Forge!RunsArePursued
<1> QED
  BY <1>2, <1>3

LEMMA WorkKeeps ==
  ASSUME FInv, NEW w \in Processor, Forge!Work(w), flow.cost \in Nat
  PROVE  FInv'
<1>1. UNCHANGED <<run, queue, req, kills>> /\ job[w].pc = "work"
  BY DEF Forge!Work, Forge!table, Forge!history
<1>2. PICK o \in Forge!Finished, t \in Nat : Forge!Outcome(w, o, t)
  BY DEF Forge!Work, Forge!AskModel, Forge!AskVision, Forge!Fails, Forge!Train, Forge!Finished
<1> DEFINE done == [pc |-> "store", run |-> job[w].run, outcome |-> o, tokens |-> t]
<1>3. job' = [job EXCEPT ![w] = done]
  BY <1>2 DEF Forge!Outcome
<1>4. job[w].run \in Run /\ done \in Forge!JobType
  <2>1. job[w].run \in Run
    BY <1>1 DEF FInv, Hands
  <2>. QED
    BY <2>1, JobMade, Zenon
<1>5. Counts' /\ Hands'
  BY <1>1, <1>3, <1>4 DEF FInv, Counts, Hands
<1>6. \A v \in Processor : job'[v].run = job[v].run
  BY <1>3 DEF FInv, Hands
<1>7. Forge!RunsArePursued'
  BY <1>1, <1>6 DEF FInv, Forge!RunsArePursued, Forge!Pursued
<1> QED
  BY <1>5, <1>7 DEF FInv

LEMMA StoreKeeps ==
  ASSUME FInv, NEW w \in Processor, Forge!Store(w)
  PROVE  FInv'
<1> DEFINE r == job[w].run
<1>1. /\ job[w].pc = "store" /\ r \in Run /\ job[w].outcome \in Forge!Finished
      /\ job' = [job EXCEPT ![w] = Forge!Free] /\ UNCHANGED <<queue, req, kills>>
      /\ run' = IF run[r] = "gone" THEN run ELSE [run EXCEPT ![r] = job[w].outcome]
  BY DEF Forge!Store, Forge!history, FInv, Hands
<1>2. \A v \in Processor : job'[v] = IF v = w THEN Forge!Free ELSE job[v]
  BY <1>1 DEF FInv, Hands
<1>3. Counts'
  BY <1>1 DEF FInv, Counts
<1>4. Hands'
  BY <1>1, <1>2, FreeHands DEF FInv, Hands
<1>5. ASSUME NEW s \in Run, run'[s] \in Forge!Unfinished
      PROVE  Forge!Pursued(s)' \/ kills' > 0
  <2>1. s # r /\ run[s] \in Forge!Unfinished
    BY <1>1, <1>5 DEF FInv, Counts, Forge!Unfinished, Forge!Finished
  <2> QED
    BY <1>1, <2>1 DEF FInv, Hands, Forge!RunsArePursued, Forge!Pursued
<1> QED
  BY <1>3, <1>4, <1>5 DEF FInv, Forge!RunsArePursued

-----------------------------------------------------------------------------
LEMMA StepKeeps ==
  ASSUME FInv, flow.cost \in Nat, None \notin Run, [Forge!Next]_Forge!vars
  PROVE  FInv'
<1>1. CASE Forge!DeleteDataset \/ Forge!ReplaceSteps \/ Forge!DeleteWorkflow
  BY <1>1, LearnerKeeps
<1>2. CASE Forge!Kill
  BY <1>2, KillKeeps
<1>3. ASSUME NEW q \in Request, Forge!RequestStep(q) PROVE FInv'
  BY <1>3, StartRunKeeps, InsertKeeps, DispatchKeeps, RefuseKeeps DEF Forge!RequestStep
<1>4. ASSUME NEW w \in Processor, Forge!WorkerStep(w) PROVE FInv'
  BY <1>4, TakeKeeps, WorkKeeps, StoreKeeps DEF Forge!WorkerStep
<1>5. CASE UNCHANGED Forge!vars
  BY <1>5 DEF Forge!vars, Forge!table, Forge!history, FInv, Counts, Hands, Forge!RunsArePursued,
     Forge!Pursued
<1> QED
  BY <1>1, <1>2, <1>3, <1>4, <1>5 DEF Forge!Next

(***************************************************************************)
(* What was charged is in the ledger or with the worker that will write it *)
(* (Recorded).  For the cap the ledger is what a run was admitted with:    *)
(* nothing else is under way until the run it was admitted for ends        *)
(* (OneRun), so nothing comes between the check and the charge (Budgeted). *)
(***************************************************************************)
Quiet == ~crowded /\ kills = 0 /\ lost = 0 /\ flow.there

Active ==
  \/ \E r \in Run : run[r] \in Forge!Unfinished
  \/ \E q \in Request : req[q].pc # "idle"
  \/ \E w \in Processor : job[w].pc # "idle"

(* A run is with the request that has inserted it, then in the queue, then *)
(* with a worker, and there is only one.                                   *)
OneRun ==
  /\ \A r, s \in Run : run[r] \in Forge!Unfinished /\ run[s] \in Forge!Unfinished => r = s
  /\ \A p, q \in Request : req[p].pc # "idle" /\ req[q].pc # "idle" => p = q
  /\ \A v, w \in Processor : job[v].pc # "idle" /\ job[w].pc # "idle" => v = w
  /\ \A q \in Request : req[q].pc = "insert" => \A r \in Run : run[r] \notin Forge!Unfinished
  /\ \A q \in Request : req[q].pc \in {"dispatch", "refuse"} => run[req[q].run] = "queued"
  /\ \A q \in Request, w \in Processor : req[q].pc = "idle" \/ job[w].pc = "idle"
  /\ \A r \in Run : queue[r] > 0 => /\ queue[r] = 1 /\ run[r] = "queued"
                                    /\ \A q \in Request : req[q].pc = "idle"
                                    /\ \A w \in Processor : job[w].pc = "idle"
  /\ \A w \in Processor : job[w].pc # "idle" => run[job[w].run] = "running"

Affords ==
  Active /\ flow.kind \in Forge!LlmKinds /\ (\A w \in Processor : job[w].pc # "store") =>
    ledger + flow.cost <= DailyCap

Budgeted == DailyCap > 0 => billed <= DailyCap + wasted /\ Affords

Recorded == flow.there /\ kills = 0 => billed = ledger + Forge!Held + wasted

Amounts ==
  /\ flow \in [kind : Kind, data : BOOLEAN, cost : Cost, there : BOOLEAN]
  /\ billed \in Nat /\ wasted \in Nat /\ ledger \in Nat /\ lost \in Nat /\ crowded \in BOOLEAN
  /\ flow.there => \A r \in Run : run[r] # "gone"
  /\ \A w \in Processor : job[w].pc # "store" => job[w].tokens = 0

LInv == Amounts /\ Recorded /\ (Quiet => OneRun /\ Budgeted)

-----------------------------------------------------------------------------
Tokens == [w \in Processor |-> job[w].tokens]

LEMMA Records ==
  ASSUME NEW P, NEW R, NEW O, NEW j \in [pc : P, run : R, outcome : O, tokens : Nat]
  PROVE  j.tokens \in Nat
OBVIOUS

LEMMA JobTokens == \A j \in Forge!JobType : j.tokens \in Nat
BY Records, Zenon DEF Forge!JobType

LEMMA SameSum == \A f : Forge!SumFunction(f) = SumFunction(f)
BY Zenon DEF SumFunction, SumFunctionOnSet, FoldFunctionOnSet, MapThenFoldSet,
             Forge!SumFunction, Forge!SumFunctionOnSet, Forge!FoldFunctionOnSet, Forge!MapThenFoldSet

LEMMA SettingsMean ==
  ASSUME Forge!Settings
  PROVE  IsFiniteSet(Processor) /\ Cost \subseteq Nat /\ DailyCap \in Nat /\ None \notin Run
<1>1. \A S : Forge!IsFiniteSet(S) <=> IsFiniteSet(S)
  BY Zenon DEF IsFiniteSet, Forge!IsFiniteSet
<1>. QED
  BY <1>1 DEF Forge!Settings

LEMMA HeldIs == Forge!Held = SumFunction(Tokens) /\ Forge!Held' = SumFunction(Tokens)'
<1>1. Forge!Held = SumFunction(Tokens)
  BY SameSum, Zenon DEF Tokens, Forge!Held
<1>2. Forge!Held' = SumFunction(Tokens)'
  BY SameSum, Zenon DEF Tokens, Forge!Held
<1>. QED
  BY <1>1, <1>2

LEMMA TokensType ==
  ASSUME FInv
  PROVE  Tokens \in [Processor -> Nat] /\ Tokens \in [Processor -> Int]
           /\ Forge!Held = SumFunction(Tokens)
<1>1. \A w \in Processor : job[w].tokens \in Nat
  BY JobTokens DEF FInv, Hands
<1>2. Forge!Held = SumFunction(Tokens)
  BY SameSum, Zenon DEF Tokens, Forge!Held
<1>. QED
  BY <1>1, <1>2 DEF Tokens

LEMMA HeldMoves ==
  ASSUME Forge!Settings, FInv, NEW w \in Processor, NEW j \in Forge!JobType,
         job' = [job EXCEPT ![w] = j]
  PROVE  /\ Forge!Held' = Forge!Held + j.tokens - job[w].tokens
         /\ Forge!Held \in Nat /\ j.tokens \in Nat /\ job[w].tokens \in Nat
<1>0. Forge!Held = SumFunction(Tokens) /\ Forge!Held' = SumFunction(Tokens)'
  BY HeldIs
<1>1. Tokens \in [Processor -> Nat] /\ Tokens \in [Processor -> Int] /\ Forge!Held = SumFunction(Tokens)
  BY TokensType
<1>2. job'[w] = j /\ \A v \in Processor \ {w} : job'[v] = job[v]
  BY DEF FInv, Hands
<1>3. j.tokens \in Nat /\ job[w].tokens \in Nat /\ \A v \in Processor : job[v].tokens \in Nat
  BY JobTokens DEF FInv, Hands
<1>4. Tokens' \in [Processor -> Int] /\ Tokens'[w] = j.tokens /\ Tokens[w] = job[w].tokens
      /\ \A v \in Processor \ {w} : Tokens'[v] = Tokens[v]
  BY <1>2, <1>3 DEF Tokens
<1>5. Forge!Held' = SumFunction(Tokens')
  BY <1>0 DEF Tokens
<1>6. SumFunction(Tokens') = SumFunction(Tokens) + Tokens'[w] - Tokens[w]
  BY SettingsMean, <1>1, <1>4, SumChanged
<1>7. SumFunction(Tokens) \in Nat
  BY SettingsMean, <1>1, SumCovers
<1>. QED
  BY <1>1, <1>3, <1>4, <1>5, <1>6, <1>7

LEMMA NothingHeld ==
  ASSUME Forge!Settings, FInv, \A w \in Processor : job[w].tokens = 0
  PROVE  Forge!Held = 0
<1>1. Tokens \in [Processor -> Nat] /\ Tokens \in [Processor -> Int] /\ Forge!Held = SumFunction(Tokens)
  BY TokensType
<1>2. SumFunction(Tokens) <= Cardinality(Processor) * 0
  BY SettingsMean, <1>1, SumBound DEF Tokens
<1>3. Cardinality(Processor) * 0 = 0
  BY SettingsMean, FS_CardinalityType
<1>4. SumFunction(Tokens) \in Nat
  BY SettingsMean, <1>1, SumCovers
<1>. QED
  BY <1>1, <1>2, <1>3, <1>4

LEMMA LedgerInit ==
  ASSUME Forge!Settings, Forge!Init, FInv
  PROVE  LInv
<1>0. \A w \in Processor : job[w].pc = "idle" /\ job[w].tokens = 0
  BY FreeHands DEF Forge!Init
<1>1. Amounts
  <2>1. PICK k \in Kind, c \in Cost : flow = Forge!Flow(k, k # "llm_playground", c, TRUE)
    BY DEF Forge!Init
  <2>2. \A b \in BOOLEAN :
            Forge!Flow(k, b, c, TRUE) \in [kind : Kind, data : BOOLEAN, cost : Cost, there : BOOLEAN]
    BY DEF Forge!Flow
  <2>3. (k # "llm_playground") \in BOOLEAN
    BY Zenon
  <2>4. flow \in [kind : Kind, data : BOOLEAN, cost : Cost, there : BOOLEAN]
    BY <2>1, <2>2, <2>3, Zenon
  <2>5. \A r \in Run : run[r] = "free"
    BY DEF Forge!Init
  <2>6. billed = 0 /\ wasted = 0 /\ ledger = 0 /\ lost = 0 /\ crowded = FALSE
    BY DEF Forge!Init
  <2>. QED
    BY <1>0, <2>4, <2>5, <2>6 DEF Amounts
<1>2. Recorded
  <2>1. Forge!Held = 0
    BY <1>0, NothingHeld
  <2>. QED
    BY <2>1 DEF Forge!Init, Recorded
<1>3. ~Active
  BY <1>0 DEF Forge!Init, Active, Forge!Unfinished, Forge!Idle
<1>4. OneRun
  BY <1>0 DEF Forge!Init, OneRun, Forge!Unfinished, Forge!Idle
<1>5. Budgeted
  <2>1. billed = 0 /\ wasted = 0
    BY DEF Forge!Init
  <2>. QED
    BY SettingsMean, <1>3, <2>1 DEF Budgeted, Affords
<1>. QED
  BY <1>1, <1>2, <1>4, <1>5 DEF LInv

LEMMA Still ==
  ASSUME ~Forge!SomeUnfinished
  PROVE  ~Active
BY FreeHands DEF Forge!SomeUnfinished, Active, Forge!Idle

(* The learner's other requests. *)
LEMMA LearnerExact ==
  ASSUME Forge!Settings, FInv, LInv, Forge!DeleteDataset \/ Forge!ReplaceSteps \/ Forge!DeleteWorkflow
  PROVE  LInv'
<1>1. CASE Forge!DeleteDataset
  <2>1. UNCHANGED <<run, queue, req, job, billed, wasted, ledger, crowded, kills, lost>>
    BY <1>1 DEF Forge!DeleteDataset, Forge!money, Forge!history
  <2>2. /\ flow' \in [kind : Kind, data : BOOLEAN, cost : Cost, there : BOOLEAN]
        /\ flow'.kind = flow.kind /\ flow'.cost = flow.cost /\ flow'.there = flow.there
    BY <1>1 DEF Forge!DeleteDataset, Forge!Flow, LInv, Amounts
  <2>3. Forge!Held' = Forge!Held
    BY <2>1 DEF Forge!Held
  <2>4. Amounts' /\ Recorded'
    BY <2>1, <2>2, <2>3 DEF LInv, Amounts, Recorded
  <2>5. (Quiet => OneRun /\ Budgeted)'
    BY <2>1, <2>2 DEF LInv, Quiet, OneRun, Budgeted, Affords, Active
  <2>. QED
    BY <2>4, <2>5 DEF LInv
<1>2. CASE Forge!ReplaceSteps
  <2>1. UNCHANGED <<run, queue, req, job, billed, wasted, ledger, kills, lost>>
    BY <1>2 DEF Forge!ReplaceSteps, Forge!money, Forge!history
  <2>2. /\ flow' \in [kind : Kind, data : BOOLEAN, cost : Cost, there : BOOLEAN]
        /\ flow'.there = flow.there /\ flow.there = TRUE
    BY <1>2 DEF Forge!ReplaceSteps, Forge!Flow, LInv, Amounts
  <2>3. Forge!Held' = Forge!Held
    BY <2>1 DEF Forge!Held
  <2>4. crowded' = (crowded \/ Forge!SomeUnfinished) /\ crowded' \in BOOLEAN
    BY <1>2 DEF Forge!ReplaceSteps, LInv, Amounts, Forge!SomeUnfinished
  <2>5. Amounts' /\ Recorded'
    BY <2>1, <2>2, <2>3, <2>4 DEF LInv, Amounts, Recorded
  <2>6. ASSUME Quiet'
        PROVE  (OneRun /\ Budgeted)'
    <3>1. Quiet /\ ~Active
      BY <2>1, <2>2, <2>4, <2>6, Still DEF Quiet
    <3>2. OneRun' /\ ~Active'
      BY <2>1, <3>1 DEF LInv, OneRun, Active
    <3>3. DailyCap > 0 => billed' <= DailyCap + wasted'
      BY <2>1, <3>1 DEF LInv, Budgeted
    <3>. QED
      BY <3>2, <3>3 DEF Budgeted, Affords
  <2>. QED
    BY <2>5, <2>6 DEF LInv
<1>3. CASE Forge!DeleteWorkflow
  <2>1. UNCHANGED <<queue, req, job, billed, wasted, ledger, crowded, kills, lost>>
    BY <1>3 DEF Forge!DeleteWorkflow, Forge!money, Forge!history
  <2>2. flow' \in [kind : Kind, data : BOOLEAN, cost : Cost, there : BOOLEAN] /\ flow'.there = FALSE
    BY <1>3 DEF Forge!DeleteWorkflow, Forge!Flow, LInv, Amounts
  <2>3. Amounts' /\ Recorded' /\ ~Quiet'
    BY <2>1, <2>2 DEF LInv, Amounts, Recorded, Quiet
  <2>. QED
    BY <2>3 DEF LInv
<1>. QED
  BY <1>1, <1>2, <1>3

(* A request is checked with nothing else under way. *)
LEMMA StartRunExact ==
  ASSUME Forge!Settings, FInv, LInv, NEW q \in Request, Forge!StartRun(q)
  PROVE  LInv'
<1> DEFINE new == [pc |-> "insert", run |-> None]
<1>1. UNCHANGED <<flow, run, queue, job, billed, wasted, ledger, kills, lost>> /\ flow.there
  BY DEF Forge!StartRun, Forge!table, Forge!money
<1>2. req' = [req EXCEPT ![q] = new] /\ new.pc = "insert"
        /\ crowded' = (crowded \/ Forge!SomeUnfinished)
  BY DEF Forge!StartRun
<1>3. flow.kind \in Forge!LlmKinds => Forge!Affordable(ledger, flow.cost)
  BY DEF Forge!StartRun
<1>4. Forge!Held' = Forge!Held
  BY <1>1 DEF Forge!Held
<1>5. crowded' \in BOOLEAN
  BY <1>2 DEF LInv, Amounts, Forge!SomeUnfinished
<1>6. Amounts' /\ Recorded'
  BY <1>1, <1>4, <1>5 DEF LInv, Amounts, Recorded
<1> HIDE DEF new
<1>7. ASSUME Quiet'
      PROVE  (OneRun /\ Budgeted)'
  <2>1. Quiet /\ ~Active
    BY <1>1, <1>2, <1>7, Still DEF Quiet
  <2>2. \A p \in Request : req'[p] = IF p = q THEN new ELSE req[p]
    BY <1>2 DEF FInv, Hands
  <2>3. \A r \in Run : queue[r] = 0
    BY <2>1 DEF LInv, OneRun, Active, Forge!Unfinished, FInv, Counts
  <2>4. OneRun'
    BY <1>1, <1>2, <2>1, <2>2, <2>3 DEF OneRun, Active
  <2>5. DailyCap > 0 => billed' <= DailyCap + wasted'
    BY <1>1, <2>1 DEF LInv, Budgeted
  <2>6. DailyCap > 0 => Affords'
    BY SettingsMean, <1>1, <1>3 DEF Affords, Forge!Affordable
  <2>. QED
    BY <2>4, <2>5, <2>6 DEF Budgeted
<1>. QED
  BY <1>6, <1>7 DEF LInv

(* The request's later steps: its run is queued, then in the queue or      *)
(* failed.                                                                 *)
LEMMA InsertExact ==
  ASSUME Forge!Settings, FInv, LInv, NEW q \in Request, Forge!Insert(q)
  PROVE  LInv'
<1>1. UNCHANGED <<flow, queue, job, billed, wasted, ledger, crowded, kills, lost>> /\ req[q].pc = "insert"
  BY DEF Forge!Insert, Forge!money, Forge!history
<1>2. Forge!Held' = Forge!Held
  BY <1>1 DEF Forge!Held
<1>3. CASE flow.there
  <2>1. PICK r \in Run : /\ run[r] = "free" /\ run' = [run EXCEPT ![r] = "queued"]
                         /\ req' = [req EXCEPT ![q] = [pc |-> "dispatch", run |-> r]]
    BY <1>3 DEF Forge!Insert
  <2> DEFINE new == [pc |-> "dispatch", run |-> r]
  <2>2. new.pc = "dispatch" /\ new.run = r /\ \A p \in Request : req'[p] = IF p = q THEN new ELSE req[p]
    BY <2>1 DEF FInv, Hands
  <2>3. \A s \in Run : run'[s] = IF s = r THEN "queued" ELSE run[s]
    BY <2>1 DEF FInv, Counts
  <2> HIDE DEF new
  <2>4. Amounts' /\ Recorded'
    BY <1>1, <1>2, <2>3 DEF LInv, Amounts, Recorded
  <2>5. ASSUME Quiet'
        PROVE  (OneRun /\ Budgeted)'
    <3>1. Quiet /\ Active
      BY <1>1, <2>5 DEF Quiet, Active
    <3>2. OneRun'
      BY <1>1, <2>1, <2>2, <2>3, <3>1 DEF LInv, OneRun, Forge!Unfinished, FInv, Hands
    <3>3. Budgeted'
      BY <1>1, <3>1 DEF LInv, Budgeted, Affords
    <3>. QED
      BY <3>2, <3>3
  <2>. QED
    BY <2>4, <2>5 DEF LInv
<1>4. CASE ~flow.there
  <2>1. UNCHANGED run
    BY <1>4 DEF Forge!Insert
  <2>2. Amounts' /\ Recorded' /\ ~Quiet'
    BY <1>1, <1>2, <1>4, <2>1 DEF LInv, Amounts, Recorded, Quiet
  <2>. QED
    BY <2>2 DEF LInv
<1>. QED
  BY <1>3, <1>4

LEMMA DispatchExact ==
  ASSUME Forge!Settings, FInv, LInv, NEW q \in Request, Forge!Dispatch(q) \/ Forge!DispatchBadly(q)
  PROVE  LInv'
<1> DEFINE r == req[q].run
           held == [pc |-> "refuse", run |-> r]
<1>1. /\ req[q].pc = "dispatch" /\ r \in Run
      /\ UNCHANGED <<flow, run, job, billed, wasted, ledger, crowded, kills>>
  BY DEF Forge!Dispatch, Forge!DispatchBadly, Forge!table, Forge!history, Forge!money, FInv, Hands
<1>2. lost' \in Nat /\ lost <= lost'
  BY DEF Forge!Dispatch, Forge!DispatchBadly, Forge!history, LInv, Amounts
<1>3. Forge!Held' = Forge!Held
  BY <1>1 DEF Forge!Held
<1>4. Amounts' /\ Recorded'
  BY <1>1, <1>2, <1>3 DEF LInv, Amounts, Recorded
<1>5. ASSUME Quiet'
      PROVE  (OneRun /\ Budgeted)'
  <2>1. Quiet /\ Active
    BY <1>1, <1>2, <1>5 DEF Quiet, Active, LInv, Amounts
  <2>2. \/ queue' = [queue EXCEPT ![r] = @ + 1] /\ req' = [req EXCEPT ![q] = Forge!Idle]
        \/ queue' = [queue EXCEPT ![r] = @ + 0] /\ req' = [req EXCEPT ![q] = held]
    BY <1>5 DEF Forge!Dispatch, Forge!DispatchBadly, Forge!Sent, Quiet, LInv, Amounts
  <2>3. Forge!Idle.pc = "idle" /\ held.pc = "refuse" /\ held.run = r
    BY DEF Forge!Idle
  <2>4. \A s \in Run : queue[s] = 0
    BY <1>1, <2>1 DEF LInv, OneRun, FInv, Counts
  <2>5. \A w \in Processor : job[w].pc = "idle"
    BY <1>1, <2>1 DEF LInv, OneRun
  <2> HIDE DEF held
  <2>6. OneRun'
    <3>1. CASE queue' = [queue EXCEPT ![r] = @ + 1] /\ req' = [req EXCEPT ![q] = Forge!Idle]
      <4>1. \A p \in Request : req'[p] = IF p = q THEN Forge!Idle ELSE req[p]
        BY <3>1 DEF FInv, Hands
      <4>2. \A s \in Run : queue'[s] = IF s = r THEN 1 ELSE 0
        BY <2>4, <3>1 DEF FInv, Counts
      <4>3. \A p \in Request : req'[p].pc = "idle"
        BY <1>1, <2>1, <2>3, <4>1 DEF LInv, OneRun
      <4>4. run[r] = "queued"
        BY <1>1, <2>1 DEF LInv, OneRun
      <4>. QED
        BY <1>1, <2>1, <2>5, <4>2, <4>3, <4>4 DEF LInv, OneRun
    <3>2. CASE queue' = [queue EXCEPT ![r] = @ + 0] /\ req' = [req EXCEPT ![q] = held]
      <4>1. \A p \in Request : req'[p] = IF p = q THEN held ELSE req[p]
        BY <3>2 DEF FInv, Hands
      <4>2. \A s \in Run : queue'[s] = 0
        BY <2>4, <3>2 DEF FInv, Counts
      <4>. QED
        BY <1>1, <2>1, <2>3, <2>5, <4>1, <4>2 DEF LInv, OneRun
    <3>. QED
      BY <2>2, <3>1, <3>2
  <2>7. Budgeted'
    BY <1>1, <2>1 DEF LInv, Budgeted, Affords
  <2>. QED
    BY <2>6, <2>7
<1>. QED
  BY <1>4, <1>5 DEF LInv

LEMMA RefuseExact ==
  ASSUME Forge!Settings, FInv, LInv, NEW q \in Request, Forge!Refuse(q)
  PROVE  LInv'
<1> DEFINE r == req[q].run
<1>1. /\ req[q].pc = "refuse" /\ r \in Run
      /\ UNCHANGED <<flow, queue, job, billed, wasted, ledger, crowded, kills, lost>>
      /\ req' = [req EXCEPT ![q] = Forge!Idle]
      /\ run' = IF run[r] = "gone" THEN run ELSE [run EXCEPT ![r] = "failed"]
  BY DEF Forge!Refuse, Forge!history, Forge!money, FInv, Hands
<1>2. Forge!Held' = Forge!Held
  BY <1>1 DEF Forge!Held
<1>3. \A s \in Run : run'[s] = IF s = r /\ run[s] # "gone" THEN "failed" ELSE run[s]
  BY <1>1 DEF FInv, Counts
<1>4. \A p \in Request : req'[p] = IF p = q THEN Forge!Idle ELSE req[p]
  BY <1>1 DEF FInv, Hands
<1>5. Amounts' /\ Recorded'
  BY <1>1, <1>2, <1>3 DEF LInv, Amounts, Recorded
<1>6. ASSUME Quiet'
      PROVE  (OneRun /\ Budgeted)'
  <2>1. Quiet /\ Active
    BY <1>1, <1>6 DEF Quiet, Active
  <2>2. Forge!Idle.pc = "idle"
    BY DEF Forge!Idle
  <2>3. \A p \in Request : req'[p].pc = "idle"
    BY <1>1, <1>4, <2>1, <2>2 DEF LInv, OneRun
  <2>4. (\A s \in Run : queue[s] = 0) /\ (\A w \in Processor : job[w].pc = "idle") /\ run[r] = "queued"
    BY <1>1, <2>1 DEF LInv, OneRun, FInv, Counts
  <2>5. \A s \in Run : run'[s] \notin Forge!Unfinished
    BY <1>1, <1>3, <2>1, <2>4 DEF LInv, OneRun, Forge!Unfinished
  <2>6. OneRun'
    BY <1>1, <2>3, <2>4, <2>5 DEF OneRun
  <2>7. Budgeted'
    BY <1>1, <2>1 DEF LInv, Budgeted, Affords
  <2>. QED
    BY <2>6, <2>7
<1>. QED
  BY <1>5, <1>6 DEF LInv
-----------------------------------------------------------------------------
(* execute_run: the one run is taken up by one worker, charged for by no   *)
(* more than it was admitted with, and stored with what it was charged.    *)
LEMMA TakeExact ==
  ASSUME Forge!Settings, FInv, LInv, NEW w \in Processor, NEW r \in Run, Forge!Take(w, r)
  PROVE  LInv'
<1> DEFINE taken == [pc |-> "work", run |-> r, outcome |-> "", tokens |-> 0]
<1>1. /\ job[w] = Forge!Free /\ queue[r] > 0 /\ queue' = [queue EXCEPT ![r] = @ - 1]
      /\ UNCHANGED <<flow, req, billed, wasted, ledger, crowded, kills, lost>>
  BY Zenon DEF Forge!Take, Forge!history, Forge!money
<1>2. CASE run[r] = "gone"
  <2>1. UNCHANGED <<run, job>>
    BY <1>2, Zenon DEF Forge!Take
  <2>2. ~flow.there
    BY <1>2 DEF LInv, Amounts
  <2>3. Forge!Held' = Forge!Held
    BY <2>1 DEF Forge!Held
  <2>4. Amounts' /\ Recorded' /\ ~Quiet'
    BY <1>1, <2>1, <2>2, <2>3 DEF LInv, Amounts, Recorded, Quiet
  <2>. QED
    BY <2>4 DEF LInv
<1>3. CASE run[r] # "gone"
  <2>1. run' = [run EXCEPT ![r] = "running"] /\ job' = [job EXCEPT ![w] = taken]
    BY <1>3, Zenon DEF Forge!Take
  <2>2. taken \in Forge!JobType
    BY JobMade, Zenon
  <2>3. taken.pc = "work" /\ taken.run = r /\ taken.tokens = 0
    BY Zenon
  <2> HIDE DEF taken
  <2>4. job[w].pc = "idle" /\ job[w].tokens = 0
    BY <1>1, FreeHands
  <2>5. \A v \in Processor : job'[v] = IF v = w THEN taken ELSE job[v]
    BY <2>1 DEF FInv, Hands
  <2>6. \A s \in Run : run'[s] = IF s = r THEN "running" ELSE run[s]
    BY <2>1 DEF FInv, Counts
  <2>10. Forge!Held' = Forge!Held + taken.tokens - job[w].tokens /\ Forge!Held \in Nat
    BY <2>1, <2>2, HeldMoves, Zenon
  <2>7. Forge!Held' = Forge!Held
    BY <2>3, <2>4, <2>10
  <2>8. Amounts' /\ Recorded'
    BY <1>1, <2>3, <2>5, <2>6, <2>7 DEF LInv, Amounts, Recorded
  <2>9. ASSUME Quiet'
        PROVE  (OneRun /\ Budgeted)'
    <3>1. Quiet
      BY <1>1, <2>9 DEF Quiet
    <3>2. /\ queue[r] = 1 /\ run[r] = "queued"
          /\ \A q \in Request : req[q].pc = "idle"
          /\ \A v \in Processor : job[v].pc = "idle"
      BY <1>1, <3>1 DEF LInv, OneRun
    <3>3. Active
      BY <3>2 DEF Active, Forge!Unfinished
    <3>4. \A s \in Run : queue'[s] = 0
      <4>1. \A s \in Run \ {r} : queue[s] = 0
        BY <3>1, <3>2 DEF LInv, OneRun, FInv, Counts, Forge!Unfinished
      <4>. QED
        BY <1>1, <3>2, <4>1 DEF FInv, Counts
    <3>5. \A s \in Run : run'[s] \in Forge!Unfinished => s = r
      BY <2>6, <3>1, <3>2 DEF LInv, OneRun, Forge!Unfinished
    <3>6. OneRun'
      BY <1>1, <2>3, <2>5, <2>6, <3>2, <3>4, <3>5 DEF OneRun
    <3>7. Budgeted'
      BY <1>1, <2>5, <3>1, <3>2, <3>3 DEF LInv, Budgeted, Affords
    <3>. QED
      BY <3>6, <3>7
  <2>. QED
    BY <2>8, <2>9 DEF LInv
<1>. QED
  BY <1>2, <1>3

LEMMA WorkExact ==
  ASSUME Forge!Settings, FInv, LInv, NEW w \in Processor, Forge!Work(w)
  PROVE  LInv'
<1>1. /\ job[w].pc = "work" /\ job[w].tokens = 0 /\ job[w].run \in Run
      /\ UNCHANGED <<flow, run, queue, req, ledger, crowded, kills, lost>>
  BY DEF Forge!Work, Forge!table, Forge!history, LInv, Amounts, FInv, Hands
<1>2. flow.cost \in Nat
  BY SettingsMean DEF LInv, Amounts
<1>3. PICK o \in Forge!Finished, t \in Nat, n \in Nat :
        /\ Forge!Outcome(w, o, t) /\ billed' = billed + t + n /\ wasted' = wasted + n
        /\ t > 0 => flow.kind \in Forge!LlmKinds /\ t <= flow.cost
  <2>0. billed \in Nat /\ wasted \in Nat
    BY DEF LInv, Amounts
  <2>1. CASE Forge!Fails(w)
    <3>1. Forge!Outcome(w, "failed", 0) /\ billed' = billed + 0 + 0 /\ wasted' = wasted + 0
      BY <2>0, <2>1 DEF Forge!Fails
    <3>. QED
      BY <3>1 DEF Forge!Finished
  <2>2. CASE flow.kind \in Forge!LlmKinds /\ Forge!AskModel(w) /\ ~Forge!Fails(w)
    <3>1. PICK t \in 1 .. flow.cost :
            /\ billed' = billed + t
            /\ \/ Forge!Outcome(w, "succeeded", t) /\ wasted' = wasted
               \/ Forge!Outcome(w, "failed", 0) /\ wasted' = wasted + t
      BY <2>2 DEF Forge!AskModel
    <3>2. t \in Nat /\ t <= flow.cost
      BY <1>2, <3>1
    <3>3. CASE Forge!Outcome(w, "succeeded", t) /\ wasted' = wasted
      <4>1. billed' = billed + t + 0 /\ wasted' = wasted + 0
        BY <2>0, <3>1, <3>2, <3>3
      <4>. QED
        BY <2>2, <3>2, <3>3, <4>1 DEF Forge!Finished
    <3>4. CASE Forge!Outcome(w, "failed", 0) /\ wasted' = wasted + t
      <4>1. billed' = billed + 0 + t
        BY <2>0, <3>1, <3>2
      <4>. QED
        BY <3>2, <3>4, <4>1 DEF Forge!Finished
    <3>. QED
      BY <3>1, <3>3, <3>4
  <2>3. CASE Forge!Train(w)
    <3>1. PICK o \in Forge!Finished : Forge!Outcome(w, o, 0)
      BY <2>3 DEF Forge!Train
    <3>2. billed' = billed + 0 + 0 /\ wasted' = wasted + 0
      BY <2>0, <2>3 DEF Forge!Train
    <3>. QED
      BY <3>1, <3>2
  <2>4. Forge!Fails(w) \/ (flow.kind \in Forge!LlmKinds /\ Forge!AskModel(w)) \/ Forge!Train(w)
    <3>1. CASE ~flow.there
      BY <3>1 DEF Forge!Work
    <3>2. CASE flow.there /\ flow.kind \in Forge!LlmKinds
      BY <3>2 DEF Forge!Work, Forge!AskVision, Forge!LlmKinds
    <3>3. CASE flow.there /\ flow.kind \notin Forge!LlmKinds
      BY <3>3, Zenon DEF Forge!Work, Forge!LlmKinds
    <3>. QED
      BY <3>1, <3>2, <3>3
  <2>. QED
    BY <2>1, <2>2, <2>3, <2>4
<1> DEFINE done == [pc |-> "store", run |-> job[w].run, outcome |-> o, tokens |-> t]
<1>4. job' = [job EXCEPT ![w] = done]
  BY <1>3 DEF Forge!Outcome
<1>5. done \in Forge!JobType /\ done.pc = "store" /\ done.run = job[w].run /\ done.tokens = t
  BY <1>1, JobMade, Zenon
<1> HIDE DEF done
<1>6. \A v \in Processor : job'[v] = IF v = w THEN done ELSE job[v]
  BY <1>4 DEF FInv, Hands
<1>10. Forge!Held' = Forge!Held + done.tokens - job[w].tokens /\ Forge!Held \in Nat
  BY <1>4, <1>5, HeldMoves, Zenon
<1>7. Forge!Held' = Forge!Held + t /\ Forge!Held \in Nat
  BY <1>1, <1>5, <1>10
<1>8. Amounts' /\ Recorded'
  BY <1>1, <1>3, <1>5, <1>6, <1>7 DEF LInv, Amounts, Recorded
<1>9. ASSUME Quiet'
      PROVE  (OneRun /\ Budgeted)'
  <2>1. Quiet /\ Active
    BY <1>1, <1>9 DEF Quiet, Active
  <2>2. OneRun'
    BY <1>1, <1>5, <1>6, <2>1 DEF LInv, OneRun
  <2>3. \A v \in Processor : job[v].pc # "store" /\ job[v].tokens = 0
    BY <1>1, <2>1 DEF LInv, OneRun, Amounts
  <2>4. Forge!Held = 0
    BY <2>3, NothingHeld
  <2>5. billed = ledger + wasted
    BY <2>1, <2>4 DEF LInv, Recorded, Quiet, Amounts
  <2>6. DailyCap > 0 => billed' <= DailyCap + wasted'
    BY SettingsMean, <1>2, <1>3, <2>1, <2>3, <2>5 DEF LInv, Budgeted, Affords, Amounts
  <2>7. ~Affords' => FALSE
    BY <1>5, <1>6 DEF Affords
  <2>. QED
    BY <2>2, <2>6, <2>7 DEF Budgeted
<1>. QED
  BY <1>8, <1>9 DEF LInv

LEMMA StoreExact ==
  ASSUME Forge!Settings, FInv, LInv, NEW w \in Processor, Forge!Store(w)
  PROVE  LInv'
<1> DEFINE r == job[w].run
<1>1. /\ job[w].pc = "store" /\ r \in Run /\ job[w].outcome \in Forge!Finished
      /\ job' = [job EXCEPT ![w] = Forge!Free] /\ UNCHANGED <<flow, queue, req, billed, wasted, crowded, kills,
             lost>>
  BY Zenon DEF Forge!Store, Forge!history, FInv, Hands
<1>2. \/ run[r] = "gone" /\ run' = run /\ ledger' = ledger
      \/ run[r] # "gone" /\ run' = [run EXCEPT ![r] = job[w].outcome]
           /\ ledger' = ledger + job[w].tokens
  BY Zenon DEF Forge!Store
<1>3. Forge!Free \in Forge!JobType
  BY JobMade, Zenon DEF Forge!Free
<1>4. \A v \in Processor : job'[v] = IF v = w THEN Forge!Free ELSE job[v]
  BY <1>1 DEF FInv, Hands
<1>12. Forge!Held' = Forge!Held + Forge!Free.tokens - job[w].tokens
       /\ Forge!Held \in Nat /\ job[w].tokens \in Nat
  BY <1>1, <1>3, HeldMoves, Zenon
<1>5. Forge!Held' = Forge!Held - job[w].tokens /\ Forge!Held \in Nat /\ job[w].tokens \in Nat
  BY <1>12, FreeHands
<1>6. \A s \in Run : run'[s] = IF s = r /\ run[r] # "gone" THEN job[w].outcome ELSE run[s]
  BY <1>2 DEF FInv, Counts
<1>7. ledger' \in Nat /\ (flow.there => ledger' = ledger + job[w].tokens)
  BY <1>1, <1>2, <1>5 DEF LInv, Amounts
<1>8. job[w].outcome # "gone" /\ job[w].outcome \notin Forge!Unfinished
  BY <1>1 DEF Forge!Finished, Forge!Unfinished
<1>9. Amounts'
  BY <1>1, <1>4, <1>6, <1>7, <1>8, FreeHands DEF LInv, Amounts
<1>10. Recorded'
  BY <1>1, <1>5, <1>7 DEF LInv, Recorded, Amounts
<1>11. ASSUME Quiet'
       PROVE  (OneRun /\ Budgeted)'
  <2>1. Quiet
    BY <1>1, <1>11 DEF Quiet
  <2>2. run[r] = "running" /\ \A s \in Run : run[s] \in Forge!Unfinished => s = r
    BY <1>1, <2>1 DEF LInv, OneRun, Forge!Unfinished
  <2>3. \A s \in Run : run'[s] \notin Forge!Unfinished
    BY <1>6, <1>8, <2>2
  <2>4. \A v \in Processor : job'[v].pc = "idle"
    BY <1>1, <1>4, <2>1, FreeHands DEF LInv, OneRun
  <2>5. (\A q \in Request : req[q].pc = "idle") /\ (\A s \in Run : queue[s] = 0)
    BY <1>1, <2>1 DEF LInv, OneRun, FInv, Counts
  <2>6. OneRun' /\ ~Active'
    BY <1>1, <2>3, <2>4, <2>5 DEF OneRun, Active
  <2>7. DailyCap > 0 => billed' <= DailyCap + wasted'
    BY <1>1, <2>1 DEF LInv, Budgeted
  <2>. QED
    BY <2>6, <2>7 DEF Budgeted, Affords
<1>. QED
  BY <1>9, <1>10, <1>11 DEF LInv

LEMMA KillExact ==
  ASSUME Forge!Settings, FInv, LInv, Forge!Kill
  PROVE  LInv'
<1>1. UNCHANGED <<flow, run, billed, wasted, ledger, crowded, lost>> /\ kills' = kills + 1 /\ kills' > 0
  BY DEF Forge!Kill, Forge!table, Forge!money, FInv, Counts
<1>2. \A w \in Processor : job'[w].pc # "store" => job'[w].tokens = 0
  <2>1. CASE job' = job
    BY <2>1 DEF LInv, Amounts
  <2>2. CASE \E v \in Processor : job' = [job EXCEPT ![v] = Forge!Free]
    <3>1. PICK v \in Processor : job' = [job EXCEPT ![v] = Forge!Free]
      BY <2>2
    <3>2. \A w \in Processor : job'[w] = IF w = v THEN Forge!Free ELSE job[w]
      BY <3>1 DEF FInv, Hands
    <3>. QED
      BY <3>2, FreeHands DEF LInv, Amounts
  <2>. QED
    BY <2>1, <2>2, Zenon DEF Forge!Kill
<1>3. Amounts' /\ Recorded' /\ ~Quiet'
  BY <1>1, <1>2 DEF LInv, Amounts, Recorded, Quiet
<1>. QED
  BY <1>3 DEF LInv

LEMMA LedgerStep ==
  ASSUME Forge!Settings, FInv, LInv, [Forge!Next]_Forge!vars
  PROVE  LInv'
<1>1. CASE Forge!DeleteDataset \/ Forge!ReplaceSteps \/ Forge!DeleteWorkflow
  BY <1>1, LearnerExact
<1>2. CASE Forge!Kill
  BY <1>2, KillExact
<1>3. ASSUME NEW q \in Request, Forge!RequestStep(q) PROVE LInv'
  BY <1>3, StartRunExact, InsertExact, DispatchExact, RefuseExact DEF Forge!RequestStep
<1>4. ASSUME NEW w \in Processor, Forge!WorkerStep(w) PROVE LInv'
  BY <1>4, TakeExact, WorkExact, StoreExact DEF Forge!WorkerStep
<1>5. CASE UNCHANGED Forge!vars
  <2>1. UNCHANGED <<flow, run, queue, req, job, billed, wasted, ledger, crowded, kills, lost>>
    BY <1>5 DEF Forge!vars, Forge!table, Forge!money, Forge!history
  <2>2. Forge!Held' = Forge!Held
    BY <2>1 DEF Forge!Held
  <2>. QED
    BY <2>1, <2>2 DEF LInv, Amounts, Recorded, Quiet, OneRun, Budgeted, Affords, Active
<1>. QED
  BY <1>1, <1>2, <1>3, <1>4, <1>5 DEF Forge!Next

LEMMA ExactMeans == LInv /\ Forge!Settings => Forge!LedgerIsExact
<1> SUFFICES ASSUME LInv, Forge!Settings PROVE Forge!LedgerIsExact
  OBVIOUS
<1>1. Forge!ChargesRecorded
  BY DEF LInv, Recorded, Forge!ChargesRecorded
<1>2. Forge!DailyCapHolds
  BY DEF LInv, Quiet, Budgeted, Forge!DailyCapHolds
<1>. QED
  BY <1>1, <1>2 DEF Forge!LedgerIsExact


(* Forge's runs move or keep still, and what is not of them is with those  *)
(* who do not move.                                                        *)
RunsInv ==
  /\ FInv
  /\ part = "runs" => LInv
  /\ part # "runs" => Forge!LedgerIsExact

LEMMA RunsInit == MCInit => RunsInv
<1> SUFFICES ASSUME MCInit PROVE RunsInv
  OBVIOUS
<1>1. Forge!Settings
  BY BackgroundAssumption
<1>2. CASE part = "runs" /\ Forge!Init
  BY <1>1, <1>2, InitOK, LedgerInit DEF RunsInv
<1>3. CASE part # "runs" /\ RunsIdle
  <2>1. Forge!Idle \in Forge!ReqType
    BY DEF Forge!Idle, Forge!ReqType
  <2>2. Counts /\ Forge!RunsArePursued
    BY <1>3 DEF RunsIdle, Counts, Forge!RunsArePursued, Forge!Unfinished
  <2>3. Hands
    BY <1>3, <2>1, FreeHands DEF RunsIdle, Hands, Forge!Idle
  <2>4. Forge!Held = 0
    BY <1>1, <1>3, <2>2, <2>3, FreeHands, NothingHeld DEF RunsIdle, FInv
  <2>5. Forge!LedgerIsExact
    <3>1. billed = 0 /\ wasted = 0 /\ ledger = 0
      BY <1>3, Zenon DEF RunsIdle
    <3>. QED
      BY <1>1, <2>4, <3>1, SettingsMean DEF Forge!LedgerIsExact, Forge!ChargesRecorded,
         Forge!DailyCapHolds
  <2>. QED
    BY <1>3, <2>2, <2>3, <2>5 DEF RunsInv, FInv
<1>4. (part = "runs" /\ Forge!Init) \/ (part # "runs" /\ RunsIdle)
  BY DEF MCInit
<1>. QED
  BY <1>2, <1>3, <1>4

LEMMA RunsNext == RunsInv /\ [MCNext]_<<part, index, runs, canvas>> => RunsInv'
<1> SUFFICES ASSUME RunsInv, [MCNext]_<<part, index, runs, canvas>> PROVE RunsInv'
  OBVIOUS
<1>1. Forge!Settings
  BY BackgroundAssumption
<1>2. part' = part
  BY DEF MCNext
<1>3. CASE part = "runs"
  <2>1. [Forge!Next]_Forge!vars
    BY <1>3 DEF MCNext, runs, Forge!vars, Forge!table, Forge!money, Forge!history
  <2>2. flow.cost \in Nat
    BY <1>1, <1>3, SettingsMean DEF RunsInv, LInv, Amounts
  <2>. QED
    BY <1>1, <1>2, <1>3, <2>1, <2>2, SettingsMean, StepKeeps, LedgerStep DEF RunsInv
<1>4. CASE part # "runs"
  <2>1. UNCHANGED runs
    BY <1>4 DEF MCNext
  <2>2. UNCHANGED <<flow, run, queue, req, job, billed, wasted, ledger, crowded, kills, lost>>
    BY <2>1 DEF runs
  <2>3. FInv'
    BY <2>2 DEF RunsInv, FInv, Counts, Hands, Forge!RunsArePursued, Forge!Pursued
  <2>4. Forge!LedgerIsExact'
    BY <1>4, <2>2 DEF RunsInv, Forge!LedgerIsExact, Forge!ChargesRecorded, Forge!DailyCapHolds,
       Forge!Held
  <2>. QED
    BY <1>2, <1>4, <2>3, <2>4 DEF RunsInv
<1>. QED
  BY <1>3, <1>4

(* A run that is shown as queued or running has a message, a request or a   *)
(* worker behind it until a process is killed, for any number of each       *)
(* (runs.py: "nothing is lost if the tab closes").                          *)
THEOREM RunsNeverForgotten == MCSpec => []RunsArePursued
<1>1. RunsInv => RunsArePursued
  BY DEF RunsInv, FInv, RunsArePursued
<1>. QED
  BY RunsInit, RunsNext, <1>1, PTL DEF MCSpec

(* What the provider charged was for an empty reply, or is in llm_usage or  *)
(* with the worker that will record it, until a worker is killed or the     *)
(* workflow deleted, however many run at once; and with one run at a time   *)
(* the charges for answers stay within the cap a request was checked        *)
(* against (llm_budget.py, runs.py, ai_provider.py).                        *)
THEOREM LedgerStaysExact == MCSpec => []LedgerIsExact
<1>1. RunsInv => LedgerIsExact
  BY BackgroundAssumption, ExactMeans DEF RunsInv, LedgerIsExact
<1>. QED
  BY RunsInit, RunsNext, <1>1, PTL DEF MCSpec

-----------------------------------------------------------------------------
(* The canvas. *)

(* What an operator means does not depend on who extends its module.       *)
LEMMA SameOperators ==
  /\ \A s : Canvas!Cardinality(s) = Cardinality(s)
  /\ \A s : Canvas!Max(s) = Max(s)
<1>1. \A s : Canvas!Cardinality(s) = Cardinality(s)
  BY DEF Canvas!Cardinality, Cardinality
<1>2. \A s : Canvas!Max(s) = Max(s)
  BY DEF Canvas!Max, Max
<1>. QED
  BY <1>1, <1>2

-----------------------------------------------------------------------------
(* Sorting. *)

(* A sequence of steps with known places. *)
Placed(steps, n) ==
  DOMAIN steps = 1 .. n /\ \A i \in 1 .. n : Canvas!CanonicalOrder[steps[i].kind] \in Nat

Earlier(steps, i) == {j \in DOMAIN steps : Canvas!ComesBy(steps, j, i)}

LEMMA ComesInOrder ==
  ASSUME NEW n \in Nat, NEW steps, Placed(steps, n), NEW i \in 1 .. n, NEW j \in 1 .. n
  PROVE  /\ Canvas!ComesBy(steps, i, i)
         /\ Canvas!ComesBy(steps, i, j) \/ Canvas!ComesBy(steps, j, i)
         /\ Canvas!ComesBy(steps, i, j) /\ Canvas!ComesBy(steps, j, i) => i = j
         /\ \A l \in 1 .. n :
                Canvas!ComesBy(steps, l, i) /\ Canvas!ComesBy(steps, i, j)
                => Canvas!ComesBy(steps, l, j)
BY DEF Placed, Canvas!ComesBy

LEMMA RankRises ==
  ASSUME NEW n \in Nat, NEW steps, Placed(steps, n), NEW i \in 1 .. n, NEW j \in 1 .. n,
         i # j, Canvas!ComesBy(steps, i, j)
  PROVE  Canvas!Rank(steps, i) < Canvas!Rank(steps, j)
<1>1. Earlier(steps, i) \subseteq Earlier(steps, j) /\ j \in Earlier(steps, j)
        /\ j \notin Earlier(steps, i)
  BY ComesInOrder DEF Earlier, Placed
<1>2. IsFiniteSet(Earlier(steps, j))
  <2>1. IsFiniteSet(1 .. n) /\ Earlier(steps, j) \in SUBSET (1 .. n)
    BY FS_Interval DEF Earlier, Placed
  <2>. QED
    BY <2>1, FS_Subset
<1>3. /\ IsFiniteSet(Earlier(steps, i))
      /\ Cardinality(Earlier(steps, i)) <= Cardinality(Earlier(steps, j))
      /\ Cardinality(Earlier(steps, i)) # Cardinality(Earlier(steps, j))
  BY <1>1, <1>2, FS_Subset
<1>4. Cardinality(Earlier(steps, i)) \in Nat /\ Cardinality(Earlier(steps, j)) \in Nat
  BY <1>2, <1>3, FS_CardinalityType
<1>. QED
  BY <1>3, <1>4, SameOperators DEF Canvas!Rank, Earlier

LEMMA RankWithin ==
  ASSUME NEW n \in Nat, NEW steps, Placed(steps, n), NEW i \in 1 .. n
  PROVE  Canvas!Rank(steps, i) \in 1 .. n
<1>1. IsFiniteSet(1 .. n) /\ Cardinality(1 .. n) = n
  BY FS_Interval
<1>2. Earlier(steps, i) \in SUBSET (1 .. n) /\ i \in Earlier(steps, i)
  BY ComesInOrder DEF Earlier, Placed
<1>3. IsFiniteSet(Earlier(steps, i)) /\ Cardinality(Earlier(steps, i)) <= n
  BY <1>1, <1>2, FS_Subset
<1>4. Cardinality(Earlier(steps, i)) \in Nat /\ Cardinality(Earlier(steps, i)) # 0
  BY <1>2, <1>3, FS_CardinalityType, FS_EmptySet
<1>. QED
  BY <1>3, <1>4, SameOperators DEF Canvas!Rank, Earlier

(* The step that comes n-th. *)
Nth(steps, m) == CHOOSE i \in DOMAIN steps : Canvas!Rank(steps, i) = m

LEMMA RankOnto ==
  ASSUME NEW n \in Nat, NEW steps, Placed(steps, n), NEW m \in 1 .. n
  PROVE  Nth(steps, m) \in 1 .. n /\ Canvas!Rank(steps, Nth(steps, m)) = m
<1> DEFINE f == [i \in 1 .. n |-> Canvas!Rank(steps, i)]
<1>1. f \in [1 .. n -> 1 .. n]
  BY RankWithin
<1>2. \A i, j \in 1 .. n : f[i] = f[j] => i = j
  <2> SUFFICES ASSUME NEW i \in 1 .. n, NEW j \in 1 .. n, i # j PROVE f[i] # f[j]
    OBVIOUS
  <2>1. f[i] \in Nat /\ f[j] \in Nat
    BY <1>1
  <2>2. CASE Canvas!ComesBy(steps, i, j)
    BY <2>1, <2>2, RankRises
  <2>3. CASE Canvas!ComesBy(steps, j, i)
    BY <2>1, <2>3, RankRises
  <2>. QED
    BY <2>2, <2>3, ComesInOrder
<1>3. f \in Injection(1 .. n, 1 .. n)
  BY <1>1, <1>2 DEF Injection, IsInjective
<1>4. IsFiniteSet(1 .. n)
  BY FS_Interval
<1>5. f \in Surjection(1 .. n, 1 .. n)
  BY <1>3, <1>4, FS_Injection
<1>6. PICK i \in 1 .. n : f[i] = m
  BY <1>5 DEF Surjection
<1>7. i \in DOMAIN steps /\ Canvas!Rank(steps, i) = m
  BY <1>6 DEF Placed
<1>8. DOMAIN steps = 1 .. n
  BY DEF Placed
<1>. QED
  BY <1>7, <1>8 DEF Nth

(* Ordered is a rearrangement, each step once, in canonical order. *)
LEMMA OrderedIs ==
  ASSUME NEW n \in Nat, NEW steps, Placed(steps, n)
  PROVE  /\ DOMAIN Canvas!Ordered(steps) = 1 .. n
         /\ \A m \in 1 .. n :
                Nth(steps, m) \in 1 .. n /\ Canvas!Ordered(steps)[m] = steps[Nth(steps, m)]
         /\ \A i \in 1 .. n : \E m \in 1 .. n : Nth(steps, m) = i
         /\ \A l, m \in 1 .. n : l < m =>
              /\ Nth(steps, l) # Nth(steps, m)
              /\ Canvas!ComesBy(steps, Nth(steps, l), Nth(steps, m))
<1>1. DOMAIN steps = 1 .. n
  BY DEF Placed
<1>2. \A m \in 1 .. n : Nth(steps, m) \in 1 .. n /\ Canvas!Rank(steps, Nth(steps, m)) = m
  BY RankOnto
<1>3. Canvas!Ordered(steps) = [m \in 1 .. n |-> steps[Nth(steps, m)]]
  BY <1>1, Zenon DEF Canvas!Ordered, Nth
<1>4. ASSUME NEW i \in 1 .. n PROVE \E m \in 1 .. n : Nth(steps, m) = i
  <2>1. Canvas!Rank(steps, i) \in 1 .. n
    BY RankWithin
  <2>2. PICK j \in 1 .. n : j = Nth(steps, Canvas!Rank(steps, i))
               /\ Canvas!Rank(steps, j) = Canvas!Rank(steps, i)
    BY <1>2, <2>1
  <2>3. i = j
    <3>1. Canvas!Rank(steps, i) \in Nat
      BY <2>1
    <3>. QED
      BY <2>2, <3>1, RankRises, ComesInOrder
  <2>. QED
    BY <2>1, <2>2, <2>3
<1>5. ASSUME NEW l \in 1 .. n, NEW m \in 1 .. n, l < m
      PROVE  /\ Nth(steps, l) # Nth(steps, m)
             /\ Canvas!ComesBy(steps, Nth(steps, l), Nth(steps, m))
  <2>1. PICK i \in 1 .. n : i = Nth(steps, l) /\ Canvas!Rank(steps, i) = l
    BY <1>2
  <2>2. PICK j \in 1 .. n : j = Nth(steps, m) /\ Canvas!Rank(steps, j) = m
    BY <1>2
  <2>3. i # j
    BY <1>5, <2>1, <2>2
  <2>4. ~ Canvas!ComesBy(steps, j, i)
    BY <1>5, <2>1, <2>2, <2>3, RankRises
  <2>. QED
    BY <2>1, <2>2, <2>3, <2>4, ComesInOrder
<1>. QED
  BY <1>2, <1>3, <1>4, <1>5

-----------------------------------------------------------------------------
(* Steps that are the only ones of their kind. *)

TableKinds == Canvas!TabularSteps \cup {"lag_features"}

Single(steps, n) ==
  /\ DOMAIN steps = 1 .. n
  /\ \A i \in 1 .. n : steps[i].kind \in TableKinds
  /\ \A i, j \in 1 .. n : steps[i].kind = steps[j].kind => i = j

LEMMA PlaceIs ==
  /\ \A k \in TableKinds : Canvas!CanonicalOrder[k] \in 0 .. 9
  /\ \A k, l \in TableKinds : Canvas!CanonicalOrder[k] = Canvas!CanonicalOrder[l] => k = l
BY DEF TableKinds, Canvas!TabularSteps, Canvas!CanonicalOrder

LEMMA HasMeans ==
  ASSUME NEW n \in Nat, NEW steps, DOMAIN steps = 1 .. n, NEW k
  PROVE  Canvas!Has(steps, k) <=> \E i \in 1 .. n : steps[i].kind = k
<1> DEFINE same == {i \in DOMAIN steps : steps[i].kind = k}
<1>1. IsFiniteSet(same)
  <2>1. IsFiniteSet(1 .. n) /\ same \in SUBSET (1 .. n)
    BY FS_Interval
  <2>. QED
    BY <2>1, FS_Subset
<1>2. Cardinality(same) \in Nat /\ (Cardinality(same) = 0 <=> same = {})
  BY <1>1, FS_CardinalityType, FS_EmptySet
<1>3. Canvas!Has(steps, k) <=> Cardinality(same) > 0
  BY SameOperators DEF Canvas!Has, Canvas!Times
<1>. QED
  BY <1>2, <1>3

LEMMA ByKindIs ==
  ASSUME NEW n \in Nat, NEW steps, DOMAIN steps = 1 .. n, NEW i \in 1 .. n,
         \A j \in 1 .. n : steps[j].kind = steps[i].kind => j = i
  PROVE  Canvas!ByKind(steps, steps[i].kind) = steps[i]
<1>1. {j \in DOMAIN steps : steps[j].kind = steps[i].kind} = {i}
  OBVIOUS
<1>2. Canvas!Max({i}) = i
  BY DEF Canvas!Max
<1>. QED
  BY <1>1, <1>2 DEF Canvas!ByKind

LEMMA OnceMeansOne ==
  ASSUME NEW n \in Nat, NEW steps, DOMAIN steps = 1 .. n,
         NEW i \in 1 .. n, NEW j \in 1 .. n, steps[i].kind = steps[j].kind, Canvas!Times(steps, steps[i].kind) <= 1
  PROVE  i = j
<1> DEFINE same == {l \in DOMAIN steps : steps[l].kind = steps[i].kind}
<1>1. IsFiniteSet(same)
  <2>1. IsFiniteSet(1 .. n) /\ same \in SUBSET (1 .. n)
    BY FS_Interval
  <2>. QED
    BY <2>1, FS_Subset
<1>2. i \in same /\ j \in same
  OBVIOUS
<1>3. Cardinality(same) \in Nat /\ Cardinality(same) <= 1 /\ Cardinality(same) # 0
  BY <1>1, <1>2, FS_CardinalityType, FS_EmptySet, SameOperators DEF Canvas!Times
<1>4. Cardinality(same) = 1
  BY <1>3
<1>5. \E x : same = {x}
  <2> HIDE DEF same
  <2>. QED
    BY <1>1, <1>4, FS_Singleton
<1>. QED
  BY <1>2, <1>5

LEMMA OneOfEach ==
  ASSUME NEW n \in Nat, NEW steps, DOMAIN steps = 1 .. n,
         \A i \in 1 .. n : steps[i].kind \in TableKinds,
         Canvas!OnePerKind(steps)
  PROVE  Single(steps, n)
BY OnceMeansOne DEF Single, Canvas!OnePerKind, TableKinds

LEMMA TargetIs ==
  ASSUME NEW n \in Nat, NEW steps, DOMAIN steps = 1 .. n, NEW k, NEW i \in 1 .. n,
         Canvas!NamesTarget(k, steps[i]),
         \A j \in 1 .. n : Canvas!NamesTarget(k, steps[j]) => j = i
  PROVE  Canvas!TargetName(k, steps) = IF steps[i].kind = "select_target" THEN steps[i].column
                                       ELSE Canvas!Target(steps[i])
<1> DEFINE naming == {j \in DOMAIN steps : Canvas!NamesTarget(k, steps[j])}
<1>1. naming = {i}
  OBVIOUS
<1>2. Canvas!Min(naming) = i
  BY <1>1 DEF Canvas!Min
<1>3. Canvas!TargetName(k, steps)
        = IF naming = {} THEN Canvas!NoColumn
          ELSE IF steps[Canvas!Min(naming)].kind = "select_target" THEN steps[Canvas!Min(naming)].column
               ELSE Canvas!Target(steps[Canvas!Min(naming)])
  BY Zenon DEF Canvas!TargetName
<1>4. naming # {}
  BY <1>1
<1> HIDE DEF naming
<1>. QED
  BY <1>2, <1>3, <1>4, Zenon

(* Sorted without two of a kind: each kind comes after those before it. *)
Sorted(ordered, n) ==
  /\ Single(ordered, n)
  /\ \A l, m \in 1 .. n :
         l < m => Canvas!CanonicalOrder[ordered[l].kind] < Canvas!CanonicalOrder[ordered[m].kind]

LEMMA SingleIsPlaced ==
  ASSUME NEW n \in Nat, NEW steps, Single(steps, n)
  PROVE  Placed(steps, n)
BY PlaceIs DEF Placed, Single

LEMMA OrderedIsSorted ==
  ASSUME NEW n \in Nat, NEW steps, Single(steps, n)
  PROVE  Sorted(Canvas!Ordered(steps), n)
<1> DEFINE o == Canvas!Ordered(steps)
<1>1. Placed(steps, n)
  BY SingleIsPlaced
<1>2. /\ DOMAIN o = 1 .. n
      /\ \A m \in 1 .. n : Nth(steps, m) \in 1 .. n /\ o[m] = steps[Nth(steps, m)]
      /\ \A l, m \in 1 .. n : l < m =>
           /\ Nth(steps, l) # Nth(steps, m)
           /\ Canvas!ComesBy(steps, Nth(steps, l), Nth(steps, m))
  BY <1>1, OrderedIs
<1> HIDE DEF o
<1>3. ASSUME NEW l \in 1 .. n, NEW m \in 1 .. n, l < m
      PROVE  o[l].kind # o[m].kind
               /\ Canvas!CanonicalOrder[o[l].kind] < Canvas!CanonicalOrder[o[m].kind]
  <2>1. PICK i \in 1 .. n, j \in 1 .. n :
          i # j /\ o[l] = steps[i] /\ o[m] = steps[j] /\ Canvas!ComesBy(steps, i, j)
    BY <1>2, <1>3
  <2>2. /\ steps[i].kind \in TableKinds /\ steps[j].kind \in TableKinds /\ steps[i].kind # steps[j].kind
    BY <2>1 DEF Single
  <2>3. Canvas!CanonicalOrder[steps[i].kind] <= Canvas!CanonicalOrder[steps[j].kind]
    BY <2>1, <2>2, PlaceIs DEF Canvas!ComesBy
  <2>. QED
    BY <2>1, <2>2, <2>3, PlaceIs
<1>4. \A m \in 1 .. n : o[m].kind \in TableKinds
  BY <1>2 DEF Single
<1>5. \A l, m \in 1 .. n : o[l].kind = o[m].kind => l = m
  <2> SUFFICES ASSUME NEW l \in 1 .. n, NEW m \in 1 .. n, l # m PROVE o[l].kind # o[m].kind
    OBVIOUS
  <2>1. l < m \/ m < l
    OBVIOUS
  <2>. QED
    BY <1>3, <2>1
<1>. QED
  BY <1>2, <1>3, <1>4, <1>5 DEF o, Sorted, Single

(* Sorting keeps the steps. *)
LEMMA OrderedKeeps ==
  ASSUME NEW n \in Nat, NEW steps, Single(steps, n), NEW k
  PROVE  /\ Canvas!Has(Canvas!Ordered(steps), k) <=> Canvas!Has(steps, k)
         /\ Canvas!Has(steps, k) => Canvas!ByKind(Canvas!Ordered(steps), k) = Canvas!ByKind(steps, k)
<1> DEFINE o == Canvas!Ordered(steps)
<1>1. /\ DOMAIN o = 1 .. n
      /\ \A m \in 1 .. n : Nth(steps, m) \in 1 .. n /\ o[m] = steps[Nth(steps, m)]
      /\ \A i \in 1 .. n : \E m \in 1 .. n : Nth(steps, m) = i
  BY SingleIsPlaced, OrderedIs
<1>2. Single(o, n) /\ Single(steps, n)
  BY OrderedIsSorted DEF Sorted
<1> HIDE DEF o
<1>3. (\E m \in 1 .. n : o[m].kind = k) <=> (\E i \in 1 .. n : steps[i].kind = k)
  <2>1. ASSUME NEW m \in 1 .. n, o[m].kind = k PROVE \E i \in 1 .. n : steps[i].kind = k
    BY <1>1, <2>1
  <2>2. ASSUME NEW i \in 1 .. n, steps[i].kind = k PROVE \E m \in 1 .. n : o[m].kind = k
    <3>1. PICK m \in 1 .. n : Nth(steps, m) = i
      BY <1>1
    <3>. QED
      BY <1>1, <2>2, <3>1
  <2>. QED
    BY <2>1, <2>2
<1>4. ASSUME NEW i \in 1 .. n, steps[i].kind = k PROVE Canvas!ByKind(o, k) = Canvas!ByKind(steps, k)
  <2>1. PICK m \in 1 .. n : o[m] = steps[i]
    <3>1. PICK m \in 1 .. n : Nth(steps, m) = i
      BY <1>1
    <3>. QED
      BY <1>1, <3>1
  <2>2. Canvas!ByKind(o, o[m].kind) = o[m] /\ Canvas!ByKind(steps, steps[i].kind) = steps[i]
    BY <1>2, ByKindIs DEF Single
  <2>. QED
    BY <1>4, <2>1, <2>2
<1>. QED
  <2>1. DOMAIN steps = 1 .. n
    BY <1>2 DEF Single
  <2>2. (Canvas!Has(o, k) <=> \E m \in 1 .. n : o[m].kind = k)
          /\ (Canvas!Has(steps, k) <=> \E i \in 1 .. n : steps[i].kind = k)
    BY <1>1, <2>1, HasMeans
  <2>. QED
    BY <1>3, <1>4, <2>2 DEF o

(* What names the target is the same step however the steps are placed. *)
LEMMA OrderedTarget ==
  ASSUME NEW n \in Nat, NEW steps, Single(steps, n), NEW k, NEW i \in 1 .. n,
         Canvas!NamesTarget(k, steps[i]),
         \A j \in 1 .. n : Canvas!NamesTarget(k, steps[j]) => j = i
  PROVE  Canvas!TargetName(k, Canvas!Ordered(steps)) = Canvas!TargetName(k, steps)
<1> DEFINE o == Canvas!Ordered(steps)
<1>1. /\ DOMAIN o = 1 .. n
      /\ \A m \in 1 .. n : Nth(steps, m) \in 1 .. n /\ o[m] = steps[Nth(steps, m)]
      /\ \A j \in 1 .. n : \E m \in 1 .. n : Nth(steps, m) = j
      /\ \A l, m \in 1 .. n : l < m =>
           /\ Nth(steps, l) # Nth(steps, m)
           /\ Canvas!ComesBy(steps, Nth(steps, l), Nth(steps, m))
  <2>1. Placed(steps, n)
    BY SingleIsPlaced
  <2>. QED
    BY <2>1, OrderedIs
<1> HIDE DEF o
<1>2. PICK m \in 1 .. n : Nth(steps, m) = i
  BY <1>1
<1>3. Canvas!NamesTarget(k, o[m]) /\ o[m] = steps[i]
  BY <1>1, <1>2
<1>4. \A l \in 1 .. n : Canvas!NamesTarget(k, o[l]) => l = m
  <2> SUFFICES ASSUME NEW l \in 1 .. n, Canvas!NamesTarget(k, o[l]) PROVE l = m
    OBVIOUS
  <2>1. Nth(steps, l) = i
    BY <1>1
  <2>2. ~ (l < m) /\ ~ (m < l)
    BY <1>1, <1>2, <2>1
  <2>. QED
    BY <2>2
<1>5. Canvas!TargetName(k, o) = IF o[m].kind = "select_target" THEN o[m].column ELSE Canvas!Target(o[m])
  <2>1. DOMAIN o = 1 .. n
    BY <1>1
  <2>. QED
    BY <1>3, <1>4, <2>1, TargetIs
<1>6. DOMAIN steps = 1 .. n
  BY DEF Single
<1>7. Canvas!TargetName(k, steps) = IF steps[i].kind = "select_target" THEN steps[i].column
                                    ELSE Canvas!Target(steps[i])
  BY <1>6, TargetIs, Zenon
<1>. QED
  BY <1>3, <1>5, <1>7 DEF o

-----------------------------------------------------------------------------
(* The loop of a run: Prepared, a fold, one step after another. *)

LoopStart(k) ==
  [frame |-> Canvas!ReadCsv, refused |-> "no", features |-> {}, split |-> Canvas!NoSplitStep(k), scale |-> "none", model |-> << >>]

Preparing(g, k, ordered, target) ==
  g = [s \in SUBSET DOMAIN ordered |->
        IF s = {} THEN LoopStart(k)
        ELSE Canvas!Prepare(g[s \ {Canvas!Max(s)}], ordered[Canvas!Max(s)], target)]

LEMMA PreparedUnfolded ==
  ASSUME NEW k, NEW ordered, NEW target
  PROVE  Canvas!Prepared(k, ordered, target) = (CHOOSE g : Preparing(g, k, ordered, target))[DOMAIN ordered]
BY Zenon DEF Canvas!Prepared, Canvas!FoldLeft, Canvas!MapThenFoldSet, LoopStart, Preparing

LEMMA PreparingExists ==
  ASSUME NEW n \in Nat, NEW k, NEW ordered, DOMAIN ordered = 1 .. n, NEW target
  PROVE  \E g : Preparing(g, k, ordered, target)
<1> DEFINE D == 1 .. n
<1> DEFINE L(m) == {s \in SUBSET D : \A x \in s : x <= m}
<1> DEFINE Then(g, s) == IF s = {} THEN LoopStart(k)
                         ELSE Canvas!Prepare(g[s \ {Canvas!Max(s)}], ordered[Canvas!Max(s)], target)
<1> DEFINE P == {m \in Nat : \E g : g = [s \in L(m) |-> Then(g, s)]}
<1>1. \A s \in SUBSET D : s # {} => Canvas!Max(s) \in s /\ \A x \in s : x <= Canvas!Max(s)
  <2> SUFFICES ASSUME NEW s \in SUBSET D,
                      s # {} PROVE Canvas!Max(s) \in s /\ \A x \in s : x <= Canvas!Max(s)
    OBVIOUS
  <2>1. s \in SUBSET Nat /\ \A x \in s : x <= n
    OBVIOUS
  <2>. QED
    BY <2>1, LargestOf, SameOperators
<1>2. ASSUME NEW m \in Nat, NEW s \in L(m + 1), s # {}
      PROVE  s \ {Canvas!Max(s)} \in L(m)
  <2>1. Canvas!Max(s) \in s /\ (\A x \in s : x <= Canvas!Max(s)) /\ Canvas!Max(s) <= m + 1
    BY <1>1, <1>2
  <2>2. \A x \in s \ {Canvas!Max(s)} : x <= m
    <3> SUFFICES ASSUME NEW x \in s, x # Canvas!Max(s) PROVE x <= m
      OBVIOUS
    <3>1. PICK t : t = Canvas!Max(s)
      OBVIOUS
    <3>2. t \in s /\ x <= t /\ t <= m + 1 /\ x # t
      BY <2>1, <3>1
    <3>3. t \in Nat /\ x \in Nat
      BY <3>2
    <3>. QED
      BY <3>2, <3>3
  <2>. QED
    BY <2>2
<1>3. \A m \in Nat : L(m) \subseteq L(m + 1)
  <2> SUFFICES ASSUME NEW m \in Nat, NEW s \in L(m) PROVE s \in L(m + 1)
    OBVIOUS
  <2>1. \A x \in s : x <= m + 1
    OBVIOUS
  <2>. QED
    BY <2>1
<1>4. 0 \in P
  <2>1. \A s \in L(0) : s = {}
    OBVIOUS
  <2> DEFINE g == [s \in L(0) |-> LoopStart(k)]
  <2>2. g = [s \in L(0) |-> Then(g, s)]
    BY <2>1
  <2>. QED
    BY <2>2
<1>5. ASSUME NEW m \in Nat, m \in P
      PROVE  m + 1 \in P
  <2>1. PICK g : g = [s \in L(m) |-> Then(g, s)]
    BY <1>5
  <2> DEFINE h == [s \in L(m + 1) |-> Then(g, s)]
  <2>2. ASSUME NEW s \in L(m) PROVE h[s] = g[s]
    <3>1. s \in L(m + 1)
      BY <1>3
    <3> HIDE DEF L, Then
    <3>2. g[s] = Then(g, s)
      BY <2>1
    <3>. QED
      BY <3>1, <3>2
  <2>3. ASSUME NEW s \in L(m + 1) PROVE Then(g, s) = Then(h, s)
    <3>1. s # {} => s \ {Canvas!Max(s)} \in L(m)
      BY <1>2
    <3> HIDE DEF L, h
    <3>. QED
      BY <2>2, <3>1
  <2>4. h = [s \in L(m + 1) |-> Then(h, s)]
    <3> HIDE DEF L, Then
    <3>. QED
      BY <2>3
  <2>5. \E f : f = [s \in L(m + 1) |-> Then(f, s)]
    <3> HIDE DEF L, Then, h
    <3>. QED
      BY <2>4
  <2> HIDE DEF L, Then, h
  <2>. QED
    BY <2>5
<1>6. n \in P
  <2>1. \A m \in Nat : m \in P
    <3> HIDE DEF P
    <3>. QED
      BY <1>4, <1>5, Counting
  <2>. QED
    BY <2>1
<1>7. PICK g : g = [s \in L(n) |-> Then(g, s)]
  BY <1>6
<1>8. L(n) = SUBSET DOMAIN ordered
  OBVIOUS
<1>. QED
  BY <1>7, <1>8 DEF Preparing

LEMMA PreparedIs ==
  ASSUME NEW n \in Nat, NEW k, NEW ordered, DOMAIN ordered = 1 .. n, NEW target
  PROVE  \E p : /\ p[0] = LoopStart(k)
                /\ \A m \in 1 .. n : p[m] = Canvas!Prepare(p[m - 1], ordered[m], target)
                /\ Canvas!Prepared(k, ordered, target) = p[n]
<1>1. PICK g : Preparing(g, k, ordered, target) /\ Canvas!Prepared(k, ordered, target) = g[1 .. n]
  BY PreparedUnfolded, PreparingExists, Zenon
<1>2. \A s \in SUBSET (1 .. n) :
          g[s] = IF s = {} THEN LoopStart(k)
                 ELSE Canvas!Prepare(g[s \ {Canvas!Max(s)}], ordered[Canvas!Max(s)], target)
  BY <1>1 DEF Preparing
<1> DEFINE p == [m \in 0 .. n |-> g[1 .. m]]
<1>3. p[0] = LoopStart(k)
  <2>1. 1 .. 0 = {}
    OBVIOUS
  <2>2. p[0] = g[{}]
    BY <2>1
  <2>. QED
    BY <1>2, <2>2
<1>4. ASSUME NEW m \in 1 .. n PROVE p[m] = Canvas!Prepare(p[m - 1], ordered[m], target)
  <2>0. m \in Nat /\ m \in 1 .. m
    OBVIOUS
  <2>1. 1 .. m \in SUBSET (1 .. n) /\ 1 .. m # {}
    <3>1. \A x \in 1 .. m : x \in 1 .. n
      OBVIOUS
    <3>. QED
      BY <2>0, <3>1
  <2>2. Canvas!Max(1 .. m) = m
    <3>1. \A x \in 1 .. m : x \in Nat /\ x <= m
      OBVIOUS
    <3>2. Canvas!Max(1 .. m) \in 1 .. m /\ \A y \in 1 .. m : y <= Canvas!Max(1 .. m)
      <4> DEFINE s == 1 .. m
      <4>1. s \in SUBSET Nat /\ s # {} /\ \A x \in s : x <= m
        BY <2>0, <3>1
      <4> HIDE DEF s
      <4>2. Canvas!Max(s) \in s /\ \A y \in s : y <= Canvas!Max(s)
        BY <2>0, <4>1, LargestOf, SameOperators
      <4>. QED
        BY <4>2 DEF s
    <3>. QED
      BY <2>0, <3>2
  <2>3. (1 .. m) \ {m} = 1 .. (m - 1)
    OBVIOUS
  <2>4. g[1 .. m] = Canvas!Prepare(g[1 .. (m - 1)], ordered[m], target)
    BY <1>2, <2>1, <2>2, <2>3
  <2>5. p[m] = g[1 .. m] /\ p[m - 1] = g[1 .. (m - 1)]
    OBVIOUS
  <2> HIDE DEF p
  <2>. QED
    BY <2>4, <2>5
<1>5. p[n] = g[1 .. n]
  OBVIOUS
<1> HIDE DEF p
<1>. QED
  BY <1>1, <1>3, <1>4, <1>5, Zenon

-----------------------------------------------------------------------------
(* What the loop has made of the table after m steps in canonical order,   *)
(* in the words of the script's blocks.                                    *)

Upto(o, m, k) == \E i \in 1 .. m : o[i].kind = k

LaggedBy(o, m, t) ==
  IF Upto(o, m, "lag_features") THEN Canvas!Lagged(Canvas!ReadCsv, Canvas!ByKind(o, "lag_features"), t)
  ELSE Canvas!ReadCsv
FilledBy(o, m, t) ==
  IF Upto(o, m, "handle_missing") THEN Canvas!ApplyMissing(LaggedBy(o, m, t), Canvas!ByKind(o, "handle_missing"))
  ELSE LaggedBy(o, m, t)
EncodedBy(o, m, t) ==
  IF Upto(o, m, "encode_categorical") THEN Canvas!ApplyEncoding(FilledBy(o, m, t), Canvas!ByKind(o, "encode_categorical"), t)
  ELSE FilledBy(o, m, t)
ChosenBy(o, m, t) == IF Upto(o, m, "select_features") THEN Canvas!ByKind(o, "select_features").columns \ {t}
                     ELSE {}
SplitBy(k, o, m) ==
  IF Upto(o, m, "train_test_split") THEN Canvas!Split(Canvas!ByKind(o, "train_test_split"))
  ELSE Canvas!NoSplitStep(k)
ScaleBy(o, m) == IF Upto(o, m, "scale_features") THEN Canvas!ByKind(o, "scale_features").strategy
                 ELSE "none"
ModelBy(o, m) == IF Upto(o, m, "train_model") THEN <<Canvas!Estimator(Canvas!ByKind(o, "train_model"))>>
                 ELSE << >>

Table(frame, features, split, scale, model) ==
  [frame |-> frame, refused |-> "no", features |-> features, split |-> split, scale |-> scale, model |-> model]

Reached(k, o, m, t) == Table(EncodedBy(o, m, t), ChosenBy(o, m, t), SplitBy(k, o, m), ScaleBy(o, m), ModelBy(o, m))

(* What the loop found in order on the way. *)
Checked(o, m, t) ==
  /\ Upto(o, m, "lag_features") => Canvas!ByKind(o, "lag_features").column \in Csv
  /\ Upto(o, m, "select_target") => t \in Csv

(* A lag step names the target alone. *)
LagNames(o, n, t) ==
  Upto(o, n, "lag_features") => ~ Upto(o, n, "select_target")
    /\ t = Canvas!Target(Canvas!ByKind(o, "lag_features"))

LEMMA Altered ==
  ASSUME NEW f, NEW x, NEW sp, NEW sc, NEW mo, NEW v
  PROVE  /\ [Table(f, x, sp, sc, mo) EXCEPT !.frame = v] = Table(v, x, sp, sc, mo)
         /\ [Table(f, x, sp, sc, mo) EXCEPT !.features = v] = Table(f, v, sp, sc, mo)
         /\ [Table(f, x, sp, sc, mo) EXCEPT !.split = v] = Table(f, x, v, sc, mo)
         /\ [Table(f, x, sp, sc, mo) EXCEPT !.scale = v] = Table(f, x, sp, v, mo)
         /\ [Table(f, x, sp, sc, mo) EXCEPT !.model = v] = Table(f, x, sp, sc, v)
         /\ [Table(f, x, sp, sc, mo) EXCEPT !.refused = v].refused = v
         /\ Table(f, x, sp, sc, mo).refused = "no" /\ Table(f, x, sp, sc, mo).frame = f
         /\ Table(f, x, sp, sc, mo).features = x /\ Table(f, x, sp, sc, mo).split = sp
         /\ Table(f, x, sp, sc, mo).scale = sc /\ Table(f, x, sp, sc, mo).model = mo
BY DEF Table

LEMMA UptoNext ==
  ASSUME NEW n \in Nat, NEW o, Sorted(o, n), NEW m \in 0 .. n - 1
  PROVE  /\ o[m + 1].kind \in TableKinds
         /\ \A k : Upto(o, m + 1, k) <=> Upto(o, m, k) \/ k = o[m + 1].kind
         /\ \A k : Upto(o, m, k) => k \in TableKinds /\ Canvas!CanonicalOrder[k] < Canvas!CanonicalOrder[o[m + 1].kind]
         /\ Canvas!ByKind(o, o[m + 1].kind) = o[m + 1]
<1>1. m + 1 \in 1 .. n /\ 1 .. m \subseteq 1 .. n /\ 1 .. (m + 1) = (1 .. m) \cup {m + 1}
  OBVIOUS
<1>2. o[m + 1].kind \in TableKinds
  BY <1>1 DEF Sorted, Single
<1>3. \A k : Upto(o, m + 1, k) <=> Upto(o, m, k) \/ k = o[m + 1].kind
  BY <1>1 DEF Upto
<1>4. ASSUME NEW k, Upto(o, m, k)
      PROVE  k \in TableKinds /\ Canvas!CanonicalOrder[k] < Canvas!CanonicalOrder[o[m + 1].kind]
  <2>1. PICK i \in 1 .. m : o[i].kind = k
    BY <1>4 DEF Upto
  <2>2. i \in 1 .. n /\ i < m + 1
    OBVIOUS
  <2>. QED
    BY <1>1, <2>1, <2>2 DEF Sorted, Single
<1>5. Canvas!ByKind(o, o[m + 1].kind) = o[m + 1]
  <2>1. /\ DOMAIN o = 1 .. n
        /\ \A j \in 1 .. n : o[j].kind = o[m + 1].kind => j = m + 1
    BY <1>1 DEF Sorted, Single
  <2>. QED
    BY <1>1, <2>1, ByKindIs
<1>. QED
  BY <1>2, <1>3, <1>4, <1>5

(* One step of the loop. *)
LEMMA Advances ==
  ASSUME NEW n \in Nat, NEW o, Sorted(o, n), NEW m \in 0 .. n - 1, NEW k, NEW t, LagNames(o, n, t),
         Canvas!Prepare(Reached(k, o, m, t), o[m + 1], t).refused = "no", Checked(o, m, t)
  PROVE  Canvas!Prepare(Reached(k, o, m, t), o[m + 1], t) = Reached(k, o, m + 1, t)
           /\ Checked(o, m + 1, t)
<1> DEFINE s == o[m + 1]
<1> DEFINE p == Reached(k, o, m, t)
<1> DEFINE next == Canvas!Prepare(p, s, t)
<1>1. /\ s.kind \in TableKinds
      /\ \A l : Upto(o, m + 1, l) <=> Upto(o, m, l) \/ l = s.kind
      /\ \A l : Upto(o, m, l) => l \in TableKinds /\ Canvas!CanonicalOrder[l] < Canvas!CanonicalOrder[s.kind]
      /\ Canvas!ByKind(o, s.kind) = s
  BY UptoNext
<1>2. p.refused = "no" /\ p.frame = EncodedBy(o, m, t)
  BY Altered DEF Reached
<1>3. \A l : Upto(o, m + 1, l) => Upto(o, n, l)
  <2>1. 1 .. (m + 1) \subseteq 1 .. n
    OBVIOUS
  <2>. QED
    BY <2>1 DEF Upto
<1>4. Canvas!ReadCsv.cols = Csv
  BY DEF Canvas!ReadCsv
<1>5. next.refused = "no"
  OBVIOUS
<1> HIDE DEF s, next, p
<1>6. CASE s.kind = "lag_features"
  <2>1. \A l \in {"lag_features", "handle_missing", "encode_categorical"} : ~ Upto(o, m, l)
    BY <1>1, <1>6 DEF Canvas!CanonicalOrder
  <2>2. /\ Upto(o, m + 1, "lag_features")
        /\ \A l : l # "lag_features" => (Upto(o, m + 1, l) <=> Upto(o, m, l))
    BY <1>1, <1>6
  <2>3. p.frame = Canvas!ReadCsv
    BY <1>2, <2>1 DEF EncodedBy, FilledBy, LaggedBy
  <2>4. next = IF s.column \in Csv \ Canvas!ReadCsv.text
               THEN [p EXCEPT !.frame = Canvas!ApplyLags(Canvas!ReadCsv, s)] ELSE [p EXCEPT !.refused = "column"]
    BY <1>2, <1>4, <1>6, <2>3 DEF next, Canvas!Prepare
  <2>5. s.column \in Csv \ Canvas!ReadCsv.text
    BY <1>5, <2>4, Altered DEF p, Reached
  <2>6. Canvas!ApplyLags(Canvas!ReadCsv, s) = EncodedBy(o, m + 1, t)
    <3>1. t = Canvas!Target(s)
      BY <1>1, <1>3, <1>6, <2>2 DEF LagNames
    <3>. QED
      BY <1>1, <1>6, <2>1, <2>2, <3>1 DEF Canvas!ApplyLags, EncodedBy, FilledBy, LaggedBy
  <2>7. next = Reached(k, o, m + 1, t)
    <3>1. [p EXCEPT !.frame = Canvas!ApplyLags(Canvas!ReadCsv, s)]
            = Table(Canvas!ApplyLags(Canvas!ReadCsv, s), ChosenBy(o, m, t), SplitBy(k, o, m), ScaleBy(o, m), ModelBy(o, m))
      BY DEF p, Reached, Table
    <3>2. /\ ChosenBy(o, m + 1, t) = ChosenBy(o, m, t)
          /\ SplitBy(k, o, m + 1) = SplitBy(k, o, m)
          /\ ScaleBy(o, m + 1) = ScaleBy(o, m)
          /\ ModelBy(o, m + 1) = ModelBy(o, m)
      BY <2>2 DEF ChosenBy, SplitBy, ScaleBy, ModelBy
    <3>. QED
      BY <2>2, <2>4, <2>5, <2>6, <3>1, <3>2 DEF Reached
  <2>8. Checked(o, m + 1, t)
    BY <1>1, <1>6, <2>2, <2>5 DEF Checked
  <2>. QED
    BY <2>7, <2>8 DEF next, p, s
<1>7. CASE s.kind = "handle_missing"
  <2>1. \A l \in {"handle_missing", "encode_categorical"} : ~ Upto(o, m, l)
    BY <1>1, <1>7 DEF Canvas!CanonicalOrder
  <2>2. /\ Upto(o, m + 1, "handle_missing")
        /\ \A l : l # "handle_missing" => (Upto(o, m + 1, l) <=> Upto(o, m, l))
    BY <1>1, <1>7
  <2>3. next = [p EXCEPT !.frame = Canvas!ApplyMissing(p.frame, s)]
    BY <1>2, <1>7 DEF next, Canvas!Prepare
  <2>4. Canvas!ApplyMissing(p.frame, s) = EncodedBy(o, m + 1, t)
    BY <1>1, <1>2, <1>7, <2>1, <2>2 DEF EncodedBy, FilledBy, LaggedBy
  <2>5. next = Reached(k, o, m + 1, t)
    <3>1. [p EXCEPT !.frame = Canvas!ApplyMissing(p.frame, s)]
            = Table(Canvas!ApplyMissing(p.frame, s), ChosenBy(o, m, t), SplitBy(k, o, m), ScaleBy(o, m), ModelBy(o, m))
      BY DEF p, Reached, Table
    <3>2. /\ ChosenBy(o, m + 1, t) = ChosenBy(o, m, t)
          /\ SplitBy(k, o, m + 1) = SplitBy(k, o, m)
          /\ ScaleBy(o, m + 1) = ScaleBy(o, m)
          /\ ModelBy(o, m + 1) = ModelBy(o, m)
      BY <2>2 DEF ChosenBy, SplitBy, ScaleBy, ModelBy
    <3>. QED
      BY <2>2, <2>3, <2>4, <3>1, <3>2 DEF Reached
  <2>6. Checked(o, m + 1, t)
    BY <2>2 DEF Checked
  <2>. QED
    BY <2>5, <2>6 DEF next, p, s
<1>8. CASE s.kind = "encode_categorical"
  <2>1. \A l \in {"encode_categorical"} : ~ Upto(o, m, l)
    BY <1>1, <1>8 DEF Canvas!CanonicalOrder
  <2>2. /\ Upto(o, m + 1, "encode_categorical")
        /\ \A l : l # "encode_categorical" => (Upto(o, m + 1, l) <=> Upto(o, m, l))
    BY <1>1, <1>8
  <2>3. next = [p EXCEPT !.frame = Canvas!ApplyEncoding(p.frame, s, t)]
    BY <1>2, <1>8 DEF next, Canvas!Prepare
  <2>4. Canvas!ApplyEncoding(p.frame, s, t) = EncodedBy(o, m + 1, t)
    BY <1>1, <1>2, <1>8, <2>1, <2>2 DEF EncodedBy, FilledBy, LaggedBy
  <2>5. next = Reached(k, o, m + 1, t)
    <3>1. [p EXCEPT !.frame = Canvas!ApplyEncoding(p.frame, s, t)]
            = Table(Canvas!ApplyEncoding(p.frame, s, t), ChosenBy(o, m, t), SplitBy(k, o, m), ScaleBy(o, m), ModelBy(o, m))
      BY DEF p, Reached, Table
    <3>2. /\ ChosenBy(o, m + 1, t) = ChosenBy(o, m, t)
          /\ SplitBy(k, o, m + 1) = SplitBy(k, o, m)
          /\ ScaleBy(o, m + 1) = ScaleBy(o, m)
          /\ ModelBy(o, m + 1) = ModelBy(o, m)
      BY <2>2 DEF ChosenBy, SplitBy, ScaleBy, ModelBy
    <3>. QED
      BY <2>2, <2>3, <2>4, <3>1, <3>2 DEF Reached
  <2>6. Checked(o, m + 1, t)
    BY <2>2 DEF Checked
  <2>. QED
    BY <2>5, <2>6 DEF next, p, s
<1>9. CASE s.kind = "select_target"
  <2>1. \A l \in {"handle_missing", "encode_categorical"} : ~ Upto(o, m, l)
    BY <1>1, <1>9 DEF Canvas!CanonicalOrder
  <2>2. /\ Upto(o, m + 1, "select_target")
        /\ \A l : l # "select_target" => (Upto(o, m + 1, l) <=> Upto(o, m, l))
    BY <1>1, <1>9
  <2>3. ~ Upto(o, m + 1, "lag_features")
    BY <1>3, <2>2 DEF LagNames
  <2>4. p.frame = Canvas!ReadCsv
    BY <1>2, <2>1, <2>2, <2>3 DEF EncodedBy, FilledBy, LaggedBy
  <2>5. next = IF t \in Csv THEN p ELSE [p EXCEPT !.refused = "column"]
    BY <1>2, <1>4, <1>9, <2>4 DEF next, Canvas!Prepare
  <2>6. t \in Csv
    BY <1>5, <2>5, Altered DEF p, Reached
  <2>7. p = Reached(k, o, m + 1, t)
    BY <2>2 DEF p, Reached, EncodedBy, FilledBy, LaggedBy, ChosenBy, SplitBy, ScaleBy, ModelBy
  <2>8. Checked(o, m + 1, t)
    BY <2>3, <2>6 DEF Checked
  <2>. QED
    BY <2>5, <2>6, <2>7, <2>8 DEF next, p, s
<1>10. CASE s.kind = "select_features"
  <2>1. /\ Upto(o, m + 1, "select_features")
        /\ \A l : l # "select_features" => (Upto(o, m + 1, l) <=> Upto(o, m, l))
    BY <1>1, <1>10
  <2>2. next = [p EXCEPT !.features = s.columns \ {t}]
    BY <1>2, <1>10 DEF next, Canvas!Prepare
  <2>3. EncodedBy(o, m + 1, t) = EncodedBy(o, m, t)
    BY <2>1 DEF EncodedBy, FilledBy, LaggedBy
  <2>4. ChosenBy(o, m + 1, t) = s.columns \ {t}
    BY <1>1, <1>10, <2>1 DEF ChosenBy
  <2>5. next = Reached(k, o, m + 1, t)
    <3>1. [p EXCEPT !.features = s.columns \ {t}]
            = Table(EncodedBy(o, m, t), s.columns \ {t}, SplitBy(k, o, m), ScaleBy(o, m), ModelBy(o, m))
      <4>1. PICK v : v = s.columns \ {t}
        OBVIOUS
      <4>2. [p EXCEPT !.features = v]
              = Table(EncodedBy(o, m, t), v, SplitBy(k, o, m), ScaleBy(o, m), ModelBy(o, m))
        BY DEF p, Reached, Table
      <4>. QED
        BY <4>1, <4>2
    <3>2. /\ SplitBy(k, o, m + 1) = SplitBy(k, o, m)
          /\ ScaleBy(o, m + 1) = ScaleBy(o, m)
          /\ ModelBy(o, m + 1) = ModelBy(o, m)
      BY <2>1 DEF SplitBy, ScaleBy, ModelBy
    <3>. QED
      BY <2>1, <2>2, <2>3, <2>4, <3>1, <3>2 DEF Reached
  <2>6. Checked(o, m + 1, t)
    BY <2>1 DEF Checked
  <2>. QED
    BY <2>5, <2>6 DEF next, p, s
<1>11. CASE s.kind = "train_test_split"
  <2>1. /\ Upto(o, m + 1, "train_test_split")
        /\ \A l : l # "train_test_split" => (Upto(o, m + 1, l) <=> Upto(o, m, l))
    BY <1>1, <1>11
  <2>2. next = [p EXCEPT !.split = Canvas!Split(s)]
    BY <1>2, <1>11 DEF next, Canvas!Prepare
  <2>3. EncodedBy(o, m + 1, t) = EncodedBy(o, m, t)
    BY <2>1 DEF EncodedBy, FilledBy, LaggedBy
  <2>4. SplitBy(k, o, m + 1) = Canvas!Split(s)
    BY <1>1, <1>11, <2>1 DEF SplitBy
  <2>5. next = Reached(k, o, m + 1, t)
    <3>1. [p EXCEPT !.split = Canvas!Split(s)]
            = Table(EncodedBy(o, m, t), ChosenBy(o, m, t), Canvas!Split(s), ScaleBy(o, m), ModelBy(o, m))
      BY DEF p, Reached, Table
    <3>2. /\ ChosenBy(o, m + 1, t) = ChosenBy(o, m, t)
          /\ ScaleBy(o, m + 1) = ScaleBy(o, m)
          /\ ModelBy(o, m + 1) = ModelBy(o, m)
      BY <2>1 DEF ChosenBy, ScaleBy, ModelBy
    <3>. QED
      BY <2>1, <2>2, <2>3, <2>4, <3>1, <3>2 DEF Reached
  <2>6. Checked(o, m + 1, t)
    BY <2>1 DEF Checked
  <2>. QED
    BY <2>5, <2>6 DEF next, p, s
<1>12. CASE s.kind = "scale_features"
  <2>1. /\ Upto(o, m + 1, "scale_features")
        /\ \A l : l # "scale_features" => (Upto(o, m + 1, l) <=> Upto(o, m, l))
    BY <1>1, <1>12
  <2>2. next = [p EXCEPT !.scale = s.strategy]
    BY <1>2, <1>12 DEF next, Canvas!Prepare
  <2>3. EncodedBy(o, m + 1, t) = EncodedBy(o, m, t)
    BY <2>1 DEF EncodedBy, FilledBy, LaggedBy
  <2>4. ScaleBy(o, m + 1) = s.strategy
    BY <1>1, <1>12, <2>1 DEF ScaleBy
  <2>5. next = Reached(k, o, m + 1, t)
    <3>1. [p EXCEPT !.scale = s.strategy]
            = Table(EncodedBy(o, m, t), ChosenBy(o, m, t), SplitBy(k, o, m), s.strategy, ModelBy(o, m))
      BY DEF p, Reached, Table
    <3>2. /\ ChosenBy(o, m + 1, t) = ChosenBy(o, m, t)
          /\ SplitBy(k, o, m + 1) = SplitBy(k, o, m)
          /\ ModelBy(o, m + 1) = ModelBy(o, m)
      BY <2>1 DEF ChosenBy, SplitBy, ModelBy
    <3>. QED
      BY <2>1, <2>2, <2>3, <2>4, <3>1, <3>2 DEF Reached
  <2>6. Checked(o, m + 1, t)
    BY <2>1 DEF Checked
  <2>. QED
    BY <2>5, <2>6 DEF next, p, s
<1>13. CASE s.kind = "train_model"
  <2>1. /\ Upto(o, m + 1, "train_model")
        /\ \A l : l # "train_model" => (Upto(o, m + 1, l) <=> Upto(o, m, l))
    BY <1>1, <1>13
  <2>2. next = [p EXCEPT !.model = <<Canvas!Estimator(s)>>]
    BY <1>2, <1>13 DEF next, Canvas!Prepare
  <2>3. EncodedBy(o, m + 1, t) = EncodedBy(o, m, t)
    BY <2>1 DEF EncodedBy, FilledBy, LaggedBy
  <2>4. ModelBy(o, m + 1) = <<Canvas!Estimator(s)>>
    BY <1>1, <1>13, <2>1 DEF ModelBy
  <2>5. next = Reached(k, o, m + 1, t)
    <3>1. [p EXCEPT !.model = <<Canvas!Estimator(s)>>]
            = Table(EncodedBy(o, m, t), ChosenBy(o, m, t), SplitBy(k, o, m), ScaleBy(o, m), <<Canvas!Estimator(s)>>)
      BY DEF p, Reached, Table
    <3>2. /\ ChosenBy(o, m + 1, t) = ChosenBy(o, m, t)
          /\ SplitBy(k, o, m + 1) = SplitBy(k, o, m)
          /\ ScaleBy(o, m + 1) = ScaleBy(o, m)
      BY <2>1 DEF ChosenBy, SplitBy, ScaleBy
    <3>. QED
      BY <2>1, <2>2, <2>3, <2>4, <3>1, <3>2 DEF Reached
  <2>6. Checked(o, m + 1, t)
    BY <2>1 DEF Checked
  <2>. QED
    BY <2>5, <2>6 DEF next, p, s
<1>14. CASE s.kind \in {"load_csv", "evaluate"}
  <2>1. \A l : l \notin {"load_csv", "evaluate"} => (Upto(o, m + 1, l) <=> Upto(o, m, l))
    BY <1>1, <1>14
  <2>2. next = p
    BY <1>2, <1>14 DEF next, Canvas!Prepare
  <2>3. p = Reached(k, o, m + 1, t)
    BY <2>1 DEF p, Reached, EncodedBy, FilledBy, LaggedBy, ChosenBy, SplitBy, ScaleBy, ModelBy
  <2>4. Checked(o, m + 1, t)
    BY <2>1 DEF Checked
  <2>. QED
    BY <2>2, <2>3, <2>4 DEF next, p, s
<1>. QED
  BY <1>1, <1>6, <1>7, <1>8, <1>9, <1>10, <1>11, <1>12, <1>13, <1>14 DEF TableKinds, Canvas!TabularSteps

LEMMA LoopReaches ==
  ASSUME NEW n \in Nat, NEW o, Sorted(o, n), NEW k, NEW t, LagNames(o, n, t),
         Canvas!Prepared(k, o, t).refused = "no"
  PROVE  Canvas!Prepared(k, o, t) = Reached(k, o, n, t) /\ Checked(o, n, t)
<1>1. DOMAIN o = 1 .. n
  BY DEF Sorted, Single
<1>2. PICK p : /\ p[0] = LoopStart(k)
               /\ \A m \in 1 .. n : p[m] = Canvas!Prepare(p[m - 1], o[m], t)
               /\ Canvas!Prepared(k, o, t) = p[n]
  BY <1>1, PreparedIs
<1> DEFINE Holds(m) == m <= n /\ p[m].refused = "no" => p[m] = Reached(k, o, m, t) /\ Checked(o, m, t)
<1> DEFINE P == {m \in Nat : Holds(m)}
<1>3. 0 \in P
  <2>1. \A l : ~ Upto(o, 0, l)
    BY DEF Upto
  <2>2. Reached(k, o, 0, t) = LoopStart(k)
    BY <2>1 DEF Reached, Table, LoopStart, EncodedBy, FilledBy, LaggedBy, ChosenBy, SplitBy, ScaleBy,
       ModelBy
  <2>3. Checked(o, 0, t)
    BY <2>1 DEF Checked
  <2>. QED
    BY <1>2, <2>2, <2>3
<1>4. ASSUME NEW m \in Nat, m \in P PROVE m + 1 \in P
  <2> SUFFICES ASSUME m + 1 <= n, p[m + 1].refused = "no"
               PROVE  p[m + 1] = Reached(k, o, m + 1, t) /\ Checked(o, m + 1, t)
    OBVIOUS
  <2>1. m \in 0 .. n - 1 /\ m + 1 \in 1 .. n /\ (m + 1) - 1 = m
    OBVIOUS
  <2>2. p[m + 1] = Canvas!Prepare(p[m], o[m + 1], t)
    BY <1>2, <2>1
  <2>3. p[m].refused = "no"
    BY <2>2 DEF Canvas!Prepare
  <2>4. p[m] = Reached(k, o, m, t) /\ Checked(o, m, t)
    BY <1>4, <2>1, <2>3
  <2>. QED
    BY <2>1, <2>2, <2>4, Advances
<1>5. \A m \in Nat : m \in P
  <2> HIDE DEF P
  <2>. QED
    BY <1>3, <1>4, Counting
<1>6. Holds(n)
  BY <1>5
<1>. QED
  BY <1>2, <1>6

(* After the last step the blocks are all there. *)
LEMMA BlocksAre ==
  ASSUME NEW n \in Nat, NEW o, Sorted(o, n), NEW k, NEW t
  PROVE  /\ \A l : Upto(o, n, l) <=> Canvas!Has(o, l)
         /\ LaggedBy(o, n, t) = Canvas!LagBlock(o, t)
         /\ FilledBy(o, n, t) = Canvas!MissingBlock(o, t)
         /\ EncodedBy(o, n, t) = Canvas!EncodingBlock(o, t)
         /\ SplitBy(k, o, n) = Canvas!WrittenSplit(k, o)
         /\ ScaleBy(o, n) = Canvas!WrittenScale(o)
<1>1. \A l : Upto(o, n, l) <=> Canvas!Has(o, l)
  <2>1. DOMAIN o = 1 .. n
    BY DEF Sorted, Single
  <2>. QED
    BY <2>1, HasMeans DEF Upto
<1>2. LaggedBy(o, n, t) = Canvas!LagBlock(o, t)
  BY <1>1 DEF LaggedBy, Canvas!LagBlock
<1>3. FilledBy(o, n, t) = Canvas!MissingBlock(o, t)
  BY <1>1, <1>2 DEF FilledBy, Canvas!MissingBlock
<1>4. EncodedBy(o, n, t) = Canvas!EncodingBlock(o, t)
  BY <1>1, <1>3 DEF EncodedBy, Canvas!EncodingBlock
<1>5. SplitBy(k, o, n) = Canvas!WrittenSplit(k, o) /\ ScaleBy(o, n) = Canvas!WrittenScale(o)
  BY <1>1 DEF SplitBy, Canvas!WrittenSplit, ScaleBy, Canvas!WrittenScale
<1>. QED
  BY <1>1, <1>2, <1>3, <1>4, <1>5

(* A model whose every setting is taken is built as it is written. *)
LEMMA WrittenIsBuilt ==
  ASSUME NEW steps, Canvas!Fits(Canvas!WrittenModel(steps))
  PROVE  Canvas!Estimator(Canvas!ByKind(steps, "train_model")) = Canvas!WrittenModel(steps)
<1> DEFINE s == Canvas!ByKind(steps, "train_model")
<1>1. Canvas!WrittenModel(steps) = [algorithm |-> s.algorithm, hyper |-> s.hyper]
  BY DEF Canvas!WrittenModel
<1> HIDE DEF s
<1>2. s.hyper \subseteq Canvas!Takes(s.algorithm)
  BY <1>1 DEF Canvas!Fits
<1>3. s.algorithm = "linear_regression" => s.hyper = {}
  BY <1>2 DEF Canvas!Takes
<1>. QED
  BY <1>1, <1>3 DEF Canvas!Estimator, s

LEMMA SameScores == ASSUME NEW k PROVE Canvas!Scores(k) = Canvas!WrittenScores(k)
BY DEF Canvas!Scores, Canvas!WrittenScores

(* What is asked of a sorted pipeline with the target t. *)
Plain(o, t) ==
  /\ Canvas!Has(o, "lag_features") => /\ ~ Canvas!Has(o, "select_target")
                                      /\ t = Canvas!Target(Canvas!ByKind(o, "lag_features"))
                                      /\ Canvas!Has(o, "handle_missing")
                                           => Canvas!ByKind(o, "handle_missing").columns = {}
  /\ Canvas!Has(o, "handle_missing") => Canvas!ByKind(o, "handle_missing").columns \subseteq Csv
  /\ Canvas!Has(o, "select_features") => Canvas!ByKind(o, "select_features").columns # {t}
  /\ Canvas!Has(o, "train_model")
  /\ Canvas!Fits(Canvas!WrittenModel(o))

LEMMA ScriptAgrees ==
  ASSUME NEW n \in Nat, NEW o, Sorted(o, n), NEW k, NEW t, Plain(o, t),
         Canvas!Complaint(k, Canvas!Prepared(k, o, t), t) = "no"
  PROVE  LET p == Canvas!Prepared(k, o, t) IN
         /\ ~ Canvas!ScriptFails(o, t)
         /\ p.frame.done = Canvas!EncodingBlock(o, t).done
         /\ Canvas!Features(p, t) = Canvas!WrittenFeatures(o, t)
         /\ p.split = Canvas!WrittenSplit(k, o)
         /\ p.scale = Canvas!WrittenScale(o)
         /\ p.model[1] = Canvas!WrittenModel(o)
<1>1. PICK p : p = Canvas!Prepared(k, o, t)
  OBVIOUS
<1>2. /\ p.refused = "no"
      /\ t \in p.frame.cols /\ Canvas!Features(p, t) \subseteq p.frame.cols
      /\ Canvas!Features(p, t) # {} /\ Canvas!Features(p, t) \cap p.frame.text = {}
  BY <1>1 DEF Canvas!Complaint
<1>3. \A l : Upto(o, n, l) <=> Canvas!Has(o, l)
  BY BlocksAre
<1>4. LagNames(o, n, t)
  BY <1>3 DEF LagNames, Plain
<1>5. p = Reached(k, o, n, t) /\ Checked(o, n, t)
  BY <1>1, <1>2, <1>4, LoopReaches
<1>6. /\ p.frame = Canvas!EncodingBlock(o, t) /\ p.features = ChosenBy(o, n, t)
      /\ p.split = Canvas!WrittenSplit(k, o) /\ p.scale = Canvas!WrittenScale(o)
           /\ p.model = ModelBy(o, n)
  BY <1>5, BlocksAre, Altered DEF Reached
<1>7. p.model[1] = Canvas!WrittenModel(o)
  <2>1. p.model = <<Canvas!Estimator(Canvas!ByKind(o, "train_model"))>>
    BY <1>3, <1>6 DEF ModelBy, Plain
  <2>. QED
    BY <2>1, WrittenIsBuilt DEF Plain
<1>8. Canvas!Features(p, t) = Canvas!WrittenFeatures(o, t)
  <2>1. CASE Canvas!Has(o, "select_features")
    <3>1. PICK chosen : chosen = Canvas!ByKind(o, "select_features").columns
      OBVIOUS
    <3>2. p.features = chosen \ {t} /\ chosen # {t}
      BY <1>3, <1>6, <2>1, <3>1 DEF ChosenBy, Plain
    <3>3. Canvas!WrittenFeatures(o, t) = (IF chosen = {} THEN p.frame.cols ELSE chosen) \ {t}
      BY <1>6, <2>1, <3>1 DEF Canvas!WrittenFeatures
    <3>4. chosen = {} <=> p.features = {}
      BY <3>2
    <3>. QED
      BY <3>2, <3>3, <3>4 DEF Canvas!Features
  <2>2. CASE ~ Canvas!Has(o, "select_features")
    BY <1>3, <1>6, <2>2 DEF ChosenBy, Canvas!Features, Canvas!WrittenFeatures
  <2>. QED
    BY <2>1, <2>2
<1>9. Canvas!Has(o, "handle_missing")
        => ~ Canvas!MissingBlockFails(Canvas!LagBlock(o, t), Canvas!ByKind(o, "handle_missing"))
  <2> SUFFICES ASSUME Canvas!Has(o, "handle_missing")
               PROVE  Canvas!ByKind(o, "handle_missing").columns \subseteq Canvas!LagBlock(o, t).cols
    BY DEF Canvas!MissingBlockFails
  <2>1. CASE Canvas!Has(o, "lag_features")
    BY <2>1 DEF Plain
  <2>2. CASE ~ Canvas!Has(o, "lag_features")
    BY <2>2 DEF Plain, Canvas!LagBlock, Canvas!ReadCsv
  <2>. QED
    BY <2>1, <2>2
<1>10. ~ Canvas!ScriptFails(o, t)
  <2>1. Canvas!Has(o, "select_target") => t \in Csv
    BY <1>3, <1>5 DEF Checked
  <2>2. Canvas!Has(o, "lag_features") => Canvas!ByKind(o, "lag_features").column \in Csv
    BY <1>3, <1>5 DEF Checked
  <2>3. Canvas!WrittenFeatures(o, t) \cup {t} \subseteq Canvas!EncodingBlock(o, t).cols
    BY <1>2, <1>6, <1>8
  <2>4. Canvas!WrittenFeatures(o, t) # {}
          /\ Canvas!WrittenFeatures(o, t) \cap Canvas!EncodingBlock(o, t).text = {}
    BY <1>2, <1>6, <1>8
  <2>5. Canvas!Fits(Canvas!WrittenModel(o))
    BY DEF Plain
  <2>. QED
    BY <1>9, <2>1, <2>2, <2>3, <2>4, <2>5, Zenon DEF Canvas!ScriptFails
<1>. QED
  BY <1>1, <1>6, <1>7, <1>8, <1>10

(* On a pipeline that is plainly written the script does what the run does. *)
LEMMA TablesAgree ==
  ASSUME NEW n \in Nat, NEW steps, Single(steps, n), NEW k,
         Plain(Canvas!Ordered(steps), Canvas!TargetName(k, Canvas!Ordered(steps))), Canvas!RunTabular(k, steps).refused = "no"
  PROVE  Canvas!RunScript(k, steps) = Canvas!RunTabular(k, steps)
<1>1. PICK o : o = Canvas!Ordered(steps)
  OBVIOUS
<1>2. PICK t : t = Canvas!TargetName(k, o)
  OBVIOUS
<1>3. PICK p : p = Canvas!Prepared(k, o, t)
  OBVIOUS
<1>4. Canvas!RunTabular(k, steps)
        = IF Canvas!Complaint(k, p, t) # "no" THEN Canvas!Refused(Canvas!Complaint(k, p, t))
          ELSE [refused |-> "no", done |-> p.frame.done, features |-> Canvas!Features(p, t), target |-> t,
                split |-> p.split, scale |-> p.scale, model |-> p.model[1], scores |-> Canvas!Scores(k)]
  BY <1>1, <1>2, <1>3 DEF Canvas!RunTabular
<1>5. Canvas!Complaint(k, p, t) = "no"
  BY <1>4 DEF Canvas!Refused
<1>6. /\ ~ Canvas!ScriptFails(o, t) /\ p.frame.done = Canvas!EncodingBlock(o, t).done
           /\ Canvas!Features(p, t) = Canvas!WrittenFeatures(o, t)
      /\ p.split = Canvas!WrittenSplit(k, o) /\ p.scale = Canvas!WrittenScale(o)
           /\ p.model[1] = Canvas!WrittenModel(o)
  BY <1>1, <1>2, <1>3, <1>5, OrderedIsSorted, ScriptAgrees
<1>7. Canvas!RunScript(k, steps)
        = IF Canvas!ScriptFails(o, t) THEN Canvas!Refused("script")
          ELSE [refused |-> "no", done |-> Canvas!EncodingBlock(o, t).done,
                features |-> Canvas!WrittenFeatures(o, t), target |-> t, split |-> Canvas!WrittenSplit(k, o),
                scale |-> Canvas!WrittenScale(o), model |-> Canvas!WrittenModel(o), scores |-> Canvas!WrittenScores(k)]
  BY <1>1, <1>2 DEF Canvas!RunScript
<1>. QED
  BY <1>4, <1>5, <1>6, <1>7, SameScores

-----------------------------------------------------------------------------
(* What is stored: steps a learner drew, valid and cleaned. *)

Stores(k, steps, raw) ==
  /\ raw \in Seq(Canvas!Step) /\ Canvas!ValidSequence(k, raw)
  /\ steps = [i \in DOMAIN raw |-> Canvas!Cleaned(raw[i])]

CanvasInv ==
  /\ kind \in Canvas!WorkflowKinds
  /\ draft \in Seq(Canvas!Step)
  /\ saved = << >> \/ \E raw \in Seq(Canvas!Step) : Stores(kind, saved, raw)

LEMMA CleanedKeeps ==
  ASSUME NEW s, "kind" \in DOMAIN s
  PROVE  /\ Canvas!Cleaned(s).kind = s.kind
         /\ s.kind \in {"handle_missing", "select_features"}
              => Canvas!Gives(Canvas!Cleaned(s), "columns")
<1>1. PICK d : d = Canvas!Defaults(s.kind)
  OBVIOUS
<1>2. Canvas!Cleaned(s) = [field \in DOMAIN s \cup DOMAIN d |-> IF field \in DOMAIN s THEN s[field]
                                                                ELSE d[field]]
  BY <1>1 DEF Canvas!Cleaned
<1>3. s.kind \in {"handle_missing", "select_features"} => "columns" \in DOMAIN d
  BY <1>1 DEF Canvas!Defaults
<1>. QED
  BY <1>2, <1>3 DEF Canvas!Gives

LEMMA StoredIs ==
  ASSUME Canvas!Settings, NEW k, NEW steps, NEW raw, Stores(k, steps, raw)
  PROVE  /\ Len(raw) \in Nat /\ Len(raw) # 0 /\ DOMAIN raw = 1 .. Len(raw)
              /\ DOMAIN steps = 1 .. Len(raw)
         /\ \A i \in 1 .. Len(raw) :
              /\ steps[i].kind = raw[i].kind /\ steps[i].kind \in Canvas!StepsFor(k)
              /\ steps[i].kind \in {"handle_missing", "select_features"}
                   => Canvas!Gives(steps[i], "columns")
         /\ \A l : Canvas!Times(steps, l) = Canvas!Times(raw, l)
<1>1. Len(raw) \in Nat /\ DOMAIN raw = 1 .. Len(raw) /\ Len(raw) # 0 /\ \A i \in 1 .. Len(raw) :
          raw[i] \in Canvas!Step
  BY DEF Stores, Canvas!ValidSequence
<1>2. \A i \in 1 .. Len(raw) : "kind" \in DOMAIN raw[i]
  BY <1>1 DEF Canvas!Settings
<1>3. DOMAIN steps = 1 .. Len(raw) /\ \A i \in 1 .. Len(raw) : steps[i] = Canvas!Cleaned(raw[i])
  BY <1>1 DEF Stores
<1>4. ASSUME NEW i \in 1 .. Len(raw)
      PROVE  /\ steps[i].kind = raw[i].kind /\ steps[i].kind \in Canvas!StepsFor(k)
             /\ steps[i].kind \in {"handle_missing", "select_features"}
                  => Canvas!Gives(steps[i], "columns")
  <2>1. Canvas!ValidStep(k, raw[i])
    BY <1>1, <1>4 DEF Stores, Canvas!ValidSequence
  <2>2. Canvas!Cleaned(raw[i]).kind \in Canvas!StepsFor(k)
    BY <2>1 DEF Canvas!ValidStep
  <2>. QED
    BY <1>2, <1>3, <2>2, CleanedKeeps
<1>5. ASSUME NEW l PROVE Canvas!Times(steps, l) = Canvas!Times(raw, l)
  <2>1. {i \in DOMAIN steps : steps[i].kind = l} = {i \in DOMAIN raw : raw[i].kind = l}
    BY <1>1, <1>3, <1>4
  <2>. QED
    BY <2>1 DEF Canvas!Times
<1>. QED
  BY <1>1, <1>3, <1>4, <1>5

(* A workflow on a table, stored and plainly written. *)
TableFlows == {"tabular_classification", "tabular_regression", "timeseries_forecast"}

LEMMA StoredTable ==
  ASSUME Canvas!Settings, NEW k \in TableFlows, NEW steps, NEW raw, Stores(k, steps, raw),
         Canvas!OnePerKind(steps)
  PROVE  /\ Single(steps, Len(raw))
         /\ Canvas!Has(steps, "train_model")
         /\ k = "timeseries_forecast" => Canvas!Has(steps, "lag_features")
         /\ k # "timeseries_forecast" => Canvas!Has(steps, "select_target")
              /\ ~ Canvas!Has(steps, "lag_features")
<1> DEFINE n == Len(raw)
<1>1. /\ n \in Nat /\ DOMAIN raw = 1 .. n /\ DOMAIN steps = 1 .. n
      /\ \A i \in 1 .. n : steps[i].kind = raw[i].kind /\ steps[i].kind \in Canvas!StepsFor(k)
      /\ \A l : Canvas!Times(steps, l) = Canvas!Times(raw, l)
  BY StoredIs
<1>2. Canvas!StepsFor(k) \subseteq TableKinds
        /\ (k # "timeseries_forecast" => "lag_features" \notin Canvas!StepsFor(k))
  BY DEF TableFlows, Canvas!StepsFor, TableKinds, Canvas!TabularSteps
<1>3. Single(steps, n)
  BY <1>1, <1>2, OneOfEach
<1>4. /\ Canvas!TrainsThenScores(raw)
      /\ IF k = "timeseries_forecast" THEN Canvas!Times(raw, "lag_features") > 0
         ELSE Canvas!Times(raw, "select_target") > 0
  BY DEF Stores, Canvas!ValidSequence, TableFlows
<1>5. Canvas!Has(steps, "train_model")
  BY <1>1, <1>4 DEF Canvas!Has, Canvas!TrainsThenScores
<1>6. k = "timeseries_forecast" => Canvas!Has(steps, "lag_features")
  BY <1>1, <1>4 DEF Canvas!Has
<1>7. k # "timeseries_forecast" => Canvas!Has(steps, "select_target")
  BY <1>1, <1>4 DEF Canvas!Has
<1>8. k # "timeseries_forecast" => ~ Canvas!Has(steps, "lag_features")
  BY <1>1, <1>2, HasMeans
<1> HIDE DEF n
<1>. QED
  BY <1>3, <1>5, <1>6, <1>7, <1>8 DEF n

LEMMA StoredIsPlain ==
  ASSUME Canvas!Settings, NEW k \in TableFlows, NEW steps, NEW raw, Stores(k, steps, raw),
         Canvas!PlainlyWritten(k, steps)
  PROVE  Single(steps, Len(raw))
           /\ Plain(Canvas!Ordered(steps), Canvas!TargetName(k, Canvas!Ordered(steps)))
<1> DEFINE n == Len(raw)
<1> DEFINE o == Canvas!Ordered(steps)
<1>1. /\ n \in Nat /\ DOMAIN steps = 1 .. n
      /\ \A i \in 1 .. n :
             steps[i].kind \in {"handle_missing", "select_features"}
             => Canvas!Gives(steps[i], "columns")
  BY StoredIs
<1>2. /\ Single(steps, n)
      /\ Canvas!Has(steps, "train_model")
      /\ k = "timeseries_forecast" => Canvas!Has(steps, "lag_features")
      /\ k # "timeseries_forecast" => Canvas!Has(steps, "select_target")
           /\ ~ Canvas!Has(steps, "lag_features")
  BY StoredTable DEF Canvas!PlainlyWritten
<1>3. \A l : (Canvas!Has(o, l) <=> Canvas!Has(steps, l)) /\ (Canvas!Has(steps, l) => Canvas!ByKind(o, l) = Canvas!ByKind(steps, l))
  BY <1>1, <1>2, OrderedKeeps
<1>4. ASSUME NEW l, Canvas!Has(steps, l)
      PROVE  \E i \in 1 .. n : steps[i].kind = l /\ Canvas!ByKind(steps, l) = steps[i]
  <2>1. PICK i \in 1 .. n : steps[i].kind = l
    BY <1>1, <1>4, HasMeans
  <2>2. Canvas!ByKind(steps, steps[i].kind) = steps[i]
    BY <1>1, <1>2, ByKindIs DEF Single
  <2>. QED
    BY <2>1, <2>2
<1>5. \E i \in 1 .. n : Canvas!NamesTarget(k, steps[i]) /\ \A j \in 1 .. n :
          Canvas!NamesTarget(k, steps[j]) => j = i
  <2>1. CASE k = "timeseries_forecast"
    <3>1. Canvas!Has(steps, "lag_features") /\ ~ Canvas!Has(steps, "select_target")
      BY <1>2, <2>1 DEF Canvas!PlainlyWritten
    <3>2. PICK i \in 1 .. n : steps[i].kind = "lag_features"
      BY <1>4, <3>1
    <3>3. \A j \in 1 .. n : steps[j].kind # "select_target"
      BY <1>1, <3>1, HasMeans
    <3>. QED
      BY <1>2, <2>1, <3>2, <3>3 DEF Canvas!NamesTarget, Single
  <2>2. CASE k # "timeseries_forecast"
    <3>1. PICK i \in 1 .. n : steps[i].kind = "select_target"
      BY <1>2, <1>4, <2>2
    <3>. QED
      BY <1>2, <2>2, <3>1 DEF Canvas!NamesTarget, Single
  <2>. QED
    BY <2>1, <2>2
<1>6. Canvas!TargetName(k, o) = Canvas!TargetName(k, steps)
  BY <1>1, <1>2, <1>5, OrderedTarget
<1>7. Canvas!Has(steps, "lag_features")
        => Canvas!TargetName(k, o) = Canvas!Target(Canvas!ByKind(steps, "lag_features"))
  <2> SUFFICES ASSUME Canvas!Has(steps, "lag_features")
               PROVE  Canvas!TargetName(k, steps) = Canvas!Target(Canvas!ByKind(steps, "lag_features"))
    BY <1>6
  <2>1. PICK i \in 1 .. n : steps[i].kind = "lag_features"
               /\ Canvas!ByKind(steps, "lag_features") = steps[i]
    BY <1>4
  <2>2. k = "timeseries_forecast" /\ Canvas!NamesTarget(k, steps[i])
    BY <1>2, <2>1 DEF Canvas!NamesTarget
  <2>3. \A j \in 1 .. n : Canvas!NamesTarget(k, steps[j]) => j = i
    BY <1>5, <2>2
  <2>4. Canvas!TargetName(k, steps) = IF steps[i].kind = "select_target" THEN steps[i].column
                                      ELSE Canvas!Target(steps[i])
    BY <1>1, <2>2, <2>3, TargetIs
  <2>. QED
    BY <2>1, <2>4
<1>8. Canvas!Has(steps, "handle_missing")
        => Canvas!ByKind(steps, "handle_missing").columns \subseteq Csv
  BY <1>1, <1>4 DEF Canvas!PlainlyWritten
<1>9. /\ Canvas!Has(steps, "lag_features") => ~ Canvas!Has(steps, "select_target")
      /\ Canvas!Has(steps, "lag_features") /\ Canvas!Has(steps, "handle_missing")
           => Canvas!ByKind(steps, "handle_missing").columns = {}
      /\ Canvas!Has(steps, "select_features")
           => Canvas!ByKind(steps, "select_features").columns # {Canvas!TargetName(k, steps)}
      /\ Canvas!Fits(Canvas!WrittenModel(steps))
  BY <1>2 DEF Canvas!PlainlyWritten
<1>10. Canvas!WrittenModel(o) = Canvas!WrittenModel(steps)
  BY <1>2, <1>3 DEF Canvas!WrittenModel
<1> HIDE DEF n, o
<1>11. Plain(o, Canvas!TargetName(k, o))
  BY <1>2, <1>3, <1>6, <1>7, <1>8, <1>9, <1>10 DEF Plain
<1>. QED
  BY <1>2, <1>11 DEF n, o

LEMMA QuestionsAgree ==
  ASSUME Canvas!Settings, NEW k \in {"llm_playground", "llm_vision"}, NEW steps, NEW raw,
         Stores(k, steps, raw)
  PROVE  Canvas!Script(k, steps) = Canvas!Execute(k, steps)
<1> DEFINE n == Len(raw)
<1>1. /\ n \in Nat /\ DOMAIN raw = 1 .. n /\ DOMAIN steps = 1 .. n
      /\ \A i \in 1 .. n : steps[i].kind = raw[i].kind /\ steps[i].kind \in Canvas!StepsFor(k)
  BY StoredIs
<1>2. n = 1
  <2>1. Canvas!KindsOf(raw) = <<"prompt">> \/ Canvas!KindsOf(raw) = <<"vision_prompt">>
    BY DEF Stores, Canvas!ValidSequence
  <2>2. DOMAIN Canvas!KindsOf(raw) = 1 .. 1
    BY <2>1
  <2>3. 1 .. n = 1 .. 1
    BY <1>1, <2>2 DEF Canvas!KindsOf
  <2>4. 1 \in 1 .. n /\ \A i \in 1 .. n : i = 1
    BY <2>3
  <2>. QED
    BY <1>1, <2>4
<1> HIDE DEF n
<1>3. Placed(steps, 1)
  BY <1>1, <1>2 DEF Placed, Canvas!StepsFor, Canvas!CanonicalOrder
<1>4. Nth(steps, 1) \in 1 .. 1 /\ Canvas!Ordered(steps)[1] = steps[Nth(steps, 1)]
  BY <1>3, OrderedIs
<1>5. Canvas!Ordered(steps)[1] = steps[1]
  BY <1>4
<1>. QED
  BY <1>5 DEF Canvas!Script, Canvas!Execute

LEMMA ImagesAgree ==
  ASSUME Canvas!Settings, NEW steps, NEW raw, Stores("image_classification", steps, raw),
         Canvas!PlainlyWritten("image_classification", steps), Canvas!RunImages(steps).refused = "no"
  PROVE  Canvas!RunImageScript(steps) = Canvas!RunImages(steps)
<1>1. Canvas!Has(steps, "train_model")
  <2>1. Canvas!Times(steps, "train_model") = Canvas!Times(raw, "train_model")
    BY StoredIs
  <2>2. Canvas!Times(raw, "train_model") > 0
    BY DEF Stores, Canvas!ValidSequence, Canvas!ValidImageSequence, Canvas!TrainsThenScores
  <2>. QED
    BY <2>1, <2>2 DEF Canvas!Has
<1>2. Canvas!Fits(Canvas!WrittenModel(steps)) /\ {e \in photos : e.class # Canvas!Unlabelled} = photos
  BY <1>1 DEF Canvas!PlainlyWritten
<1>3. Canvas!Estimator(Canvas!ByKind(steps, "train_model")) = Canvas!WrittenModel(steps)
  BY <1>2, WrittenIsBuilt
<1>4. Canvas!RunImages(steps)
        = IF ~ Canvas!Trainable(photos) THEN Canvas!Refused("images")
          ELSE IF ~ Canvas!Fits(Canvas!WrittenModel(steps)) THEN Canvas!Refused("fit")
          ELSE Canvas!ImageRun(steps, photos, Canvas!WrittenModel(steps))
  BY <1>3, Zenon DEF Canvas!RunImages
<1>5. Canvas!Trainable(photos)
  BY <1>4 DEF Canvas!Refused
<1>6. Cardinality(Canvas!NamedClasses(photos)) >= 2
  BY <1>5, SameOperators DEF Canvas!Trainable
<1>. QED
  BY <1>2, <1>4, <1>5, <1>6, SameOperators DEF Canvas!RunImageScript

LEMMA ExportFollows ==
  ASSUME Canvas!Settings, CanvasInv
  PROVE  Canvas!ExportMatchesRun
<1> SUFFICES ASSUME saved # << >>, Canvas!PlainlyWritten(kind, saved),
                    Canvas!Execute(kind, saved).refused = "no"
             PROVE  Canvas!Script(kind, saved) = Canvas!Execute(kind, saved)
  BY DEF Canvas!ExportMatchesRun
<1>1. kind \in Canvas!WorkflowKinds
  BY DEF CanvasInv
<1>2. PICK raw : Stores(kind, saved, raw)
  BY DEF CanvasInv
<1>3. CASE kind \in {"llm_playground", "llm_vision"}
  BY <1>2, <1>3, QuestionsAgree
<1>4. CASE kind = "image_classification"
  <2>1. Canvas!Execute(kind, saved) = Canvas!RunImages(saved)
          /\ Canvas!Script(kind, saved) = Canvas!RunImageScript(saved)
    BY <1>4 DEF Canvas!Execute, Canvas!Script
  <2>. QED
    BY <1>2, <1>4, <2>1, ImagesAgree
<1>5. CASE kind \in TableFlows
  <2>1. Canvas!Execute(kind, saved) = Canvas!RunTabular(kind, saved)
          /\ Canvas!Script(kind, saved) = Canvas!RunScript(kind, saved)
    BY <1>5 DEF Canvas!Execute, Canvas!Script, TableFlows
  <2>2. Len(raw) \in Nat
    BY <1>2, StoredIs
  <2>3. /\ Single(saved, Len(raw))
        /\ Plain(Canvas!Ordered(saved), Canvas!TargetName(kind, Canvas!Ordered(saved)))
    BY <1>2, <1>5, StoredIsPlain
  <2>. QED
    BY <2>1, <2>2, <2>3, TablesAgree
<1>. QED
  BY <1>1, <1>3, <1>4, <1>5 DEF Canvas!WorkflowKinds, TableFlows

LEMMA CanvasInvInit ==
  ASSUME Canvas!Settings, Canvas!Init
  PROVE  CanvasInv
BY DEF Canvas!Settings, Canvas!Init, CanvasInv

LEMMA CanvasInvNext ==
  ASSUME Canvas!Settings, CanvasInv, [Canvas!Next]_Canvas!vars
  PROVE  CanvasInv'
<1>1. draft \in Seq(Canvas!Step) /\ kind \in Canvas!WorkflowKinds
        /\ (saved = << >> \/ \E raw \in Seq(Canvas!Step) : Stores(kind, saved, raw))
  BY DEF CanvasInv
<1>2. ASSUME NEW steps \in Seq(Canvas!Step), Canvas!Edit(steps) PROVE CanvasInv'
  BY <1>1, <1>2 DEF Canvas!Edit, CanvasInv
<1>3. CASE Canvas!AddStep
  <2>1. PICK s \in Palette, i \in 1 .. Len(draft) + 1 : Canvas!Edit(Canvas!InsertAt(draft, i, s))
    BY <1>3 DEF Canvas!AddStep
  <2>2. s \in Canvas!Step
    BY DEF Canvas!Step
  <2>3. SubSeq(draft, 1, i - 1) \in Seq(Canvas!Step)
          /\ SubSeq(draft, i, Len(draft)) \in Seq(Canvas!Step)
    BY <1>1
  <2>4. Canvas!InsertAt(draft, i, s) \in Seq(Canvas!Step)
    BY <2>2, <2>3 DEF Canvas!InsertAt
  <2>. QED
    BY <1>2, <2>1, <2>4
<1>4. CASE Canvas!RemoveStep
  <2>1. PICK i \in DOMAIN draft : Canvas!Edit(Canvas!RemoveAt(draft, i))
    BY <1>4 DEF Canvas!RemoveStep
  <2>2. Canvas!RemoveAt(draft, i) \in Seq(Canvas!Step)
    BY <1>1 DEF Canvas!RemoveAt
  <2>. QED
    BY <1>2, <2>1, <2>2
<1>5. CASE Canvas!MoveStep
  <2>1. PICK i \in DOMAIN draft, j \in DOMAIN draft : i < j
               /\ Canvas!Edit(Canvas!InsertAt(Canvas!RemoveAt(draft, j), i, draft[j]))
    BY <1>5 DEF Canvas!MoveStep
  <2>3. draft[j] \in Canvas!Step /\ i \in 1 .. Len(draft) /\ j \in 1 .. Len(draft)
    BY <1>1
  <2>9. SubSeq(draft, 1, j - 1) \in Seq(Canvas!Step) /\ Len(SubSeq(draft, 1, j - 1)) = j - 1
    BY <1>1, <2>3
  <2>10. SubSeq(draft, j + 1, Len(draft)) \in Seq(Canvas!Step)
           /\ Len(SubSeq(draft, j + 1, Len(draft))) = Len(draft) - j
    BY <1>1, <2>3
  <2>2. Canvas!RemoveAt(draft, j) \in Seq(Canvas!Step)
          /\ Len(Canvas!RemoveAt(draft, j)) = Len(draft) - 1
    <3> DEFINE a == SubSeq(draft, 1, j - 1)
               b == SubSeq(draft, j + 1, Len(draft))
    <3>1. Canvas!RemoveAt(draft, j) = a \o b
      BY DEF Canvas!RemoveAt
    <3>2. Len(draft) \in Nat /\ j \in Nat
      BY <1>1, <2>3
    <3>3. a \in Seq(Canvas!Step) /\ b \in Seq(Canvas!Step) /\ Len(a) = j - 1 /\ Len(b) = Len(draft) - j
      BY <2>9, <2>10
    <3> HIDE DEF a, b
    <3>4. a \o b \in Seq(Canvas!Step) /\ Len(a \o b) = Len(a) + Len(b)
      BY <3>3, ConcatProperties, Zenon
    <3>. QED
      BY <3>1, <3>2, <3>3, <3>4
  <2>4. PICK rest \in Seq(Canvas!Step) : rest = Canvas!RemoveAt(draft, j) /\ Len(rest) = Len(draft) - 1
    BY <2>2
  <2>5. SubSeq(rest, 1, i - 1) \in Seq(Canvas!Step) /\ SubSeq(rest, i, Len(rest)) \in Seq(Canvas!Step)
    BY <1>1, <2>1, <2>3, <2>4
  <2>6. Canvas!InsertAt(rest, i, draft[j]) \in Seq(Canvas!Step)
    BY <2>3, <2>5 DEF Canvas!InsertAt
  <2>. QED
    BY <1>2, <2>1, <2>4, <2>6
<1>6. CASE Canvas!Save
  <2>1. Stores(kind, saved', draft)
    BY <1>1, <1>6 DEF Canvas!Save, Stores
  <2>. QED
    BY <1>1, <1>6, <2>1 DEF Canvas!Save, CanvasInv
<1>7. CASE UNCHANGED Canvas!vars
  BY <1>1, <1>7 DEF Canvas!vars, CanvasInv
<1>. QED
  BY <1>3, <1>4, <1>5, <1>6, <1>7 DEF Canvas!Next

(* The canvas moves or keeps still. *)
LEMMA DrawnInit == MCInit => CanvasInv
<1> SUFFICES ASSUME MCInit PROVE CanvasInv
  OBVIOUS
<1>1. CASE Canvas!Init
  BY <1>1, BackgroundAssumption, CanvasInvInit
<1>2. CASE CanvasIdle
  BY <1>2 DEF CanvasIdle, CanvasInv, Canvas!WorkflowKinds
<1>. QED
  BY <1>1, <1>2 DEF MCInit

LEMMA DrawnNext == CanvasInv /\ [MCNext]_<<part, index, runs, canvas>> => CanvasInv'
<1> SUFFICES ASSUME CanvasInv, [MCNext]_<<part, index, runs, canvas>> PROVE CanvasInv'
  OBVIOUS
<1>1. [Canvas!Next]_Canvas!vars
  BY DEF MCNext, canvas, Canvas!vars
<1>. QED
  BY <1>1, BackgroundAssumption, CanvasInvNext

(* Whatever the learner drops on the canvas and in whatever order, a run   *)
(* that succeeds did what the exported script does, except in the cases    *)
(* PlainlyWritten names: for any steps, columns, archives and bounds       *)
(* (steps.py ordered_steps, execution.py run_tabular, codegen.py).         *)
THEOREM ExportIsFaithful == MCSpec => []ExportMatchesRun
<1>1. CanvasInv => ExportMatchesRun
  BY BackgroundAssumption, ExportFollows DEF ExportMatchesRun
<1>. QED
  BY DrawnInit, DrawnNext, <1>1, PTL DEF MCSpec
=============================================================================
