----------------------------- MODULE ForgeRuns -----------------------------
(* A learner's workflow and its runs: requests that check the budget, store *)
(* a run and send it to the queue, workers that take the message, call the  *)
(* model or train, and store the answer.  Messages are acknowledged when    *)
(* they are taken; the broker may lose a reply; a process may be killed.    *)
EXTENDS Integers, FiniteSetsExt

CONSTANTS
  Run, Request, Worker, None,
  Kind,     \* the kinds of workflow there may be
  Cost,     \* what a prompt may cost, in tokens
  Cap,      \* LLM_DAILY_TOKEN_CAP, 0 for none
  MaxWasted,         \* bound on what is charged for empty replies
  MaxKills, MaxLost  \* bounds on killed processes and lost replies

VARIABLES
  data,    \* the datasets row the workflow uses is there
  flow,    \* workflows: [kind, data, cost, there]
  run,     \* workflow_runs: the status of each row, "free" or "gone"
  queue,   \* messages waiting, per run
  req,     \* requests: [pc, run]
  job,     \* workers: [pc, run, outcome, tokens]
  billed,  \* what the provider charged today
  wasted,  \* what of that was for replies that said nothing
  ledger,  \* what llm_usage holds for today
  crowded, \* a run was asked for, or the steps replaced, with a run unfinished
  kills, lost

table == <<data, flow, run>>
money == <<billed, wasted, ledger>>
history == <<crowded, kills, lost>>
vars == <<table, queue, req, job, money, history>>

(* Costs and the cap are numbers of tokens, and None is no run. *)
Settings == IsFiniteSet(Worker) /\ Cost \subseteq Nat /\ Cap \in Nat /\ None \notin Run

LlmKinds == {"llm_playground", "llm_vision"}
Unfinished == {"queued", "running"}
Finished == {"succeeded", "failed"}

Idle == [pc |-> "idle", run |-> None]
Free == [pc |-> "idle", run |-> None, outcome |-> "", tokens |-> 0]

Flow(k, d, c, t) == [kind |-> k, data |-> d, cost |-> c, there |-> t]

Init ==
  /\ data = TRUE
  /\ \E k \in Kind, c \in Cost : flow = Flow(k, k # "llm_playground", c, TRUE)
  /\ run = [r \in Run |-> "free"]
  /\ queue = [r \in Run |-> 0]
  /\ req = [q \in Request |-> Idle]
  /\ job = [w \in Worker |-> Free]
  /\ billed = 0
  /\ wasted = 0
  /\ ledger = 0
  /\ crowded = FALSE
  /\ kills = 0
  /\ lost = 0

SomeUnfinished ==
  (\E r \in Run : run[r] \in Unfinished) \/ (\E q \in Request : req[q] # Idle) \/ (\E w \in Worker : job[w] # Free)

-----------------------------------------------------------------------------
(* The learner's other requests. *)

(* The foreign key clears workflow.dataset_id. *)
DeleteDataset ==
  /\ data
  /\ data' = FALSE
  /\ flow' = Flow(flow.kind, FALSE, flow.cost, flow.there)
  /\ UNCHANGED <<run, queue, req, job, money, history>>

ReplaceSteps ==
  /\ flow.there
  /\ \E c \in Cost \ {flow.cost} : flow' = Flow(flow.kind, flow.data, c, TRUE)
  /\ crowded' = (crowded \/ SomeUnfinished)
  /\ UNCHANGED <<data, run, queue, req, job, money, kills, lost>>

(* The runs go with their workflow, whatever they are doing. *)
DeleteWorkflow ==
  /\ flow.there
  /\ flow' = Flow(flow.kind, flow.data, flow.cost, FALSE)
  /\ run' = [r \in Run |-> IF run[r] = "free" THEN "free" ELSE "gone"]
  /\ UNCHANGED <<data, queue, req, job, money, history>>

-----------------------------------------------------------------------------
(* start_run. *)

(* check_budget: something is left, and this call fits it. *)
Affordable(used, cost) == Cap = 0 \/ (used < Cap /\ used + cost <= Cap)

(* The checks; a request they refuse changes nothing. *)
StartRun(q) ==
  /\ req[q] = Idle
  /\ flow.there
  /\ flow.kind \in LlmKinds => Affordable(ledger, flow.cost)
  /\ flow.kind # "llm_playground" => flow.data
  /\ req' = [req EXCEPT ![q] = [pc |-> "insert", run |-> None]]
  /\ crowded' = (crowded \/ SomeUnfinished)
  /\ UNCHANGED <<table, queue, job, money, kills, lost>>

(* The row is committed before anything is queued; without its workflow the *)
(* insert fails.                                                            *)
Insert(q) ==
  /\ req[q].pc = "insert"
  /\ IF flow.there
     THEN \E r \in Run :
            /\ run[r] = "free"
            /\ run' = [run EXCEPT ![r] = "queued"]
            /\ req' = [req EXCEPT ![q] = [pc |-> "dispatch", run |-> r]]
     ELSE run' = run /\ req' = [req EXCEPT ![q] = Idle]
  /\ UNCHANGED <<data, flow, queue, job, money, history>>

Sent(q, n) == queue' = [queue EXCEPT ![req[q].run] = @ + n]

(* The broker takes the message. *)
Dispatch(q) ==
  /\ req[q].pc = "dispatch"
  /\ Sent(q, 1)
  /\ req' = [req EXCEPT ![q] = Idle]
  /\ UNCHANGED <<table, job, money, history>>

(* It does not, or it does and its reply is lost: publishing is tried once  *)
(* more, and that may work (two messages) or not (one, reported as none).   *)
DispatchBadly(q) ==
  /\ req[q].pc = "dispatch"
  /\ \/ Sent(q, 0) /\ req' = [req EXCEPT ![q] = [pc |-> "refuse", run |-> req[q].run]] /\ lost' = lost
     \/ /\ lost < MaxLost
        /\ lost' = lost + 1
        /\ \/ Sent(q, 1) /\ req' = [req EXCEPT ![q] = [pc |-> "refuse", run |-> req[q].run]]
           \/ Sent(q, 2) /\ req' = [req EXCEPT ![q] = Idle]
  /\ UNCHANGED <<table, job, money, crowded, kills>>

(* Fault: the error is answered, the row left as it was. *)
RefuseOnly(q) ==
  /\ req[q].pc = "refuse"
  /\ run' = run
  /\ req' = [req EXCEPT ![q] = Idle]
  /\ UNCHANGED <<data, flow, queue, job, money, history>>

(* BrokerUnavailableError: the row is marked, whatever it says by now. *)
Refuse(q) ==
  /\ req[q].pc = "refuse"
  /\ run' = IF run[req[q].run] = "gone" THEN run ELSE [run EXCEPT ![req[q].run] = "failed"]
  /\ req' = [req EXCEPT ![q] = Idle]
  /\ UNCHANGED <<data, flow, queue, job, money, history>>

-----------------------------------------------------------------------------
(* execute_run. *)

(* The first commit: the row is running.  A run that is gone fails the task. *)
Take(w, r) ==
  /\ job[w] = Free
  /\ queue[r] > 0
  /\ queue' = [queue EXCEPT ![r] = @ - 1]
  /\ IF run[r] = "gone" THEN UNCHANGED <<run, job>>
     ELSE /\ run' = [run EXCEPT ![r] = "running"]
          /\ job' = [job EXCEPT ![w] = [pc |-> "work", run |-> r, outcome |-> "", tokens |-> 0]]
  /\ UNCHANGED <<data, flow, req, money, history>>

Outcome(w, o, t) == job' = [job EXCEPT ![w] = [pc |-> "store", run |-> @.run, outcome |-> o, tokens |-> t]]

Fails(w) == Outcome(w, "failed", 0) /\ UNCHANGED <<billed, wasted>>

(* _run_llm: the prompt is read now, and the provider answers with an error *)
(* for nothing, or charges up to what the prompt may cost.  Charged or not, *)
(* a reply that is empty is an error: no spend is recorded with it.         *)
AskModel(w) ==
  \/ Fails(w)
  \/ \E t \in 1 .. flow.cost :
       /\ billed' = billed + t
       /\ \/ Outcome(w, "succeeded", t) /\ wasted' = wasted
          \/ Outcome(w, "failed", 0) /\ wasted' = wasted + t /\ wasted' <= MaxWasted

(* _run_vision: the same, with the image read from the dataset. *)
AskVision(w) == IF flow.data THEN AskModel(w) ELSE Fails(w)

(* The data decides how a training run ends. *)
Train(w) ==
  /\ \E o \in Finished : (o = "succeeded" => flow.data) /\ Outcome(w, o, 0)
  /\ UNCHANGED <<billed, wasted>>

(* What the work raises ends in a failed run too: with its workflow deleted *)
(* there is nothing to read.                                                *)
Work(w) ==
  /\ job[w].pc = "work"
  /\ IF ~ flow.there THEN Fails(w)
     ELSE CASE flow.kind = "llm_playground" -> AskModel(w)
            [] flow.kind = "llm_vision" -> AskVision(w)
            [] OTHER -> Train(w)
  /\ UNCHANGED <<table, queue, req, ledger, history>>

(* Fault: the answer is stored and what it cost is not.                    *)
StoreAnswerOnly(w) ==
  /\ job[w].pc = "store"
  /\ IF run[job[w].run] = "gone" THEN UNCHANGED <<run, ledger>>
     ELSE /\ run' = [run EXCEPT ![job[w].run] = job[w].outcome]
          /\ ledger' = ledger
  /\ job' = [job EXCEPT ![w] = Free]
  /\ UNCHANGED <<data, flow, queue, req, billed, wasted, history>>

(* The second commit: the answer and the llm_usage row, both or, when the   *)
(* run has been deleted meanwhile, neither.                                 *)
Store(w) ==
  /\ job[w].pc = "store"
  /\ IF run[job[w].run] = "gone" THEN UNCHANGED <<run, ledger>>
     ELSE /\ run' = [run EXCEPT ![job[w].run] = job[w].outcome]
          /\ ledger' = ledger + job[w].tokens
  /\ job' = [job EXCEPT ![w] = Free]
  /\ UNCHANGED <<data, flow, queue, req, billed, wasted, history>>

-----------------------------------------------------------------------------
(* A process is killed: nobody goes on with what it was doing. *)
Kill ==
  /\ kills < MaxKills
  /\ kills' = kills + 1
  /\ \/ \E q \in Request : req[q] # Idle /\ req' = [req EXCEPT ![q] = Idle] /\ job' = job
     \/ \E w \in Worker : job[w] # Free /\ job' = [job EXCEPT ![w] = Free] /\ req' = req
  /\ UNCHANGED <<table, queue, money, crowded, lost>>

RequestStep(q) == StartRun(q) \/ Insert(q) \/ Dispatch(q) \/ DispatchBadly(q) \/ Refuse(q)
WorkerStep(w) == (\E r \in Run : Take(w, r)) \/ Work(w) \/ Store(w)

Next ==
  \/ DeleteDataset \/ ReplaceSteps \/ DeleteWorkflow \/ Kill
  \/ \E q \in Request : RequestStep(q)
  \/ \E w \in Worker : WorkerStep(w)

(* A request that has begun goes on, and the workers serve every run's      *)
(* messages; nobody has to ask for anything.                                *)
Fairness ==
  /\ \A q \in Request : WF_vars(Insert(q)) /\ WF_vars(Dispatch(q) \/ DispatchBadly(q)) /\ WF_vars(Refuse(q))
  /\ \A w \in Worker : WF_vars(Work(w)) /\ WF_vars(Store(w))
  /\ \A r \in Run : SF_vars(\E w \in Worker : Take(w, r))

Spec == Init /\ [][Next]_vars /\ Fairness

-----------------------------------------------------------------------------
ReqType == [pc : {"idle", "insert", "dispatch", "refuse"}, run : Run \cup {None}]
JobType == [pc : {"idle", "work", "store"}, run : Run \cup {None}, outcome : {""} \cup Finished, tokens : Nat]

TypeOK ==
  /\ data \in BOOLEAN
  /\ flow \in [kind : Kind, data : BOOLEAN, cost : Cost, there : BOOLEAN]
  /\ run \in [Run -> {"free", "gone"} \cup Unfinished \cup Finished]
  /\ queue \in [Run -> Nat]
  /\ req \in [Request -> ReqType]
  /\ job \in [Worker -> JobType]
  /\ billed \in Nat /\ wasted \in Nat /\ ledger \in Nat
  /\ crowded \in BOOLEAN /\ kills \in Nat /\ lost \in Nat

(* Somebody still has to do with a run: a message, the request that sends   *)
(* it or reports that it could not, or a worker.                            *)
Pursued(r) ==
  \/ queue[r] > 0
  \/ \E q \in Request : req[q].run = r
  \/ \E w \in Worker : job[w].run = r

(* A run that is shown as queued or running is on its way, unless a process *)
(* was killed (runs.py: "nothing is lost if the tab closes").               *)
RunsArePursued == \A r \in Run : run[r] \in Unfinished => Pursued(r) \/ kills > 0

Held == SumFunction([w \in Worker |-> job[w].tokens])

(* The ledger misses nothing of what was charged, but the charges for empty *)
(* replies and what a killed worker or a deleted workflow took with it      *)
(* (llm_budget.py: "the ledger is the only record of what was spent").      *)
ChargesRecorded == (flow.there /\ kills = 0) => billed = ledger + Held + wasted

(* But for empty replies, which no check sees, the cap holds for a learner  *)
(* who waits for one run before asking for the next: queued runs have spent *)
(* nothing yet, so all of those who do not wait may pass the check.  Nor    *)
(* does it hold when a lost reply runs one run twice, or when a charge is   *)
(* not in the ledger.                                                       *)
DailyCapHolds ==
  (Cap > 0 /\ ~ crowded /\ flow.there /\ kills = 0 /\ lost = 0) => billed <= Cap + wasted

(* What was charged for answers is in the ledger, and within the cap (both  *)
(* of them); what was charged for empty replies is in neither.              *)
LedgerIsExact == ChargesRecorded /\ DailyCapHolds

(* Every run that was stored ends, or is deleted. *)
RunsFinish == \A r \in Run : run[r] \in Unfinished ~> (run[r] \in Finished \cup {"gone"} \/ kills > 0)
=============================================================================
