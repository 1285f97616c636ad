------------------------------ MODULE RepoIndex ------------------------------
(***************************************************************************)
(* One indexed repository of services/pulse: the row a user asks for, the  *)
(* Celery task that ingests it batch by batch, the chunks each batch       *)
(* commits and the daily allowance each batch spends.                      *)
(*                                                                         *)
(* Asking again for a repository already indexed, or being indexed, sends  *)
(* another message, so two tasks may ingest one row at the same time; a    *)
(* task may be killed at any point, GitHub and the embedding service may   *)
(* fail at any call, HEAD may move and the row may be deleted.             *)
(*                                                                         *)
(* A file is its place in the tree listing and costs Price tokens to embed *)
(* by the estimate, which is never below the bill; a file of price 0 has   *)
(* no text to embed.  The chunks of a file are stored together, so they    *)
(* are counted as copies of the file.                                      *)
(***************************************************************************)
EXTENDS Integers, FiniteSets, SequencesExt

CONSTANTS
  Sha,         \* commits of the repository
  Tree,        \* the files a commit's listing selects, as places in it
  Price,       \* estimate_tokens of each file
  Batch,       \* INDEX_BATCH_FILES
  Cap,         \* the owner's daily allowance
  Worker,      \* Celery worker processes (a bound)
  None,
  MaxAsked,    \* bound on messages and requests outstanding
  MaxCrashes   \* bound on processes that die

File == UNION {Tree[s] : s \in Sha}

ASSUME TreeAssumption ==
  /\ None \notin Sha
  /\ \A s \in Sha : Tree[s] \subseteq Nat /\ IsFiniteSet(Tree[s])
ASSUME PriceAssumption == Price \in [File -> Nat]
ASSUME BoundsAssumption == Batch \in Nat \ {0} /\ {Cap, MaxAsked, MaxCrashes} \subseteq Nat

VARIABLES
  head,      \* HEAD of the default branch at GitHub
  status,    \* indexed_repos.status, "none" before the row and "gone" after it
  ingest,    \* ingest_sha
  commit,    \* commit_sha
  stored,    \* repo_chunks: copies of each file at each commit
  asking,    \* requests between their commit and their dispatch
  queued,    \* index_repo messages at the broker
  task,      \* what each worker is doing
  used,      \* tokens in today's ledger
  crashes    \* history: processes that died

vars == <<head, status, ingest, commit, stored, asking, queued, task, used, crashes>>
record == <<status, ingest, commit, stored>>

-----------------------------------------------------------------------------
Asked    == {"pending", "running"}
Answered == {"ready", "error", "rate_limited", "paused"}
Exists   == status \notin {"none", "gone"}

Task == [pc: {"idle", "off", "read", "prepare", "loop", "embed", "save"},
         sha: Sha \cup {None}, seen: Sha \cup {None}, todo: Seq(Seq(File)), cost: Nat]

At(pc, sha, seen, todo, cost) ==
  [pc |-> pc, sha |-> sha, seen |-> seen, todo |-> todo, cost |-> cost]
Idle == At("idle", None, None, <<>>, 0)
Off  == At("off", None, None, <<>>, 0)

Busy(w) == task[w].pc \notin {"idle", "off"}

Become(w, t) == task' = [task EXCEPT ![w] = t]
Step(w, pc, todo, cost) == Become(w, At(pc, task[w].sha, task[w].seen, todo, cost))

(* The files in the order of their places. *)
Place(files, f) == Cardinality({g \in files : g <= f})
Listing(files)  == [i \in 1 .. Cardinality(files) |-> CHOOSE f \in files : Place(files, f) = i]

(* _batched: the list cut into pieces of at most Batch files. *)
Batched(list) ==
  [i \in 1 .. (Len(list) + Batch - 1) \div Batch |->
     SubSeq(list, (i - 1) * Batch + 1, IF i * Batch < Len(list) THEN i * Batch ELSE Len(list))]

Estimate(batch) == FoldLeft(LAMBDA sum, f : sum + Price[f], 0, batch)
Text(files) == {f \in files : Price[f] > 0}

(* _stored_paths: by path, whatever commit the chunks came from. *)
StoredPaths == {f \in File : \E s \in Sha : stored[<<f, s>>] > 0}

Empty == [x \in File \X Sha |-> 0]

-----------------------------------------------------------------------------
(* The row and the queue.                                                  *)

(* request_public_index and request_own_repos: check the allowance, upsert *)
(* the row as pending, commit.  A deleted row is not asked for again here. *)
Ask ==
  /\ used < Cap /\ asking + queued < MaxAsked
  /\ status # "gone"
  /\ status' = "pending"
  /\ asking' = asking + 1
  /\ UNCHANGED <<head, ingest, commit, stored, queued, task, used, crashes>>

(* queue_indexes: the message goes out after the commit. *)
Dispatch ==
  /\ asking > 0
  /\ asking' = asking - 1
  /\ queued' = queued + 1
  /\ UNCHANGED <<head, record, task, used, crashes>>

(* The broker refused: the row that got no task says so. *)
DispatchRefused ==
  /\ asking > 0
  /\ asking' = asking - 1
  /\ status' = IF Exists THEN "error" ELSE status
  /\ UNCHANGED <<head, ingest, commit, stored, queued, task, used, crashes>>

(* The broker took it, and its answer was lost: the row says so and the    *)
(* task runs.                                                              *)
DispatchUnclear ==
  /\ asking > 0
  /\ asking' = asking - 1
  /\ queued' = queued + 1
  /\ status' = IF Exists THEN "error" ELSE status
  /\ UNCHANGED <<head, ingest, commit, stored, task, used, crashes>>

(* delete_indexed_repo: the chunks go with the row. *)
Delete ==
  /\ Exists
  /\ status' = "gone" /\ ingest' = None /\ commit' = None /\ stored' = Empty
  /\ UNCHANGED <<head, asking, queued, task, used, crashes>>

-----------------------------------------------------------------------------
(* ingest_repo.                                                            *)

(* A message for a row that is gone is dropped; otherwise the row says     *)
(* running and is read, ingest_sha with it.                                *)
Start(w) ==
  /\ task[w].pc = "idle" /\ queued > 0
  /\ queued' = queued - 1
  /\ IF Exists
       THEN status' = "running" /\ Become(w, At("read", None, ingest, <<>>, 0))
       ELSE UNCHANGED <<status, task>>
  /\ UNCHANGED <<head, ingest, commit, stored, asking, used, crashes>>

(* The commit HEAD names, and the first look at the allowance. *)
ReadHead(w) ==
  /\ task[w].pc = "read" /\ used < Cap
  /\ Become(w, At("prepare", head, task[w].seen, <<>>, 0))
  /\ UNCHANGED <<head, record, asking, queued, used, crashes>>

(* Fault: a run resumes whatever commit the chunks came from. *)
PrepareAnyCommit(w) ==
  LET t == task[w]
      done == IF t.seen # None THEN StoredPaths ELSE {}
  IN  /\ t.pc = "prepare" /\ Exists
      /\ stored' = IF t.seen # None THEN stored ELSE Empty
      /\ ingest' = t.sha
      /\ Step(w, "loop", Batched(Listing(Tree[t.sha] \ done)), 0)
      /\ UNCHANGED <<head, status, commit, asking, queued, used, crashes>>

(* Fault: a resumed run reads every file again. *)
PrepareFromTop(w) ==
  LET t == task[w]
      resuming == t.seen = t.sha
  IN  /\ t.pc = "prepare" /\ Exists
      /\ stored' = IF resuming THEN stored ELSE Empty
      /\ ingest' = IF resuming THEN ingest ELSE t.sha
      /\ Step(w, "loop", Batched(Listing(Tree[t.sha])), 0)
      /\ UNCHANGED <<head, status, commit, asking, queued, used, crashes>>

(* _prepare_run: resume the commit of an unfinished run, or start over. A  *)
(* resumed row is not written.                                             *)
Prepare(w) ==
  LET t == task[w]
      resuming == t.seen = t.sha
      done == IF resuming THEN StoredPaths ELSE {}
  IN  /\ t.pc = "prepare" /\ Exists
      /\ stored' = IF resuming THEN stored ELSE Empty
      /\ ingest' = IF resuming THEN ingest ELSE t.sha
      /\ Step(w, "loop", Batched(Listing(Tree[t.sha] \ done)), 0)
      /\ UNCHANGED <<head, status, commit, asking, queued, used, crashes>>

Current(w) == Head(task[w].todo)
HasBatch(w) == task[w].pc = "loop" /\ task[w].todo # <<>> /\ used < Cap /\ Exists

(* A batch with no text in it is read and done. *)
SkipBatch(w) ==
  /\ HasBatch(w) /\ Text(ToSet(Current(w))) = {}
  /\ Step(w, "loop", Tail(task[w].todo), 0)
  /\ UNCHANGED <<head, record, asking, queued, used, crashes>>

(* Fault: the check knows only what has been billed. *)
FitsSoFar(batch) == used <= Cap

(* check_budget with the estimate of the call about to be made *)
Fits(batch) == Estimate(batch) \in 0 .. Cap - used

(* The batch fits what is left of the allowance. *)
AdmitBatch(w) ==
  /\ HasBatch(w) /\ Text(ToSet(Current(w))) # {} /\ Fits(Current(w))
  /\ Step(w, "embed", task[w].todo, 0)
  /\ UNCHANGED <<head, record, asking, queued, used, crashes>>

(* Fault: the batch goes back whole. *)
RequeueBatch(w) ==
  /\ HasBatch(w) /\ ~Fits(Current(w)) /\ Len(Current(w)) > 1
  /\ UNCHANGED vars

(* It does not: its halves go back to the front of the queue. *)
SplitBatch(w) ==
  LET b == Current(w)
      half == Len(b) \div 2
  IN  /\ HasBatch(w) /\ ~Fits(b) /\ Len(b) > 1
      /\ Step(w, "loop", <<SubSeq(b, 1, half), SubSeq(b, half + 1, Len(b))>>
                           \o Tail(task[w].todo), 0)
      /\ UNCHANGED <<head, record, asking, queued, used, crashes>>

(* embed_texts: one request after another, each billed by the provider.    *)
EmbedSome(w) ==
  LET t == task[w]
  IN  /\ t.pc = "embed"
      /\ \E c \in t.cost + 1 .. Estimate(Current(w)) :
           \/ Step(w, "save", t.todo, c)
           \/ c < Estimate(Current(w)) /\ Step(w, "embed", t.todo, c)
      /\ UNCHANGED <<head, record, asking, queued, used, crashes>>

(* One commit: the chunks of the batch and what it cost. *)
SaveBatch(w) ==
  LET t == task[w]
      files == Text(ToSet(Current(w)))
  IN  /\ t.pc = "save" /\ Exists
      /\ stored' = [x \in File \X Sha |->
                      IF x[1] \in files /\ x[2] = t.sha THEN stored[x] + 1 ELSE stored[x]]
      /\ used' = used + t.cost
      /\ Step(w, "loop", Tail(t.todo), 0)
      /\ UNCHANGED <<head, status, ingest, commit, asking, queued, crashes>>

(* The row is whole: commit_sha says of what, ingest_sha is cleared. *)
Complete(w) ==
  /\ task[w].pc = "loop" /\ task[w].todo = <<>> /\ Exists
  /\ status' = "ready" /\ commit' = task[w].sha /\ ingest' = None
  /\ Become(w, Idle)
  /\ UNCHANGED <<head, stored, asking, queued, used, crashes>>

-----------------------------------------------------------------------------
(* How else a run ends.                                                    *)

(* _finish: the status is written if the row is still there. *)
Finish(w, s) ==
  /\ status' = IF Exists THEN s ELSE status
  /\ Become(w, Idle)
  /\ UNCHANGED <<head, ingest, commit, stored, asking, queued, used, crashes>>

(* The allowance is gone, or one file alone does not fit it.  Before the   *)
(* first batch that is an error, between batches a pause.                  *)
BudgetStop(w) ==
  \/ task[w].pc = "read" /\ used >= Cap /\ Finish(w, "error")
  \/ /\ task[w].pc = "loop" /\ task[w].todo # <<>> /\ Exists
     /\ used >= Cap \/ (~Fits(Current(w)) /\ Len(Current(w)) = 1)
     /\ Finish(w, "paused")

(* GitHub refused, limited or failed a call; the embedding service did.    *)
GitHubFails(w) ==
  /\ task[w].pc \in {"read", "loop"}
  /\ task[w].pc = "loop" => task[w].todo # <<>>
  /\ \E s \in {"rate_limited", "error"} : Finish(w, s)

EmbeddingFails(w) ==
  /\ task[w].pc = "embed"
  /\ \E s \in {"paused", "error"} : Finish(w, s)

(* The row went: the next statement that needs it raises. *)
RowGone(w) ==
  /\ task[w].pc \in {"prepare", "loop", "save"} /\ ~Exists
  /\ Become(w, Idle)
  /\ UNCHANGED <<head, record, asking, queued, used, crashes>>

(* A worker or a request process is killed. *)
Die ==
  /\ crashes < MaxCrashes
  /\ crashes' = crashes + 1
  /\ \/ asking > 0 /\ asking' = asking - 1 /\ UNCHANGED <<queued, task>>
     \/ queued > 0 /\ queued' = queued - 1 /\ UNCHANGED <<asking, task>>
     \/ \E w \in Worker : Busy(w) /\ Become(w, Idle) /\ UNCHANGED <<asking, queued>>
  /\ UNCHANGED <<head, record, used>>

(* The world outside: a push, and midnight UTC. *)
Push ==
  /\ \E s \in Sha \ {head} : head' = s
  /\ UNCHANGED <<record, asking, queued, task, used, crashes>>

NewDay ==
  /\ used > 0
  /\ used' = 0
  /\ UNCHANGED <<head, record, asking, queued, task, crashes>>

-----------------------------------------------------------------------------
Init ==
  /\ head \in Sha
  /\ status = "none" /\ ingest = None /\ commit = None /\ stored = Empty
  /\ asking = 0 /\ queued = 0 /\ used \in 0 .. Cap /\ crashes = 0
  /\ \E running \in SUBSET Worker \ {{}} :
       task = [w \in Worker |-> IF w \in running THEN Idle ELSE Off]

(* What a worker does by itself with what it took. *)
Work(w) ==
  \/ Start(w) \/ ReadHead(w) \/ Prepare(w)
  \/ SkipBatch(w) \/ AdmitBatch(w) \/ SplitBatch(w) \/ EmbedSome(w) \/ SaveBatch(w) \/ Complete(w)
  \/ BudgetStop(w) \/ RowGone(w)

Next ==
  \/ Ask \/ Dispatch \/ DispatchRefused \/ DispatchUnclear \/ Delete
  \/ \E w \in Worker : Work(w) \/ GitHubFails(w) \/ EmbeddingFails(w)
  \/ Die \/ Push \/ NewDay

(* A request that has committed dispatches, a worker takes messages and    *)
(* goes on with what it took.  Nobody has to ask again, push or wait for   *)
(* midnight, and no call has to fail.                                      *)
Fairness ==
  /\ WF_vars(Dispatch)
  /\ \A w \in Worker : WF_vars(Work(w))

Spec == Init /\ [][Next]_vars /\ Fairness

-----------------------------------------------------------------------------
TypeOK ==
  /\ head \in Sha
  /\ status \in Asked \cup Answered \cup {"none", "gone"}
  /\ {ingest, commit} \subseteq Sha \cup {None}
  /\ stored \in [File \X Sha -> Nat]
  /\ asking \in Nat /\ queued \in Nat /\ used \in Nat /\ crashes \in Nat
  /\ task \in [Worker -> Task]

(* At most one task runs in this deployment. *)
Alone == \A v, w \in Worker : v # w => task[v] = Off \/ task[w] = Off

(* With one task at a time, a ready index -- the only kind chat answers    *)
(* from -- holds every text of the commit it names exactly once and        *)
(* nothing of another, after any series of failures, kills, pauses,        *)
(* resumptions and pushes (_prepare_run: a re-index is a replacement).     *)
ReadyIsWhole ==
  Alone /\ status = "ready" =>
    \A f \in File, s \in Sha :
      stored[<<f, s>>] = IF s = commit /\ f \in Text(Tree[s]) THEN 1 ELSE 0

(* With one task at a time, an unfinished run's chunks are of the commit   *)
(* ingest_sha names, one copy each: resuming never pays for a file again.  *)
PartIsResumable ==
  Alone /\ ingest # None =>
    \A f \in File, s \in Sha : stored[<<f, s>>] <= IF s = ingest /\ f \in Tree[s] THEN 1 ELSE 0

(* With one task at a time, what a run is about to be billed for never     *)
(* takes the day's ledger past the allowance.                              *)
CapHolds ==
  Alone => used <= Cap /\ \A w \in Worker : task[w].pc \in {"embed", "save"} => used + task[w].cost <= Cap

(* Unless a process was killed, a pending row has a request or a message   *)
(* behind it and a running row a task, however many tasks overlap and      *)
(* whatever the broker refuses (queue_indexes).                            *)
NoneForgotten ==
  crashes = 0 =>
    /\ status = "pending" => asking + queued > 0
    /\ status = "running" => \E w \in Worker : Busy(w)

(* Every request is answered: unless a process is killed, a pending or     *)
(* running row becomes ready, paused, limited or failed, or is deleted.    *)
EveryAskIsAnswered ==
  (crashes = 0 /\ status \in Asked) ~> (crashes > 0 \/ status \notin Asked)

(* What answers a question comes from one commit: a re-index replaces the  *)
(* chunks, whatever else is ingesting the row (_prepare_run).              *)
OneSnapshot ==
  status = "ready" => \A f, g \in File, s, r \in Sha : stored[<<f, s>>] > 0 /\ stored[<<g, r>>] > 0 => s = r
=============================================================================
