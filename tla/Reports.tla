------------------------------- MODULE Reports -------------------------------
(***************************************************************************)
(* The weekly reports of one repository and one week in services/pulse:    *)
(* writing, generating, submitting, deciding and deleting them, filing the *)
(* repository under a department, and the ledger of tokens that generation *)
(* spends, under requests that run concurrently.                           *)
(*                                                                         *)
(* A request has a database session of its own at READ COMMITTED.  Nothing *)
(* locks a row and no row carries a version, so a handler is a read step,  *)
(* which checks, and a commit step, which writes what it decided on the    *)
(* read.  SQLAlchemy writes only the columns that changed since the read,  *)
(* and an UPDATE of a row that is gone fails the request (StaleDataError). *)
(* Authority that depends on activity, posts and roles is left open: any   *)
(* person may pass those checks, the author check is kept.                 *)
(*                                                                         *)
(* The repository and the week being fixed, a weekly report is known by    *)
(* its author.  Ad-hoc reports, comments and notes are not modelled here.  *)
(***************************************************************************)
EXTENDS Sequences, Integers, FiniteSets

CONSTANTS
  User,         \* people
  Report,       \* report rows that may ever exist (a bound)
  Worker,       \* requests that may be in flight at once (a bound)
  Dept,         \* departments
  Text,         \* what a report may say
  Blank,        \* the text of a report that says nothing
  None,         \* SQL NULL
  Cap,          \* one person's daily tokens, in generations
  MaxStamp,     \* bound on transactions that log an approval entry
  MaxPaid,      \* bound on one person's generations, when one begins
  MaxWasted,    \* bound on what one person is charged for nothing
  MaxCrashes    \* bound on requests that die half way

ASSUME NoneAssumption ==
  None \notin User /\ None \notin Report /\ None \notin Dept /\ Blank \notin Text
ASSUME BoundsAssumption ==
  Cap \in Nat /\ MaxStamp \in Nat /\ MaxPaid \in Nat /\ MaxWasted \in Nat /\ MaxCrashes \in Nat

VARIABLES
  status,       \* reports.status, or "free" or "deleted" for a row that is not there
  author,       \* reports.author_user_id
  text,         \* the three summaries, as one
  dept,         \* reports.dept_id
  log,          \* the row's approvals, in the order they committed
  repoDept,     \* repositories.dept_id
  clock,        \* what now() counts: transactions that log an entry
  ledger,       \* llm_usage rows of each person today
  paid,         \* history: generations each person has been charged by the provider
  wasted,       \* history: what of them came back as nothing that could be used
  req,          \* what each worker is doing
  crashes       \* history: requests that died half way

vars == <<status, author, text, dept, log, repoDept, clock, ledger, paid, wasted, req, crashes>>
columns == <<status, author, text, dept, log>>
money   == <<ledger, paid, wasted>>

-----------------------------------------------------------------------------
Decisions == {"approved", "rejected", "changes_requested"}
Editable  == {"draft", "changes_requested"}
Status    == {"draft", "submitted"} \cup Decisions
Writing   == Text \cup {Blank}

Entry == [who: User, did: {"submitted"} \cup Decisions, at: Nat]

Steps == {"idle", "off", "create", "update", "submit", "decide", "delete", "generate", "again", "save", "file"}

Request == [pc: Steps, user: User \cup {None}, rep: Report \cup {None},
            text: Writing, dept: Dept \cup {None}, at: Nat]

Start(pc, u, r, t, d, n) ==
  [pc |-> pc, user |-> u, rep |-> r, text |-> t, dept |-> d, at |-> n]
Idle == Start("idle", None, None, Blank, None, 0)
Off  == Start("off", None, None, Blank, None, 0)     \* a worker that is never used

Rows       == {r \in Report : status[r] \in Status}
RowsBy(u)  == {r \in Rows : author[r] = u}
Made(u, a, n) == [who |-> u, did |-> a, at |-> n]

Begin(w, r) == req[w] = Idle /\ req' = [req EXCEPT ![w] = r]
Finish(w)   == req' = [req EXCEPT ![w] = Idle]

(* The first statement of a transaction that will log: now() is fixed here. *)
Stamp == clock < MaxStamp /\ clock' = clock + 1

(* A column is written only when its value is not the one that was read. *)
Write(w, r, t) == text' = IF t = req[w].text THEN text ELSE [text EXCEPT ![r] = t]

(* INSERT, under the unique index on author, repository and week. *)
Insert(w, t) ==
  \E r \in Report :
    /\ status[r] = "free"
    /\ RowsBy(req[w].user) = {}
    /\ status' = [status EXCEPT ![r] = "draft"]
    /\ author' = [author EXCEPT ![r] = req[w].user]
    /\ text' = [text EXCEPT ![r] = t]
    /\ dept' = [dept EXCEPT ![r] = req[w].dept]
    /\ log' = log

(* Faults: a submission without an entry; an entry without its status. *)
RecordDecisions(w, r, a) ==
  /\ status' = [status EXCEPT ![r] = a]
  /\ log' = IF a = "submitted" THEN log
            ELSE [log EXCEPT ![r] = Append(@, Made(req[w].user, a, req[w].at))]
RecordEntryOnly(w, r, a) ==
  /\ status' = [status EXCEPT ![r] = IF a = "rejected" THEN @ ELSE a]
  /\ log' = [log EXCEPT ![r] = Append(@, Made(req[w].user, a, req[w].at))]

(* The new status and its log entry are one commit. *)
Record(w, r, a) ==
  /\ status' = [status EXCEPT ![r] = a]
  /\ log' = [log EXCEPT ![r] = Append(@, Made(req[w].user, a, req[w].at))]

-----------------------------------------------------------------------------
Init ==
  /\ status = [r \in Report |-> "free"]
  /\ author = [r \in Report |-> None]
  /\ text = [r \in Report |-> Blank]
  /\ dept = [r \in Report |-> None]
  /\ log = [r \in Report |-> << >>]
  /\ repoDept = None
  /\ clock = 0
  /\ ledger = [u \in User |-> 0]
  /\ paid = [u \in User |-> 0]
  /\ wasted = [u \in User |-> 0]
  /\ \E running \in SUBSET Worker :
       req = [w \in Worker |-> IF w \in running THEN Idle ELSE Off]
  /\ crashes = 0

-----------------------------------------------------------------------------
(* Writing a report by hand.                                               *)

(* create_report: the repository's department is read here. *)
Create(w, u) ==
  /\ Begin(w, Start("create", u, None, Blank, repoDept, 0))
  /\ UNCHANGED <<columns, repoDept, clock, money, crashes>>

CommitCreate(w, t) ==
  /\ req[w].pc = "create"
  /\ Insert(w, t)
  /\ Finish(w)
  /\ UNCHANGED <<repoDept, clock, money, crashes>>

(* update_report *)
Update(w, r) ==
  /\ r \in Rows
  /\ status[r] \in Editable
  /\ Begin(w, Start("update", author[r], r, text[r], None, 0))
  /\ UNCHANGED <<columns, repoDept, clock, money, crashes>>

CommitUpdate(w, t) ==
  LET r == req[w].rep
  IN
  /\ req[w].pc = "update"
  /\ r \in Rows
  /\ Write(w, r, t)
  /\ Finish(w)
  /\ UNCHANGED <<status, author, dept, log, repoDept, clock, money, crashes>>

(* submit_report; the mail that follows is not modelled *)
Submit(w, r) ==
  /\ r \in Rows
  /\ status[r] \in Editable
  /\ text[r] # Blank
  /\ Stamp
  /\ Begin(w, Start("submit", author[r], r, text[r], None, clock'))
  /\ UNCHANGED <<columns, repoDept, money, crashes>>

CommitSubmit(w) ==
  LET r == req[w].rep
  IN
  /\ req[w].pc = "submit"
  /\ r \in Rows
  /\ Record(w, r, "submitted")
  /\ Finish(w)
  /\ UNCHANGED <<author, text, dept, repoDept, clock, money, crashes>>

(* Fault: any report may be decided. *)
DecideAny(w, u, r) ==
  /\ r \in Rows
  /\ author[r] # u
  /\ Stamp
  /\ Begin(w, Start("decide", u, r, text[r], None, clock'))
  /\ UNCHANGED <<columns, repoDept, money, crashes>>

(* decide_report; the action asked for is named at the commit *)
Decide(w, u, r) ==
  /\ r \in Rows
  /\ author[r] # u
  /\ status[r] = "submitted"
  /\ Stamp
  /\ Begin(w, Start("decide", u, r, text[r], None, clock'))
  /\ UNCHANGED <<columns, repoDept, money, crashes>>

CommitDecide(w, d) ==
  LET r == req[w].rep
  IN
  /\ req[w].pc = "decide"
  /\ r \in Rows
  /\ Record(w, r, d)
  /\ Finish(w)
  /\ UNCHANGED <<author, text, dept, repoDept, clock, money, crashes>>

(* Fault: what was sent back may be deleted. *)
DeleteEditable(w, r) ==
  /\ r \in Rows
  /\ status[r] \in Editable
  /\ Begin(w, Start("delete", author[r], r, text[r], None, 0))
  /\ UNCHANGED <<columns, repoDept, clock, money, crashes>>

(* delete_report; the approvals go with the row *)
Delete(w, r) ==
  /\ r \in Rows
  /\ status[r] = "draft"
  /\ Begin(w, Start("delete", author[r], r, text[r], None, 0))
  /\ UNCHANGED <<columns, repoDept, clock, money, crashes>>

CommitDelete(w) ==
  LET r == req[w].rep
  IN
  /\ req[w].pc = "delete"
  /\ r \in Rows
  /\ status' = [status EXCEPT ![r] = "deleted"]
  /\ log' = [log EXCEPT ![r] = << >>]
  /\ Finish(w)
  /\ UNCHANGED <<author, text, dept, repoDept, clock, money, crashes>>

-----------------------------------------------------------------------------
(* Generating a report.                                                    *)

(* generate_report up to the call: what exists, whether it may be          *)
(* rewritten, and check_budget against the ledger.                         *)
Generate(w, u) ==
  /\ ledger[u] < Cap
  /\ paid[u] < MaxPaid
  /\ \/ /\ RowsBy(u) = {}
        /\ Begin(w, Start("generate", u, None, Blank, repoDept, 0))
     \/ \E r \in RowsBy(u) :
          /\ status[r] \in Editable
          /\ Begin(w, Start("generate", u, r, text[r], None, 0))
  /\ UNCHANGED <<columns, repoDept, clock, money, crashes>>

Asking(w) == req[w].pc \in {"generate", "again"}

GoOn(w, pc) ==
  req' = [req EXCEPT ![w] = Start(pc, req[w].user, req[w].rep, req[w].text, req[w].dept, 0)]

(* generate_summaries, which asks at most twice: an answer, for its charge. *)
Reply(w) ==
  /\ Asking(w)
  /\ paid' = [paid EXCEPT ![req[w].user] = @ + 1]
  /\ GoOn(w, "save")
  /\ UNCHANGED <<columns, repoDept, clock, ledger, wasted, crashes>>

(* An attempt that fails: without an answer, for nothing, or with one that  *)
(* is empty or not the JSON it should be, and charged for all the same.     *)
Attempt(w) ==
  \/ UNCHANGED <<paid, wasted>>
  \/ /\ wasted[req[w].user] < MaxWasted
     /\ paid' = [paid EXCEPT ![req[w].user] = @ + 1]
     /\ wasted' = [wasted EXCEPT ![req[w].user] = @ + 1]

(* The first is tried again. *)
Retry(w) ==
  /\ req[w].pc = "generate"
  /\ Attempt(w)
  /\ GoOn(w, "again")
  /\ UNCHANGED <<columns, repoDept, clock, ledger, crashes>>

(* After the second, LLMError: the request ends and the ledger has nothing. *)
GiveUp(w) ==
  /\ req[w].pc = "again"
  /\ Attempt(w)
  /\ Finish(w)
  /\ UNCHANGED <<columns, repoDept, clock, ledger, crashes>>

(* Faults: the ledger subtracts; the ledger counts a call twice. *)
ChargeBack(w)  == ledger' = [ledger EXCEPT ![req[w].user] = @ - 1]
ChargeTwice(w) == ledger' = [ledger EXCEPT ![req[w].user] = @ + 2]

Charge(w) == ledger' = [ledger EXCEPT ![req[w].user] = @ + 1]

(* Fault: rewriting a draft is not charged. *)
SaveOverUncharged(w, t) ==
  LET r == req[w].rep
  IN
  /\ req[w].pc = "save"
  /\ r \in Rows
  /\ Write(w, r, t)
  /\ Finish(w)
  /\ UNCHANGED <<status, author, dept, log, repoDept, clock, money, crashes>>

(* The row that was read takes the generated text, and the ledger row is   *)
(* in the same commit.                                                     *)
SaveOver(w, t) ==
  LET r == req[w].rep
  IN
  /\ req[w].pc = "save"
  /\ r \in Rows
  /\ Write(w, r, t)
  /\ Charge(w)
  /\ Finish(w)
  /\ UNCHANGED <<status, author, dept, log, repoDept, clock, paid, wasted, crashes>>

SaveNew(w, t) ==
  /\ req[w].pc = "save"
  /\ req[w].rep = None
  /\ Insert(w, t)
  /\ Charge(w)
  /\ Finish(w)
  /\ UNCHANGED <<repoDept, clock, paid, wasted, crashes>>

-----------------------------------------------------------------------------
(* Filing the repository.                                                  *)

(* set_department, by whoever may: the column is written only if the value *)
(* changes, the reports are re-stamped in any case.                        *)
File(w) ==
  /\ Begin(w, Start("file", None, None, Blank, repoDept, 0))
  /\ UNCHANGED <<columns, repoDept, clock, money, crashes>>

(* Fault: the reports keep the department they were opened under. *)
CommitFileRepoOnly(w, d) ==
  /\ req[w].pc = "file"
  /\ repoDept' = IF d = req[w].dept THEN repoDept ELSE d
  /\ Finish(w)
  /\ UNCHANGED <<columns, clock, money, crashes>>

CommitFile(w, d) ==
  /\ req[w].pc = "file"
  /\ repoDept' = IF d = req[w].dept THEN repoDept ELSE d
  /\ dept' = [r \in Report |-> IF r \in Rows THEN d ELSE dept[r]]
  /\ Finish(w)
  /\ UNCHANGED <<status, author, text, log, clock, money, crashes>>

-----------------------------------------------------------------------------
(* The request fails and its transaction is rolled back: the row is gone,  *)
(* the unique index refuses a second one, or the provider is not set up or *)
(* throttles.                                                              *)
Fail(w) ==
  /\ \/ req[w].rep # None /\ req[w].rep \notin Rows
     \/ req[w].pc \in {"create", "save"} /\ req[w].rep = None /\ RowsBy(req[w].user) # {}
     \/ Asking(w)
  /\ Finish(w)
  /\ UNCHANGED <<columns, repoDept, clock, money, crashes>>

(* The process dies. *)
Crash(w) ==
  /\ req[w].pc \notin {"idle", "off"}
  /\ crashes < MaxCrashes
  /\ crashes' = crashes + 1
  /\ Finish(w)
  /\ UNCHANGED <<columns, repoDept, clock, money>>

-----------------------------------------------------------------------------
Commit(w) ==
  \/ CommitSubmit(w) \/ CommitDelete(w) \/ Reply(w) \/ Retry(w) \/ GiveUp(w) \/ Fail(w) \/ Crash(w)
  \/ \E t \in Writing :
       CommitCreate(w, t) \/ CommitUpdate(w, t) \/ SaveOver(w, t) \/ SaveNew(w, t)
  \/ \E d \in Decisions : CommitDecide(w, d)
  \/ \E d \in Dept : CommitFile(w, d)

Next ==
  \E w \in Worker :
    \/ \E u \in User :
         \/ Create(w, u) \/ Generate(w, u)
         \/ \E r \in Report : Decide(w, u, r)
    \/ \E r \in Report : Update(w, r) \/ Submit(w, r) \/ Delete(w, r)
    \/ File(w)
    \/ Commit(w)

Spec == Init /\ [][Next]_vars

-----------------------------------------------------------------------------
TypeOK ==
  /\ status \in [Report -> Status \cup {"free", "deleted"}]
  /\ author \in [Report -> User \cup {None}]
  /\ text \in [Report -> Writing]
  /\ dept \in [Report -> Dept \cup {None}]
  /\ log \in [Report -> Seq(Entry)]
  /\ repoDept \in Dept \cup {None}
  /\ clock \in Nat
  /\ ledger \in [User -> Nat]
  /\ paid \in [User -> Nat]
  /\ wasted \in [User -> Nat]
  /\ req \in [Worker -> Request]
  /\ crashes \in Nat

(* Report.status always agrees with the log in the order it committed: a   *)
(* report without entries is a draft, any other stands where its last      *)
(* entry put it, whatever requests overlapped.                             *)
StatusFollowsLog ==
  \A r \in Rows :
    status[r] = IF log[r] = << >> THEN "draft" ELSE log[r][Len(log[r])].did

(* No decision of decide_report is logged before, or dated before, a       *)
(* submission of the same report by its author; nobody's own decision is   *)
(* ever logged.                                                            *)
DecisionsAnswerSubmissions ==
  \A r \in Rows : \A i \in 1 .. Len(log[r]) :
    log[r][i].did \in Decisions =>
      /\ log[r][i].who # author[r]
      /\ \E j \in 1 .. i - 1 : /\ log[r][j].did = "submitted"
                               /\ log[r][j].who = author[r]
                               /\ log[r][j].at < log[r][i].at

(* One weekly report per author, repository and week, when create_report   *)
(* and generate_report race to make the first.                             *)
OneWeeklyReport == \A r, s \in Rows : author[r] = author[s] => r = s

(* The ledger never charges a person for a generation they did not get.    *)
LedgerIsBacked ==
  \A u \in User :
    ledger[u] + Cardinality({w \in Worker : req[w].pc = "save" /\ req[w].user = u}) <= paid[u]

-----------------------------------------------------------------------------
(* How a reader sees a report: GET /reports/{id}/approvals lists the        *)
(* entries by created_at, which need not be the order they committed in.    *)

(* Where in a log the entry with the k-th earliest date is. *)
Kth(l, k) ==
  CHOOSE i \in 1 .. Len(l) : Cardinality({j \in 1 .. Len(l) : l[j].at <= l[i].at}) = k

Told(e)   == [who |-> e.who, did |-> e.did]
Listed(l) == [k \in 1 .. Len(l) |-> Told(l[Kth(l, k)])]

Seen ==
  [r \in Report |->
    IF r \in Rows
    THEN [state |-> "live", author |-> author[r], text |-> text[r], log |-> Listed(log[r])]
    ELSE [state |-> status[r]]]

Contract == INSTANCE ReportContract WITH record <- Seen

-----------------------------------------------------------------------------
(* What the requests keep as long as none overlaps another.                *)

Alone == \A v, w \in Worker : v # w => req[v].pc = "off" \/ req[w].pc = "off"
Quiet == \A w \in Worker : req[w].pc \in {"idle", "off"}

(* Requests one at a time implement the contract: an approver decides on a  *)
(* submission, never on their own, the text stands once submitted, a report *)
(* is deleted as a draft only, and the listing tells it in order.           *)
KeepsContract == Contract!Init /\ [][Alone => UNCHANGED Seen \/ Contract!Next]_columns

(* A report on a filed repository is never stranded with another           *)
(* department, or none: set_department re-stamps them, and a new report    *)
(* takes the department the repository has.                                *)
AloneNoneStranded == Alone => \A r \in Rows : dept[r] = repoDept

(* Between requests the ledger misses exactly the charged answers that      *)
(* could not be used, and but for those the daily cap refuses spending      *)
(* instead of reporting it; a request that dies after the answer leaves no  *)
(* ledger row to count.  Those answers are in no ledger, so nothing bounds  *)
(* them: generation.py:222 ("the cap refuses spending") forgets them.       *)
AloneSpendIsExact ==
  Alone /\ crashes = 0 =>
    \A u \in User :
      /\ Quiet => paid[u] = ledger[u] + wasted[u]
      /\ paid[u] <= Cap + wasted[u]

-----------------------------------------------------------------------------
(* What the code says of itself, which overlapping requests do not keep.   *)

(* Report.status is derived from the latest entry of the log. *)
StatusIsLatestEntry ==
  \A r \in Rows : log[r] # << >> => status[r] = Listed(log[r])[Len(log[r])].did

(* A report that is submitted, approved or rejected can be neither edited  *)
(* nor regenerated.                                                        *)
TextFrozen ==
  [][\A r \in Rows : status[r] \notin Editable => text'[r] = text[r]]_vars
=============================================================================
