---------------------------- MODULE ReportsProofs ----------------------------
(***************************************************************************)
(* Proofs about Reports, for any number of people, rows and concurrent     *)
(* requests.  Two facts carry them: a row that is gone never comes back,   *)
(* and while a row is there its log only grows; so what a request saw in   *)
(* the log when it began is still there when it commits.                   *)
(* With one request at a time nothing it read changes before it commits    *)
(* (Serial); on that rest the department stamps, the ledger and the cap,   *)
(* and the refinement of ReportContract.                                   *)
(***************************************************************************)
EXTENDS Reports, FiniteSetTheorems, SequenceTheorems, TLAPS

Named == {"create", "update", "submit", "decide", "delete", "generate", "again", "save"}

(* A request on behalf of a person names one, and one that will log an     *)
(* entry names a row that exists or existed.                               *)
RequestNames(w) ==
  /\ req[w].pc \in Named => req[w].user \in User
  /\ req[w].pc \in {"submit", "decide"} =>
       /\ req[w].rep \in Report
       /\ status[req[w].rep] # "free"
       /\ req[w].at <= clock

(* A row belongs to a person; a row not yet inserted has no log. *)
RowOK(r) ==
  /\ r \in Rows => author[r] \in User
  /\ status[r] = "free" => log[r] = << >>

TInv == /\ TypeOK
        /\ \A w \in Worker : RequestNames(w)
        /\ \A r \in Report : RowOK(r)

-----------------------------------------------------------------------------
(* What Start builds, and that it is typed when its parts are. *)
LEMMA StartFields ==
  ASSUME NEW pc, NEW u, NEW r, NEW t, NEW d, NEW n
  PROVE  /\ Start(pc, u, r, t, d, n).pc = pc
         /\ Start(pc, u, r, t, d, n).user = u
         /\ Start(pc, u, r, t, d, n).rep = r
         /\ Start(pc, u, r, t, d, n).text = t
         /\ Start(pc, u, r, t, d, n).dept = d
         /\ Start(pc, u, r, t, d, n).at = n
BY DEF Start

LEMMA StartTyped ==
  ASSUME NEW pc \in Steps, NEW u \in User \cup {None}, NEW r \in Report \cup {None},
         NEW t \in Writing, NEW d \in Dept \cup {None}, NEW n \in Nat
  PROVE  Start(pc, u, r, t, d, n) \in Request
BY DEF Start, Request

LEMMA IdleFacts == Idle \in Request /\ Idle.pc = "idle"
<1>1. "idle" \in Steps /\ Blank \in Writing
  BY DEF Steps, Writing
<1>. QED
  BY <1>1, StartTyped, StartFields DEF Idle

LEMMA OffFacts == Off \in Request /\ Off.pc = "off" /\ Off.rep = None
<1>1. "off" \in Steps /\ Blank \in Writing
  BY DEF Steps, Writing
<1>. QED
  BY <1>1, StartTyped, StartFields DEF Off

(* How a step changes one request. *)
LEMMA OneRequest ==
  ASSUME TypeOK, NEW w \in Worker, NEW q \in Request, req' = [req EXCEPT ![w] = q]
  PROVE  /\ req' \in [Worker -> Request]
         /\ req'[w] = q
         /\ \A v \in Worker \ {w} : req'[v] = req[v]
BY DEF TypeOK

(* The fields of a request in flight are typed. *)
LEMMA RequestFields ==
  ASSUME TypeOK, NEW w \in Worker
  PROVE  /\ req[w].pc \in Steps
         /\ req[w].user \in User \cup {None}
         /\ req[w].rep \in Report \cup {None}
         /\ req[w].text \in Writing
         /\ req[w].dept \in Dept \cup {None}
         /\ req[w].at \in Nat
<1>. req[w] \in Request
  BY DEF TypeOK
<1>. QED
  BY DEF Request

-----------------------------------------------------------------------------
(* Types.                                                                  *)

LEMMA InitTInv == Init => TInv
<1> SUFFICES ASSUME Init PROVE TInv
  OBVIOUS
<1>1. TypeOK
  BY IdleFacts, OffFacts DEF Init, TypeOK, Writing, Entry
<1>2. \A w \in Worker : req[w].pc \in {"idle", "off"}
  BY IdleFacts, OffFacts DEF Init
<1>. QED
  BY <1>1, <1>2 DEF Init, TInv, RequestNames, RowOK, Rows, Status, Decisions, Named

(* A step that starts or moves on a request and writes no row. *)
LEMMA RequestStep ==
  ASSUME TInv, NEW w \in Worker, NEW q \in Request,
         req' = [req EXCEPT ![w] = q],
         q.pc \in Named => q.user \in User,
         q.pc \in {"submit", "decide"} =>
           q.rep \in Report /\ status[q.rep] # "free" /\ q.at <= clock',
         clock' \in Nat, clock <= clock',
         UNCHANGED <<status, author, log>>
  PROVE  /\ req' \in [Worker -> Request]
         /\ \A v \in Worker : RequestNames(v)'
         /\ \A r \in Report : RowOK(r)'
<1>1. /\ req' \in [Worker -> Request]
      /\ req'[w] = q
      /\ \A v \in Worker \ {w} : req'[v] = req[v]
  BY OneRequest DEF TInv
<1>2. \A v \in Worker : RequestNames(v)'
  <2> SUFFICES ASSUME NEW v \in Worker PROVE RequestNames(v)'
    OBVIOUS
  <2>1. CASE v = w
    BY <1>1, <2>1 DEF RequestNames
  <2>2. CASE v # w
    <3>1. req'[v] = req[v] /\ RequestNames(v)
      BY <1>1, <2>2 DEF TInv
    <3>2. req[v].at \in Nat /\ clock \in Nat
      BY RequestFields DEF TInv, TypeOK
    <3>. QED
      BY <3>1, <3>2 DEF RequestNames
  <2>. QED
    BY <2>1, <2>2
<1>. QED
  BY <1>1, <1>2 DEF TInv, RowOK, Rows

(* A step that ends a request and changes rows: no row becomes free, and   *)
(* the rows keep their authors.                                            *)
LEMMA RowStep ==
  ASSUME TInv, NEW w \in Worker, Finish(w), clock' = clock,
         \A r \in Report : status'[r] = "free" => status[r] = "free"
  PROVE  /\ req' \in [Worker -> Request]
         /\ \A v \in Worker : RequestNames(v)'
<1>1. /\ req' \in [Worker -> Request]
      /\ req'[w] = Idle
      /\ \A v \in Worker \ {w} : req'[v] = req[v]
  BY OneRequest, IdleFacts DEF TInv, Finish
<1>2. \A v \in Worker : RequestNames(v)'
  BY <1>1, IdleFacts DEF TInv, RequestNames, Named
<1>. QED
  BY <1>1, <1>2

(* Starting the handlers that will log an entry. *)
LEMMA StartLogger ==
  ASSUME TInv, NEW w \in Worker,
         \/ \E r \in Report : Submit(w, r)
         \/ \E u \in User, r \in Report : Decide(w, u, r)
  PROVE  TInv'
<1>1. PICK pc \in {"submit", "decide"}, u \in User, r \in Report :
        /\ r \in Rows
        /\ Stamp
        /\ req' = [req EXCEPT ![w] = Start(pc, u, r, text[r], None, clock')]
        /\ UNCHANGED <<columns, repoDept, money, crashes>>
  <2>1. CASE \E r \in Report : Submit(w, r)
    BY <2>1 DEF Submit, Begin, TInv, RowOK
  <2>2. CASE \E u \in User, r \in Report : Decide(w, u, r)
    BY <2>2 DEF Decide, Begin
  <2>. QED
    BY <2>1, <2>2
<1>2. clock \in Nat /\ clock' \in Nat /\ clock <= clock'
  BY <1>1 DEF Stamp, TInv, TypeOK
<1>3. text[r] \in Writing /\ pc \in Steps
  BY DEF TInv, TypeOK, Steps
<1>4. Start(pc, u, r, text[r], None, clock') \in Request
  BY <1>2, <1>3, StartTyped
<1>5. /\ Start(pc, u, r, text[r], None, clock').user = u
      /\ Start(pc, u, r, text[r], None, clock').rep = r
      /\ Start(pc, u, r, text[r], None, clock').at = clock'
  BY StartFields
<1>6. status[r] # "free"
  BY <1>1 DEF Rows, Status, Decisions
<1>7. /\ req' \in [Worker -> Request]
      /\ \A v \in Worker : RequestNames(v)'
      /\ \A s \in Report : RowOK(s)'
  <2>1. clock' <= clock'
    BY <1>2
  <2>2. UNCHANGED <<status, author, log>>
    BY <1>1 DEF columns
  <2>. QED
    BY <1>1, <1>2, <1>4, <1>5, <1>6, <2>1, <2>2, RequestStep
<1>. QED
  BY <1>1, <1>2, <1>7 DEF TInv, TypeOK, columns, money

(* Starting the handlers that will not. *)
LEMMA OtherStarts ==
  ASSUME TInv, NEW w \in Worker,
         \/ \E u \in User : Create(w, u) \/ Generate(w, u)
         \/ \E r \in Report : Update(w, r) \/ Delete(w, r)
         \/ File(w)
  PROVE  \E pc \in Steps \ {"off", "submit", "decide"}, u \in User \cup {None},
            r \in Report \cup {None}, t \in Writing, d \in Dept \cup {None} :
        /\ pc \in Named => u \in User
        /\ req' = [req EXCEPT ![w] = Start(pc, u, r, t, d, 0)]
        /\ UNCHANGED <<columns, repoDept, clock, money, crashes>>
<1>1. repoDept \in Dept \cup {None} /\ Blank \in Writing /\ text \in [Report -> Writing]
  BY DEF TInv, TypeOK, Writing
<1>2. CASE \E u \in User : Create(w, u)
  BY <1>1, <1>2 DEF Create, Begin, Steps
<1>3. CASE \E u \in User : Generate(w, u)
  <2>1. PICK u \in User : Generate(w, u)
    BY <1>3
  <2>2. CASE Begin(w, Start("generate", u, None, Blank, repoDept, 0))
    BY <1>1, <2>1, <2>2 DEF Generate, Begin, Steps
  <2>3. CASE \E r \in RowsBy(u) : Begin(w, Start("generate", u, r, text[r], None, 0))
    BY <1>1, <2>1, <2>3 DEF Generate, Begin, Steps, RowsBy, Rows
  <2>. QED
    BY <2>1, <2>2, <2>3 DEF Generate
<1>4. CASE \E r \in Report : Update(w, r)
  BY <1>1, <1>4 DEF Update, Begin, Steps, TInv, RowOK
<1>5. CASE \E r \in Report : Delete(w, r)
  BY <1>1, <1>5 DEF Delete, Begin, Steps, TInv, RowOK
<1>6. CASE File(w)
  BY <1>1, <1>6 DEF File, Begin, Steps, Named
<1>. QED
  BY <1>2, <1>3, <1>4, <1>5, <1>6

LEMMA StartOther ==
  ASSUME TInv, NEW w \in Worker,
         \/ \E u \in User : Create(w, u) \/ Generate(w, u)
         \/ \E r \in Report : Update(w, r) \/ Delete(w, r)
         \/ File(w)
  PROVE  TInv'
<1>1. PICK pc \in Steps \ {"off", "submit", "decide"}, u \in User \cup {None},
           r \in Report \cup {None}, t \in Writing, d \in Dept \cup {None} :
        /\ pc \in Named => u \in User
        /\ req' = [req EXCEPT ![w] = Start(pc, u, r, t, d, 0)]
        /\ UNCHANGED <<columns, repoDept, clock, money, crashes>>
  BY OtherStarts
<1>2. Start(pc, u, r, t, d, 0) \in Request
  BY StartTyped
<1>3. /\ Start(pc, u, r, t, d, 0).pc = pc
      /\ Start(pc, u, r, t, d, 0).user = u
  BY StartFields
<1>4. clock' = clock /\ clock \in Nat /\ clock <= clock'
  BY <1>1 DEF TInv, TypeOK
<1>5. /\ req' \in [Worker -> Request]
      /\ \A v \in Worker : RequestNames(v)'
      /\ \A s \in Report : RowOK(s)'
  <2>1. UNCHANGED <<status, author, log>>
    BY <1>1 DEF columns
  <2>. QED
    BY <1>1, <1>2, <1>3, <1>4, <2>1, RequestStep
<1>. QED
  BY <1>1, <1>4, <1>5 DEF TInv, TypeOK, columns, money

-----------------------------------------------------------------------------
(* A request that ends leaving the rows' status, authors and logs alone. *)
LEMMA FinishQuietly ==
  ASSUME TInv, NEW w \in Worker, Finish(w), clock' = clock, UNCHANGED <<status, author, log>>
  PROVE  /\ req' \in [Worker -> Request]
         /\ \A v \in Worker : RequestNames(v)'
         /\ \A r \in Report : RowOK(r)'
BY RowStep DEF TInv, RowOK, Rows

(* What an attempt that fails costs: the same in both accounts. *)
LEMMA AttemptFacts ==
  ASSUME TInv, NEW w \in Worker, req[w].pc \in {"generate", "again"}, Attempt(w)
  PROVE  /\ paid' \in [User -> Nat] /\ wasted' \in [User -> Nat]
         /\ \A u \in User : \E n \in {0, 1} : paid'[u] = paid[u] + n /\ wasted'[u] = wasted[u] + n
<1>1. paid \in [User -> Nat] /\ wasted \in [User -> Nat] /\ req[w].user \in User
  BY DEF TInv, TypeOK, RequestNames, Named
<1>2. CASE UNCHANGED <<paid, wasted>>
  <2>1. \A u \in User : paid'[u] = paid[u] + 0 /\ wasted'[u] = wasted[u] + 0
    BY <1>1, <1>2
  <2>. QED
    BY <1>1, <1>2, <2>1
<1>3. CASE /\ paid' = [paid EXCEPT ![req[w].user] = @ + 1]
           /\ wasted' = [wasted EXCEPT ![req[w].user] = @ + 1]
  <2>1. paid' \in [User -> Nat] /\ wasted' \in [User -> Nat]
    BY <1>1, <1>3
  <2>2. ASSUME NEW u \in User
        PROVE  \E n \in {0, 1} : paid'[u] = paid[u] + n /\ wasted'[u] = wasted[u] + n
    <3>1. CASE u = req[w].user
      BY <1>1, <1>3, <3>1
    <3>2. CASE u # req[w].user
      <4>1. paid'[u] = paid[u] + 0 /\ wasted'[u] = wasted[u] + 0
        BY <1>1, <1>3, <3>2
      <4>. QED
        BY <4>1
    <3>. QED
      BY <3>1, <3>2
  <2>. QED
    BY <2>1, <2>2
<1>. QED
  BY <1>2, <1>3 DEF Attempt

(* A request that asks the provider and goes on. *)
LEMMA GoesOn ==
  ASSUME TInv, NEW w \in Worker, Reply(w) \/ Retry(w)
  PROVE  \E q \in Request :
           /\ q.pc \in {"again", "save"} /\ (q.pc = "save" <=> Reply(w))
           /\ q.user = req[w].user /\ q.rep = req[w].rep /\ q.dept = req[w].dept
           /\ req' = [req EXCEPT ![w] = q]
           /\ req[w].pc \in {"generate", "again"} /\ req[w].user \in User
           /\ UNCHANGED <<columns, repoDept, clock, ledger, crashes>>
<1>1. req[w].pc \in {"generate", "again"} /\ req[w].user \in User
  BY DEF Reply, Retry, Asking, TInv, RequestNames, Named
<1>2. UNCHANGED <<columns, repoDept, clock, ledger, crashes>>
  BY DEF Reply, Retry
<1>3. PICK pc \in {"again", "save"} : GoOn(w, pc) /\ (pc = "save" <=> Reply(w))
  <2>1. req \in [Worker -> Request]
    BY DEF TInv, TypeOK
  <2>2. GoOn(w, "again") => req'[w].pc = "again"
    BY <2>1, StartFields DEF GoOn
  <2>3. Reply(w) => req'[w].pc = "save"
    BY <2>1, StartFields DEF GoOn, Reply
  <2>. QED
    BY <2>2, <2>3 DEF Reply, Retry
<1> DEFINE q == Start(pc, req[w].user, req[w].rep, req[w].text, req[w].dept, 0)
<1>4. q \in Request
  BY RequestFields, StartTyped DEF TInv, Steps
<1>5. q.pc = pc /\ q.user = req[w].user /\ q.rep = req[w].rep /\ q.dept = req[w].dept
  BY StartFields
<1>6. req' = [req EXCEPT ![w] = q]
  BY <1>3 DEF GoOn
<1> HIDE DEF q
<1>. QED
  BY <1>1, <1>2, <1>3, <1>4, <1>5, <1>6

LEMMA QuietCommit ==
  ASSUME TInv, NEW w \in Worker,
         \/ \E t \in Writing : CommitUpdate(w, t) \/ SaveOver(w, t)
         \/ \E d \in Dept : CommitFile(w, d)
         \/ GiveUp(w) \/ Fail(w) \/ Crash(w)
  PROVE  TInv'
<1>1. /\ Finish(w)
      /\ clock' = clock
      /\ UNCHANGED <<status, author, log>>
  BY DEF CommitUpdate, SaveOver, CommitFile, GiveUp, Fail, Crash, columns
<1>2. text' \in [Report -> Writing]
  BY DEF CommitUpdate, SaveOver, CommitFile, GiveUp, Fail, Crash, columns, Write, TInv, TypeOK
<1>3. dept' \in [Report -> Dept \cup {None}] /\ repoDept' \in Dept \cup {None}
  BY DEF CommitUpdate, SaveOver, CommitFile, GiveUp, Fail, Crash, columns, TInv, TypeOK
<1>4. ledger' \in [User -> Nat]
  BY RequestFields DEF CommitUpdate, SaveOver, CommitFile, GiveUp, Fail, Crash, money, Charge, TInv, TypeOK
<1>5. paid' \in [User -> Nat] /\ wasted' \in [User -> Nat]
  <2>1. CASE GiveUp(w)
    BY <2>1, AttemptFacts DEF GiveUp
  <2>2. CASE ~GiveUp(w)
    BY <2>2 DEF CommitUpdate, SaveOver, CommitFile, Fail, Crash, money, TInv, TypeOK
  <2>. QED
    BY <2>1, <2>2
<1>6. crashes' \in Nat
  BY DEF CommitUpdate, SaveOver, CommitFile, GiveUp, Fail, Crash, TInv, TypeOK
<1>. QED
  BY <1>1, <1>2, <1>3, <1>4, <1>5, <1>6, FinishQuietly DEF TInv, TypeOK

LEMMA GoOnTInv ==
  ASSUME TInv, NEW w \in Worker, Reply(w) \/ Retry(w)
  PROVE  TInv'
<1>1. PICK q \in Request :
        /\ q.pc \in {"again", "save"} /\ q.user = req[w].user
        /\ req' = [req EXCEPT ![w] = q]
        /\ req[w].pc \in {"generate", "again"} /\ req[w].user \in User
        /\ UNCHANGED <<columns, repoDept, clock, ledger, crashes>>
  BY GoesOn
<1>2. clock' = clock /\ clock \in Nat /\ clock <= clock'
  BY <1>1 DEF TInv, TypeOK
<1>3. /\ req' \in [Worker -> Request]
      /\ \A v \in Worker : RequestNames(v)'
      /\ \A s \in Report : RowOK(s)'
  <2>1. UNCHANGED <<status, author, log>>
    BY <1>1 DEF columns
  <2>. QED
    BY <1>1, <1>2, <2>1, RequestStep
<1>4. paid' \in [User -> Nat] /\ wasted' \in [User -> Nat]
  <2>1. CASE Reply(w)
    BY <1>1, <2>1 DEF Reply, TInv, TypeOK
  <2>2. CASE Retry(w)
    BY <1>1, <2>2, AttemptFacts DEF Retry
  <2>. QED
    BY <2>1, <2>2
<1>. QED
  BY <1>1, <1>2, <1>3, <1>4 DEF TInv, TypeOK, columns

-----------------------------------------------------------------------------
(* What an insertion does. *)
LEMMA InsertFacts ==
  ASSUME TInv, NEW w \in Worker, NEW t \in Writing, Insert(w, t), req[w].user \in User
  PROVE  \E r \in Report :
           /\ status[r] = "free" /\ log[r] = << >>
           /\ RowsBy(req[w].user) = {}
           /\ status' \in [Report -> Status \cup {"free", "deleted"}]
           /\ author' \in [Report -> User \cup {None}]
           /\ text' \in [Report -> Writing]
           /\ dept' \in [Report -> Dept \cup {None}]
           /\ log' = log
           /\ status'[r] = "draft" /\ author'[r] = req[w].user
           /\ \A s \in Report \ {r} : status'[s] = status[s] /\ author'[s] = author[s]
           /\ Rows' = Rows \cup {r} /\ r \notin Rows
<1>1. PICK r \in Report :
        /\ status[r] = "free"
        /\ RowsBy(req[w].user) = {}
        /\ status' = [status EXCEPT ![r] = "draft"]
        /\ author' = [author EXCEPT ![r] = req[w].user]
        /\ text' = [text EXCEPT ![r] = t]
        /\ dept' = [dept EXCEPT ![r] = req[w].dept]
        /\ log' = log
  BY DEF Insert
<1>2. log[r] = << >>
  BY <1>1 DEF TInv, RowOK
<1>3. req[w].dept \in Dept \cup {None}
  BY RequestFields DEF TInv
<1>4. "draft" \in Status /\ "free" \notin Status
  BY DEF Status, Decisions
<1>5. /\ status' \in [Report -> Status \cup {"free", "deleted"}]
      /\ author' \in [Report -> User \cup {None}]
      /\ text' \in [Report -> Writing]
      /\ dept' \in [Report -> Dept \cup {None}]
  BY <1>1, <1>3, <1>4 DEF TInv, TypeOK
<1>6. /\ status'[r] = "draft" /\ author'[r] = req[w].user
      /\ \A s \in Report \ {r} : status'[s] = status[s] /\ author'[s] = author[s]
  BY <1>1 DEF TInv, TypeOK
<1>7. Rows' = Rows \cup {r} /\ r \notin Rows
  BY <1>1, <1>4, <1>6 DEF Rows
<1>. QED
  BY <1>1, <1>2, <1>5, <1>6, <1>7

LEMMA InsertTInv ==
  ASSUME TInv, NEW w \in Worker, NEW t \in Writing, CommitCreate(w, t) \/ SaveNew(w, t)
  PROVE  TInv'
<1>1. /\ Insert(w, t)
      /\ Finish(w)
      /\ clock' = clock
      /\ UNCHANGED <<repoDept, paid, wasted, crashes>>
      /\ req[w].pc \in Named
  BY DEF CommitCreate, SaveNew, money, Named
<1>2. req[w].user \in User
  BY <1>1 DEF TInv, RequestNames
<1>3. PICK r \in Report :
           /\ log[r] = << >>
           /\ status' \in [Report -> Status \cup {"free", "deleted"}]
           /\ author' \in [Report -> User \cup {None}]
           /\ text' \in [Report -> Writing]
           /\ dept' \in [Report -> Dept \cup {None}]
           /\ log' = log
           /\ status'[r] = "draft" /\ author'[r] = req[w].user
           /\ \A s \in Report \ {r} : status'[s] = status[s] /\ author'[s] = author[s]
           /\ Rows' = Rows \cup {r}
  BY <1>1, <1>2, InsertFacts
<1>4. /\ req' \in [Worker -> Request]
      /\ \A v \in Worker : RequestNames(v)'
  BY <1>1, <1>3, RowStep
<1>5. \A s \in Report : RowOK(s)'
  BY <1>2, <1>3 DEF TInv, RowOK
<1>6. ledger' \in [User -> Nat]
  <2>1. ledger' = ledger \/ ledger' = [ledger EXCEPT ![req[w].user] = @ + 1]
    BY DEF CommitCreate, SaveNew, money, Charge
  <2>2. ledger \in [User -> Nat]
    BY DEF TInv, TypeOK
  <2>. QED
    BY <1>2, <2>1, <2>2
<1>7. repoDept \in Dept \cup {None} /\ clock \in Nat /\ paid \in [User -> Nat] /\ wasted \in [User -> Nat]
      /\ crashes \in Nat
      /\ log \in [Report -> Seq(Entry)]
  BY DEF TInv, TypeOK
<1>8. TypeOK'
  BY <1>1, <1>3, <1>4, <1>6, <1>7 DEF TypeOK
<1>. QED
  BY <1>4, <1>5, <1>8 DEF TInv

(* What a logged commit does. *)
LEMMA RecordFacts ==
  ASSUME TInv, NEW w \in Worker, NEW r \in Rows, NEW a \in {"submitted"} \cup Decisions,
         Record(w, r, a), req[w].pc \in {"submit", "decide"}
  PROVE  /\ Made(req[w].user, a, req[w].at) \in Entry
         /\ log'[r] = Append(log[r], Made(req[w].user, a, req[w].at))
         /\ \A s \in Report \ {r} : log'[s] = log[s] /\ status'[s] = status[s]
         /\ status'[r] = a
         /\ status' \in [Report -> Status \cup {"free", "deleted"}]
         /\ log' \in [Report -> Seq(Entry)]
         /\ Rows' = Rows
<1>1. r \in Report /\ a \in Status
  BY DEF Rows, Status
<1>2. req[w].user \in User /\ req[w].at \in Nat
  BY RequestFields DEF TInv, RequestNames, Named
<1>3. Made(req[w].user, a, req[w].at) \in Entry
  BY <1>2 DEF Made, Entry
<1>4. /\ status'[r] = a
      /\ status' \in [Report -> Status \cup {"free", "deleted"}]
      /\ \A s \in Report \ {r} : status'[s] = status[s]
  BY <1>1 DEF Record, TInv, TypeOK
<1>5. /\ log'[r] = Append(log[r], Made(req[w].user, a, req[w].at))
      /\ \A s \in Report \ {r} : log'[s] = log[s]
  BY <1>1 DEF Record, TInv, TypeOK
<1>6. Append(log[r], Made(req[w].user, a, req[w].at)) \in Seq(Entry)
  BY <1>1, <1>3 DEF TInv, TypeOK
<1>7. log' \in [Report -> Seq(Entry)]
  BY <1>1, <1>6 DEF Record, TInv, TypeOK
<1>8. Rows' = Rows
  BY <1>1, <1>4 DEF Rows
<1>. QED
  BY <1>3, <1>4, <1>5, <1>7, <1>8

LEMMA RecordTInv ==
  ASSUME TInv, NEW w \in Worker, CommitSubmit(w) \/ \E d \in Decisions : CommitDecide(w, d)
  PROVE  TInv'
<1>1. PICK a \in {"submitted"} \cup Decisions :
        /\ req[w].pc \in {"submit", "decide"}
        /\ req[w].rep \in Rows
        /\ Record(w, req[w].rep, a)
        /\ Finish(w)
        /\ UNCHANGED <<author, text, dept, repoDept, clock, money, crashes>>
  BY DEF CommitSubmit, CommitDecide
<1> DEFINE r == req[w].rep
<1>2. /\ log'[r] = Append(log[r], Made(req[w].user, a, req[w].at))
      /\ \A s \in Report \ {r} : log'[s] = log[s] /\ status'[s] = status[s]
      /\ status'[r] = a
      /\ status' \in [Report -> Status \cup {"free", "deleted"}]
      /\ log' \in [Report -> Seq(Entry)]
      /\ Rows' = Rows
  BY <1>1, RecordFacts
<1>3. a # "free" /\ r \in Report
  BY <1>1 DEF Decisions, Rows
<1>4. \A s \in Report : status'[s] = "free" => status[s] = "free"
  BY <1>2, <1>3
<1>5. /\ req' \in [Worker -> Request]
      /\ \A v \in Worker : RequestNames(v)'
  BY <1>1, <1>4, RowStep
<1>6. \A s \in Report : RowOK(s)'
  BY <1>1, <1>2, <1>3 DEF TInv, RowOK
<1>. QED
  BY <1>1, <1>2, <1>5, <1>6 DEF TInv, TypeOK, money

LEMMA DeleteTInv ==
  ASSUME TInv, NEW w \in Worker, CommitDelete(w)
  PROVE  TInv'
<1> DEFINE r == req[w].rep
<1>1. r \in Report /\ Finish(w) /\ clock' = clock
  BY DEF CommitDelete, Rows
<1>2. /\ status' \in [Report -> Status \cup {"free", "deleted"}]
      /\ log' \in [Report -> Seq(Entry)]
      /\ status'[r] = "deleted"
      /\ \A s \in Report \ {r} : status'[s] = status[s] /\ log'[s] = log[s]
  BY <1>1 DEF CommitDelete, TInv, TypeOK
<1>3. \A s \in Report : status'[s] = "free" => status[s] = "free"
  BY <1>1, <1>2
<1>4. /\ req' \in [Worker -> Request]
      /\ \A v \in Worker : RequestNames(v)'
  BY <1>1, <1>3, RowStep
<1>5. Rows' \subseteq Rows
  BY <1>1, <1>2 DEF Rows, Status, Decisions
<1>6. author' = author
  BY DEF CommitDelete
<1>7. \A s \in Report : RowOK(s)'
  BY <1>1, <1>2, <1>3, <1>5, <1>6 DEF TInv, RowOK
<1>. QED
  BY <1>1, <1>2, <1>4, <1>7 DEF CommitDelete, TInv, TypeOK, money

LEMMA NextTInv == TInv /\ [Next]_vars => TInv'
<1> SUFFICES ASSUME TInv, [Next]_vars PROVE TInv'
  OBVIOUS
<1>1. CASE UNCHANGED vars
  BY <1>1 DEF vars, TInv, TypeOK, RequestNames, RowOK, Rows
<1>2. CASE Next
  <2>1. PICK w \in Worker :
          \/ \E u \in User : Create(w, u) \/ Generate(w, u) \/ \E r \in Report : Decide(w, u, r)
          \/ \E r \in Report : Update(w, r) \/ Submit(w, r) \/ Delete(w, r)
          \/ File(w)
          \/ Commit(w)
    BY <1>2 DEF Next
  <2>2. CASE Commit(w)
    BY <2>2, RecordTInv, DeleteTInv, GoOnTInv, QuietCommit, InsertTInv DEF Commit
  <2>. QED
    BY <2>1, <2>2, StartLogger, StartOther
<1>. QED
  BY <1>1, <1>2

(* Every request keeps the types. *)
THEOREM ReportTypes == Spec => []TypeOK
<1>1. TInv => TypeOK
  BY DEF TInv
<1>. QED
  BY InitTInv, NextTInv, <1>1, PTL DEF Spec

-----------------------------------------------------------------------------
(* The log.                                                                *)

(* Entries are dated in the past, and only the author submits. *)
EntriesOK ==
  \A r \in Rows : \A i \in 1 .. Len(log[r]) :
    /\ log[r][i].at <= clock
    /\ log[r][i].did = "submitted" => log[r][i].who = author[r]

(* Who is about to log what, and what a decider saw in the log. *)
RequestSaw(w) ==
  req[w].rep \in Rows =>
    LET r == req[w].rep
    IN  /\ req[w].pc = "submit" => req[w].user = author[r]
        /\ req[w].pc = "decide" =>
             /\ req[w].user # author[r]
             /\ \E j \in 1 .. Len(log[r]) : /\ log[r][j].did = "submitted"
                                            /\ log[r][j].who = author[r]
                                            /\ log[r][j].at < req[w].at

IInv == /\ TInv
        /\ StatusFollowsLog
        /\ EntriesOK
        /\ DecisionsAnswerSubmissions
        /\ OneWeeklyReport
        /\ \A w \in Worker : RequestSaw(w)

LEMMA InitIInv == Init => IInv
<1> SUFFICES ASSUME Init PROVE IInv
  OBVIOUS
<1>1. Rows = {}
  BY DEF Init, Rows, Status, Decisions
<1>. QED
  BY <1>1, InitTInv DEF IInv, StatusFollowsLog, EntriesOK, DecisionsAnswerSubmissions,
     OneWeeklyReport, RequestSaw

(* A step that leaves the rows that remain alone. *)
LEMMA RowsStay ==
  ASSUME IInv, TInv', Rows' \subseteq Rows, clock <= clock',
         \A r \in Rows' : status'[r] = status[r] /\ author'[r] = author[r] /\ log'[r] = log[r],
         \A w \in Worker : req'[w] = req[w] \/ RequestSaw(w)'
  PROVE  IInv'
<1>1. StatusFollowsLog'
  BY DEF IInv, StatusFollowsLog
<1>2. EntriesOK'
  <2> SUFFICES ASSUME NEW r \in Rows', NEW i \in 1 .. Len(log[r])
               PROVE  /\ log[r][i].at <= clock'
                      /\ log[r][i].did = "submitted" => log[r][i].who = author[r]
    BY DEF EntriesOK
  <2>1. /\ log[r][i].at <= clock
        /\ log[r][i].did = "submitted" => log[r][i].who = author[r]
    BY DEF IInv, EntriesOK
  <2>2. log[r][i].at \in Nat /\ clock \in Nat /\ clock' \in Nat
    <3>1. r \in Report /\ log[r] \in Seq(Entry)
      BY DEF IInv, TInv, TypeOK, Rows
    <3>2. log[r][i] \in Entry
      BY <3>1
    <3>. QED
      BY <3>2 DEF Entry, IInv, TInv, TypeOK
  <2>. QED
    BY <2>1, <2>2
<1>3. DecisionsAnswerSubmissions'
  BY DEF IInv, DecisionsAnswerSubmissions
<1>4. OneWeeklyReport'
  BY DEF IInv, OneWeeklyReport
<1>5. \A w \in Worker : RequestSaw(w)'
  BY DEF IInv, RequestSaw
<1>. QED
  BY <1>1, <1>2, <1>3, <1>4, <1>5 DEF IInv

(* A submission is the author's; a decider is not the author, and saw the  *)
(* submission that made the report's status what it is.                    *)
LEMMA StartLoggerIInv ==
  ASSUME IInv, NEW w \in Worker,
         \/ \E r \in Report : Submit(w, r)
         \/ \E u \in User, r \in Report : Decide(w, u, r)
  PROVE  IInv'
<1>1. PICK pc \in {"submit", "decide"}, u \in User, r \in Report :
        /\ r \in Rows
        /\ Stamp
        /\ req' = [req EXCEPT ![w] = Start(pc, u, r, text[r], None, clock')]
        /\ UNCHANGED columns
        /\ pc = "submit" => u = author[r]
        /\ pc = "decide" => u # author[r] /\ status[r] = "submitted"
  <2>1. CASE \E r \in Report : Submit(w, r)
    BY <2>1 DEF Submit, Begin, IInv, TInv, RowOK
  <2>2. CASE \E u \in User, r \in Report : Decide(w, u, r)
    BY <2>2 DEF Decide, Begin
  <2>. QED
    BY <2>1, <2>2
<1> DEFINE q == Start(pc, u, r, text[r], None, clock')
<1>2. q.pc = pc /\ q.user = u /\ q.rep = r /\ q.at = clock'
  BY StartFields
<1>3. clock \in Nat /\ clock' = clock + 1
  BY <1>1 DEF Stamp, IInv, TInv, TypeOK
<1>4. pc = "decide" =>
        \E j \in 1 .. Len(log[r]) : /\ log[r][j].did = "submitted"
                                    /\ log[r][j].who = author[r]
                                    /\ log[r][j].at < clock'
  <2> SUFFICES ASSUME pc = "decide"
               PROVE  \E j \in 1 .. Len(log[r]) : /\ log[r][j].did = "submitted"
                                                  /\ log[r][j].who = author[r]
                                                  /\ log[r][j].at < clock'
    OBVIOUS
  <2>1. log[r] \in Seq(Entry)
    BY DEF IInv, TInv, TypeOK
  <2>2. log[r] # << >> /\ log[r][Len(log[r])].did = "submitted"
    BY <1>1 DEF IInv, StatusFollowsLog
  <2>3. Len(log[r]) \in 1 .. Len(log[r])
    BY <2>1, <2>2
  <2>4. log[r][Len(log[r])].at \in Nat
    <3>1. log[r][Len(log[r])] \in Entry
      BY <2>1, <2>3
    <3>. QED
      BY <3>1 DEF Entry
  <2>5. /\ log[r][Len(log[r])].at <= clock
        /\ log[r][Len(log[r])].who = author[r]
    BY <1>1, <2>2, <2>3 DEF IInv, EntriesOK
  <2>. QED
    BY <1>3, <2>2, <2>3, <2>4, <2>5
<1>5. \A v \in Worker : v # w => req'[v] = req[v]
  BY <1>1 DEF IInv, TInv, TypeOK
<1>6. req'[w] = q
  BY <1>1 DEF IInv, TInv, TypeOK
<1>7. Rows' = Rows /\ author' = author /\ log' = log /\ status' = status
  BY <1>1 DEF columns, Rows
<1>8. RequestSaw(w)'
  <2> HIDE DEF q
  <2>. QED
    BY <1>1, <1>2, <1>4, <1>6, <1>7 DEF RequestSaw
<1>9. TInv'
  BY StartLogger DEF IInv
<1>10. clock <= clock'
  BY <1>3
<1>. QED
  BY <1>5, <1>7, <1>8, <1>9, <1>10, RowsStay

(* The new row is a draft without entries, and its author had none. *)
LEMMA InsertIInv ==
  ASSUME IInv, NEW w \in Worker, NEW t \in Writing, CommitCreate(w, t) \/ SaveNew(w, t)
  PROVE  IInv'
<1>1. /\ Insert(w, t)
      /\ Finish(w)
      /\ clock' = clock
      /\ req[w].pc \in Named
      /\ TInv
  BY DEF CommitCreate, SaveNew, Named, IInv
<1>2. req[w].user \in User
  BY <1>1 DEF TInv, RequestNames
<1>3. PICK r \in Report :
           /\ status[r] = "free"
           /\ log[r] = << >>
           /\ RowsBy(req[w].user) = {}
           /\ log' = log
           /\ status'[r] = "draft" /\ author'[r] = req[w].user
           /\ \A s \in Report \ {r} : status'[s] = status[s] /\ author'[s] = author[s]
           /\ Rows' = Rows \cup {r} /\ r \notin Rows
  BY <1>1, <1>2, InsertFacts
<1>4. \A s \in Rows : s \in Report \ {r}
  BY <1>3 DEF Rows
<1>5. StatusFollowsLog'
  BY <1>3, <1>4 DEF IInv, StatusFollowsLog
<1>6. Len(log[r]) = 0
  BY <1>3
<1>7. EntriesOK'
  BY <1>1, <1>3, <1>4, <1>6 DEF IInv, EntriesOK
<1>8. DecisionsAnswerSubmissions'
  BY <1>3, <1>4, <1>6 DEF IInv, DecisionsAnswerSubmissions
<1>9. OneWeeklyReport'
  BY <1>3, <1>4 DEF IInv, OneWeeklyReport, RowsBy
<1>10. \A v \in Worker : RequestSaw(v)'
  <2> SUFFICES ASSUME NEW v \in Worker PROVE RequestSaw(v)'
    OBVIOUS
  <2>1. CASE v = w
    <3>1. req'[w] = Idle
      BY <1>1 DEF Finish, TInv, TypeOK
    <3>. QED
      BY <2>1, <3>1, IdleFacts DEF RequestSaw
  <2>2. CASE v # w
    <3>1. req'[v] = req[v]
      BY <1>1, <2>2 DEF Finish, TInv, TypeOK
    <3>2. req[v].pc \in {"submit", "decide"} => req[v].rep # r
      BY <1>1, <1>3 DEF TInv, RequestNames
    <3>3. RequestSaw(v)
      BY DEF IInv
    <3>4. \A s \in Rows : author'[s] = author[s]
      BY <1>3, <1>4
    <3>. QED
      BY <1>3, <3>1, <3>2, <3>3, <3>4 DEF RequestSaw
  <2>. QED
    BY <2>1, <2>2
<1>11. TInv'
  BY <1>1, InsertTInv
<1>. QED
  BY <1>5, <1>7, <1>8, <1>9, <1>10, <1>11 DEF IInv

(* A logged entry is last, agrees with the status, and if it is a decision *)
(* follows the submission its request saw.                                 *)
LEMMA RecordIInv ==
  ASSUME IInv, NEW w \in Worker, CommitSubmit(w) \/ \E d \in Decisions : CommitDecide(w, d)
  PROVE  IInv'
<1>1. PICK a \in {"submitted"} \cup Decisions :
        /\ req[w].pc \in {"submit", "decide"}
        /\ req[w].rep \in Rows
        /\ Record(w, req[w].rep, a)
        /\ Finish(w)
        /\ author' = author /\ clock' = clock
        /\ a = "submitted" => req[w].pc = "submit"
        /\ a \in Decisions => req[w].pc = "decide"
  BY DEF CommitSubmit, CommitDecide, Decisions
<1> DEFINE r == req[w].rep
           e == Made(req[w].user, a, req[w].at)
<1>2. TInv /\ RequestSaw(w) /\ TInv'
  BY RecordTInv DEF IInv
<1>3. /\ e \in Entry
      /\ log'[r] = Append(log[r], e)
      /\ \A s \in Report \ {r} : log'[s] = log[s] /\ status'[s] = status[s]
      /\ status'[r] = a
      /\ Rows' = Rows
  BY <1>1, <1>2, RecordFacts
<1>4. e.who = req[w].user /\ e.did = a /\ e.at = req[w].at
  BY DEF Made
<1>5. r \in Report /\ log[r] \in Seq(Entry)
  BY <1>1, <1>2 DEF Rows, TInv, TypeOK
<1> HIDE DEF e
<1>6. /\ Len(log'[r]) = Len(log[r]) + 1
      /\ log'[r][Len(log[r]) + 1] = e
      /\ \A i \in 1 .. Len(log[r]) : log'[r][i] = log[r][i]
      /\ log'[r] # << >>
  BY <1>3, <1>5
<1>7. \A s \in Rows \ {r} : log'[s] = log[s] /\ status'[s] = status[s]
  BY <1>3 DEF Rows
<1>8. StatusFollowsLog'
  BY <1>3, <1>4, <1>6, <1>7 DEF IInv, StatusFollowsLog
<1>9. Len(log[r]) \in Nat
  BY <1>5
<1>10. EntriesOK'
  <2> SUFFICES ASSUME NEW s \in Rows, NEW i \in 1 .. Len(log'[s])
               PROVE  /\ log'[s][i].at <= clock
                      /\ log'[s][i].did = "submitted" => log'[s][i].who = author[s]
    BY <1>1, <1>3 DEF EntriesOK
  <2>1. CASE s # r
    BY <1>7, <2>1 DEF IInv, EntriesOK
  <2>2. CASE s = r /\ i \in 1 .. Len(log[r])
    BY <1>6, <2>2 DEF IInv, EntriesOK
  <2>3. CASE s = r /\ i = Len(log[r]) + 1
    <3>1. req[w].at <= clock
      BY <1>1, <1>2 DEF TInv, RequestNames
    <3>2. a = "submitted" => req[w].user = author[r]
      BY <1>1, <1>2 DEF RequestSaw
    <3>. QED
      BY <1>4, <1>6, <2>3, <3>1, <3>2
  <2>4. s = r => i \in 1 .. Len(log[r]) \/ i = Len(log[r]) + 1
    <3>1. Len(log'[r]) = Len(log[r]) + 1
      BY <1>6
    <3>. QED
      BY <1>9, <3>1
  <2>. QED
    BY <2>1, <2>2, <2>3, <2>4
<1>11. DecisionsAnswerSubmissions'
  <2> SUFFICES ASSUME NEW s \in Rows, NEW i \in 1 .. Len(log'[s]), log'[s][i].did \in Decisions
               PROVE  /\ log'[s][i].who # author[s]
                      /\ \E j \in 1 .. i - 1 : /\ log'[s][j].did = "submitted"
                                               /\ log'[s][j].who = author[s]
                                               /\ log'[s][j].at < log'[s][i].at
    BY <1>1, <1>3 DEF DecisionsAnswerSubmissions
  <2>1. CASE s # r
    BY <1>7, <2>1 DEF IInv, DecisionsAnswerSubmissions
  <2>2. CASE s = r /\ i \in 1 .. Len(log[r])
    <3>1. /\ log[r][i].who # author[r]
          /\ \E j \in 1 .. i - 1 : /\ log[r][j].did = "submitted"
                                   /\ log[r][j].who = author[r]
                                   /\ log[r][j].at < log[r][i].at
      BY <1>1, <1>6, <2>2 DEF IInv, DecisionsAnswerSubmissions
    <3>2. \A j \in 1 .. i - 1 : j \in 1 .. Len(log[r])
      BY <1>9, <2>2
    <3>. QED
      BY <1>6, <2>2, <3>1, <3>2
  <2>3. CASE s = r /\ i = Len(log[r]) + 1
    <3>1. req[w].pc = "decide"
      BY <1>1, <1>4, <1>6, <2>3
    <3>2. /\ req[w].user # author[r]
          /\ \E j \in 1 .. Len(log[r]) : /\ log[r][j].did = "submitted"
                                         /\ log[r][j].who = author[r]
                                         /\ log[r][j].at < req[w].at
      BY <1>1, <1>2, <3>1 DEF RequestSaw
    <3>3. 1 .. i - 1 = 1 .. Len(log[r])
      BY <1>9, <2>3
    <3>. QED
      BY <1>4, <1>6, <2>3, <3>2, <3>3
  <2>4. s = r => i \in 1 .. Len(log[r]) \/ i = Len(log[r]) + 1
    <3>1. Len(log'[r]) = Len(log[r]) + 1
      BY <1>6
    <3>. QED
      BY <1>9, <3>1
  <2>. QED
    BY <2>1, <2>2, <2>3, <2>4
<1>12. OneWeeklyReport'
  BY <1>1, <1>3 DEF IInv, OneWeeklyReport
<1>13. \A v \in Worker : RequestSaw(v)'
  <2> SUFFICES ASSUME NEW v \in Worker PROVE RequestSaw(v)'
    OBVIOUS
  <2>1. CASE v = w
    <3>1. req'[w] = Idle
      BY <1>1, <1>2 DEF Finish, TInv, TypeOK
    <3>. QED
      BY <2>1, <3>1, IdleFacts DEF RequestSaw
  <2>2. CASE v # w
    <3>1. req'[v] = req[v] /\ RequestSaw(v)
      BY <1>1, <1>2, <2>2 DEF Finish, TInv, TypeOK, IInv
    <3>2. \A s \in Rows : \A j \in 1 .. Len(log[s]) :
            j \in 1 .. Len(log'[s]) /\ log'[s][j] = log[s][j]
      BY <1>6, <1>7, <1>9
    <3>. QED
      BY <1>1, <1>3, <3>1, <3>2 DEF RequestSaw
  <2>. QED
    BY <2>1, <2>2
<1>. QED
  BY <1>2, <1>8, <1>10, <1>11, <1>12, <1>13 DEF IInv

(* Every other step leaves the rows that remain alone, and no request that *)
(* it starts or ends is about to log.                                      *)
LEMMA OtherIInv ==
  ASSUME IInv, NEW w \in Worker, TInv', Rows' \subseteq Rows, clock' = clock,
         author' = author,
         \A r \in Rows' : status'[r] = status[r] /\ log'[r] = log[r],
         NEW q, q.pc \notin {"submit", "decide"}, req' = [req EXCEPT ![w] = q]
  PROVE  IInv'
<1>1. \A v \in Worker : req'[v] = req[v] \/ RequestSaw(v)'
  <2> SUFFICES ASSUME NEW v \in Worker, v = w PROVE RequestSaw(v)'
    BY DEF IInv, TInv, TypeOK
  <2>1. req'[v] = q
    BY DEF IInv, TInv, TypeOK
  <2>. QED
    BY <2>1 DEF RequestSaw
<1>2. clock <= clock'
  BY DEF IInv, TInv, TypeOK
<1>. QED
  BY <1>1, <1>2, RowsStay

LEMMA NextIInv == IInv /\ [Next]_vars => IInv'
<1> SUFFICES ASSUME IInv, [Next]_vars PROVE IInv'
  OBVIOUS
<1>1. TInv'
  BY NextTInv DEF IInv
<1>2. CASE UNCHANGED vars
  BY <1>2 DEF vars, IInv, TInv, TypeOK, RequestNames, RowOK, Rows, StatusFollowsLog, EntriesOK,
     DecisionsAnswerSubmissions, OneWeeklyReport, RequestSaw
<1>3. CASE Next
  <2>1. PICK w \in Worker :
          \/ \E u \in User : Create(w, u) \/ Generate(w, u) \/ \E r \in Report : Decide(w, u, r)
          \/ \E r \in Report : Update(w, r) \/ Submit(w, r) \/ Delete(w, r)
          \/ File(w)
          \/ Commit(w)
    BY <1>3 DEF Next
  <2>2. CASE \/ \E u \in User : Create(w, u) \/ Generate(w, u)
             \/ \E r \in Report : Update(w, r) \/ Delete(w, r)
             \/ File(w)
    <3>1. TInv
      BY DEF IInv
    <3>2. PICK pc \in Steps \ {"off", "submit", "decide"}, u \in User \cup {None},
               r \in Report \cup {None}, t \in Writing, d \in Dept \cup {None} :
            /\ req' = [req EXCEPT ![w] = Start(pc, u, r, t, d, 0)]
            /\ UNCHANGED <<columns, clock>>
      BY <2>2, <3>1, OtherStarts
    <3> DEFINE q == Start(pc, u, r, t, d, 0)
    <3>3. q.pc \notin {"submit", "decide"}
      BY StartFields
    <3>4. req' = [req EXCEPT ![w] = q]
      BY <3>2
    <3> HIDE DEF q
    <3>. QED
      BY <1>1, <3>2, <3>3, <3>4, OtherIInv DEF columns, Rows
  <2>3. CASE Reply(w) \/ Retry(w)
    <3>1. PICK q \in Request :
            /\ q.pc \in {"again", "save"}
            /\ req' = [req EXCEPT ![w] = q]
            /\ UNCHANGED <<columns, repoDept, clock, ledger, crashes>>
      BY <2>3, GoesOn DEF IInv
    <3>. QED
      BY <1>1, <3>1, OtherIInv DEF columns, Rows
  <2>4. CASE \/ \E t \in Writing : CommitUpdate(w, t) \/ SaveOver(w, t)
             \/ \E d \in Dept : CommitFile(w, d)
             \/ GiveUp(w) \/ Fail(w) \/ Crash(w)
    <3>1. req' = [req EXCEPT ![w] = Idle] /\ UNCHANGED <<status, author, log, clock>>
      BY <2>4 DEF CommitUpdate, SaveOver, CommitFile, GiveUp, Fail, Crash, columns, Finish
    <3>. QED
      BY <1>1, <3>1, IdleFacts, OtherIInv DEF Rows
  <2>5. CASE CommitDelete(w)
    <3> DEFINE r == req[w].rep
    <3>1. /\ r \in Report
          /\ req' = [req EXCEPT ![w] = Idle]
          /\ author' = author /\ clock' = clock
      BY <2>5 DEF CommitDelete, Finish, Rows
    <3>2. /\ status'[r] = "deleted"
          /\ \A s \in Report \ {r} : status'[s] = status[s] /\ log'[s] = log[s]
      BY <2>5, <3>1 DEF CommitDelete, IInv, TInv, TypeOK
    <3>3. Rows' \subseteq Rows \ {r}
      BY <3>1, <3>2 DEF Rows, Status, Decisions
    <3>4. \A s \in Rows' : status'[s] = status[s] /\ log'[s] = log[s]
      BY <3>2, <3>3 DEF Rows
    <3>. QED
      BY <1>1, <3>1, <3>3, <3>4, IdleFacts, OtherIInv
  <2>6. CASE Commit(w)
    BY <2>3, <2>4, <2>5, <2>6, RecordIInv, InsertIInv DEF Commit
  <2>. QED
    BY <2>1, <2>2, <2>6, StartLoggerIInv
<1>. QED
  BY <1>2, <1>3

(* The stored status is where the last committed entry put it, whatever    *)
(* requests overlapped.                                                    *)
THEOREM StatusAgreesWithLog == Spec => []StatusFollowsLog
<1>1. IInv => StatusFollowsLog
  BY DEF IInv
<1>. QED
  BY InitIInv, NextIInv, <1>1, PTL DEF Spec

(* Nobody decides their own report, and every decision is logged after,    *)
(* and dated after, a submission by the author.                            *)
THEOREM NoSelfDecision == Spec => []DecisionsAnswerSubmissions
<1>1. IInv => DecisionsAnswerSubmissions
  BY DEF IInv
<1>. QED
  BY InitIInv, NextIInv, <1>1, PTL DEF Spec

(* A person has at most one report for a repository and week. *)
THEOREM OneReportPerWeek == Spec => []OneWeeklyReport
<1>1. IInv => OneWeeklyReport
  BY DEF IInv
<1>. QED
  BY InitIInv, NextIInv, <1>1, PTL DEF Spec

-----------------------------------------------------------------------------
(* Requests one at a time.                                                 *)
(*                                                                         *)
(* A worker that is off stays off and the one that is not keeps running,   *)
(* so requests that are alone stay alone, and what a handler read still    *)
(* holds when it commits.                                                  *)

OthersOff(w) == \A v \in Worker \ {w} : req[v].pc = "off"

(* The entries of a report committed in the order of their dates. *)
InOrder(r) ==
  \A i, j \in 1 .. Len(log[r]) : i < j => log[r][i].at < log[r][j].at

(* What a handler read, and its commit relies on. *)
Creating(w)  == req[w].pc = "create" \/ (req[w].pc \in {"generate", "again", "save"} /\ req[w].rep = None)
Rewriting(w) == req[w].pc = "update" \/ (req[w].pc \in {"generate", "again", "save"} /\ req[w].rep # None)

ReadTrue(w) ==
  /\ Creating(w) \/ req[w].pc = "file" => req[w].dept = repoDept
  /\ Rewriting(w) \/ req[w].pc \in {"submit", "decide", "delete"} => req[w].rep \in Rows
  /\ req[w].pc \in {"generate", "again", "save"} /\ req[w].rep = None => RowsBy(req[w].user) = {}
  /\ Rewriting(w) \/ req[w].pc = "submit" => status[req[w].rep] \in Editable
  /\ req[w].pc = "submit" => text[req[w].rep] # Blank
  /\ req[w].pc = "decide" => status[req[w].rep] = "submitted"
  /\ req[w].pc = "delete" => status[req[w].rep] = "draft"
  /\ req[w].pc \in {"submit", "decide"} =>
       \A i \in 1 .. Len(log[req[w].rep]) : log[req[w].rep][i].at < req[w].at
  /\ req[w].pc \in {"generate", "again"} => ledger[req[w].user] < Cap

(* A generation is in the ledger, was of no use, or its request is about    *)
(* to enter it.                                                            *)
Owing(u) == \E w \in Worker : req[w].pc = "save" /\ req[w].user = u

Exact(u) ==
  /\ paid[u] = wasted[u] + (IF Owing(u) THEN ledger[u] + 1 ELSE ledger[u])
  /\ paid[u] <= Cap + wasted[u]

Settled(u) == paid[u] = ledger[u] + wasted[u] /\ paid[u] <= Cap + wasted[u]

Serial ==
  /\ \A r \in Rows : dept[r] = repoDept /\ InOrder(r)
  /\ \A w \in Worker : ReadTrue(w)
  /\ crashes = 0 => \A u \in User : Exact(u)

SInv == /\ IInv
        /\ \A w \in Worker : req[w].pc = "off" => req[w] = Off
        /\ Alone => Serial

(* What a worker that is on may do. *)
Acts(w) ==
  \/ \E u \in User :
       \/ Create(w, u) \/ Generate(w, u)
       \/ \E r \in Report : Decide(w, u, r)
  \/ \E r \in Report : Update(w, r) \/ Submit(w, r) \/ Delete(w, r)
  \/ File(w)
  \/ Commit(w)

LEMMA NextActs == Next <=> \E w \in Worker : Acts(w)
BY Zenon DEF Next, Acts

(* How a step changes the requests. *)
LEMMA ActorIsOn ==
  ASSUME SInv, NEW w \in Worker, Acts(w)
  PROVE  /\ req[w].pc # "off"
         /\ \A v \in Worker \ {w} : req'[v] = req[v]
         /\ req'[w].pc # "off"
<1>1. TypeOK /\ req \in [Worker -> Request]
  BY DEF SInv, IInv, TInv, TypeOK
<1>2. req[w].pc = "off" => req[w].rep = None
  BY OffFacts DEF SInv
<1>3. PICK q : q.pc # "off" /\ req' = [req EXCEPT ![w] = q] /\ req[w].pc # "off"
  <2>1. CASE Commit(w)
    <3>1. CASE Reply(w) \/ Retry(w)
      <4>1. PICK q \in Request :
              /\ q.pc \in {"again", "save"}
              /\ req' = [req EXCEPT ![w] = q] /\ req[w].pc \in {"generate", "again"}
        BY <3>1, GoesOn DEF SInv, IInv
      <4>. QED
        BY <4>1
    <3>2. CASE ~(Reply(w) \/ Retry(w))
      <4>1. Finish(w)
        BY <2>1, <3>2 DEF Commit, CommitSubmit, CommitDelete, GiveUp, Fail, Crash, CommitCreate,
           CommitUpdate, SaveOver, SaveNew, CommitDecide, CommitFile
      <4>2. req[w].pc # "off"
        BY <1>2, <2>1, <3>2 DEF Commit, CommitSubmit, CommitDelete, GiveUp, Fail, Asking, Crash,
           CommitCreate, CommitUpdate, SaveOver, SaveNew, CommitDecide, CommitFile
      <4>. QED
        BY <4>1, <4>2, IdleFacts DEF Finish
    <3>. QED
      BY <3>1, <3>2
  <2>2. CASE ~Commit(w)
    <3>1. PICK pc, u, r, t, d, n :
            pc # "off" /\ req' = [req EXCEPT ![w] = Start(pc, u, r, t, d, n)]
      <4>1. \/ \/ \E u \in User : Create(w, u) \/ Generate(w, u)
               \/ \E r \in Report : Update(w, r) \/ Delete(w, r)
               \/ File(w)
            \/ \E r \in Report : Submit(w, r)
            \/ \E u \in User, r \in Report : Decide(w, u, r)
        BY <2>2 DEF Acts
      <4>2. CASE \/ \E u \in User : Create(w, u) \/ Generate(w, u)
                 \/ \E r \in Report : Update(w, r) \/ Delete(w, r)
                 \/ File(w)
        BY <4>2, OtherStarts DEF SInv, IInv
      <4>3. CASE \E r \in Report : Submit(w, r)
        BY <4>3 DEF Submit, Begin, Steps
      <4>4. CASE \E u \in User, r \in Report : Decide(w, u, r)
        <5>1. PICK v \in User, s \in Report : Decide(w, v, s)
          BY <4>4
        <5>2. req' = [req EXCEPT ![w] = Start("decide", v, s, text[s], None, clock')]
          BY <5>1 DEF Decide, Begin
        <5>. QED
          BY <5>2
      <4>. QED
        BY <4>1, <4>2, <4>3, <4>4
    <3>2. req[w] = Idle
      BY <2>2 DEF Acts, Create, Generate, Update, Delete, File, Submit, Decide, Begin
    <3> DEFINE q == Start(pc, u, r, t, d, n)
    <3>3. q.pc = pc
      BY StartFields
    <3>4. req' = [req EXCEPT ![w] = q]
      BY <3>1
    <3> HIDE DEF q
    <3>. QED
      BY <3>1, <3>2, <3>3, <3>4, IdleFacts
  <2>. QED
    BY <2>1, <2>2
<1>. QED
  BY <1>1, <1>3

-----------------------------------------------------------------------------
(* What keeps Serial.                                                      *)

(* A worker that is off read nothing and owes nothing. *)
LEMMA OffReads ==
  ASSUME NEW v \in Worker, req[v].pc \in {"off", "idle"}
  PROVE  ReadTrue(v)
BY DEF ReadTrue, Creating, Rewriting

(* A step that leaves the tables and the ledger alone. *)
LEMMA TablesSerial ==
  ASSUME SInv, Serial, NEW w \in Worker, OthersOff(w), OthersOff(w)',
         UNCHANGED <<columns, repoDept, money, crashes>>,
         req[w].pc # "save", req'[w].pc # "save", ReadTrue(w)'
  PROVE  Serial'
<1>1. \A r \in Rows' : dept'[r] = repoDept' /\ InOrder(r)'
  BY DEF Serial, columns, Rows, InOrder
<1>2. \A v \in Worker : ReadTrue(v)'
  <2> SUFFICES ASSUME NEW v \in Worker, v # w PROVE ReadTrue(v)'
    OBVIOUS
  <2>1. req'[v].pc = "off"
    BY DEF OthersOff
  <2>. QED
    BY <2>1, OffReads DEF ReadTrue, Creating, Rewriting
<1>3. crashes' = 0 => \A u \in User : Exact(u)'
  <2> SUFFICES ASSUME crashes = 0, NEW u \in User PROVE Exact(u)'
    OBVIOUS
  <2>1. ~Owing(u) /\ ~Owing(u)'
    BY DEF Owing, OthersOff
  <2>2. Exact(u)
    BY DEF Serial
  <2>. QED
    BY <2>1, <2>2 DEF Exact, money
<1>. QED
  BY <1>1, <1>2, <1>3 DEF Serial

(* A step that ends the request. *)
LEMMA EndSerial ==
  ASSUME NEW w \in Worker, OthersOff(w)', req'[w] = Idle,
         \A r \in Rows' : dept'[r] = repoDept' /\ InOrder(r)',
         crashes' = 0 => \A u \in User : Settled(u)', TypeOK'
  PROVE  Serial'
<1>1. \A v \in Worker : req'[v].pc \in {"off", "idle"}
  BY IdleFacts DEF OthersOff
<1>2. \A v \in Worker : ReadTrue(v)'
  BY <1>1 DEF ReadTrue, Creating, Rewriting
<1>3. \A u \in User : ~Owing(u)'
  BY <1>1 DEF Owing
<1>4. crashes' = 0 => \A u \in User : Exact(u)'
  <2> SUFFICES ASSUME NEW u \in User, Settled(u)' PROVE Exact(u)'
    OBVIOUS
  <2>1. ledger'[u] \in Nat /\ wasted'[u] \in Nat
    BY DEF TypeOK
  <2>. QED
    BY <1>3, <2>1 DEF Exact, Settled
<1>. QED
  BY <1>2, <1>4 DEF Serial

(* What the ledger and the provider agree on, by what the request is doing. *)
LEMMA MoneyFacts ==
  ASSUME SInv, Serial, NEW w \in Worker, OthersOff(w), crashes = 0, NEW u \in User
  PROVE  /\ paid[u] <= Cap + wasted[u]
         /\ paid[u] \in Nat /\ ledger[u] \in Nat /\ wasted[u] \in Nat
         /\ req[w].pc = "save" /\ req[w].user = u => paid[u] = ledger[u] + wasted[u] + 1
         /\ ~(req[w].pc = "save" /\ req[w].user = u) => Settled(u)
<1>1. Owing(u) <=> req[w].pc = "save" /\ req[w].user = u
  BY DEF Owing, OthersOff
<1>2. Exact(u)
  BY DEF Serial
<1>3. paid[u] \in Nat /\ ledger[u] \in Nat /\ wasted[u] \in Nat
  BY DEF SInv, IInv, TInv, TypeOK
<1>. QED
  BY <1>1, <1>2, <1>3 DEF Exact, Settled

-----------------------------------------------------------------------------
(* Action by action.                                                       *)

(* A handler reads what is there. *)
LEMMA StartsRead ==
  ASSUME SInv, Serial, NEW w \in Worker,
         \/ \E u \in User : Create(w, u) \/ Generate(w, u)
         \/ \E r \in Report : Update(w, r) \/ Delete(w, r)
         \/ File(w)
  PROVE  ReadTrue(w)' /\ req'[w].pc # "save"
<1>1. req \in [Worker -> Request]
  BY DEF SInv, IInv, TInv, TypeOK
<1>2. UNCHANGED <<columns, repoDept, money>> /\ Rows' = Rows
  BY DEF Create, Generate, Update, Delete, File, columns, Rows
<1>3. \A u : RowsBy(u)' = RowsBy(u)
  BY <1>2 DEF RowsBy, columns
<1>4. PICK pc, u, r, t, d :
        /\ req' = [req EXCEPT ![w] = Start(pc, u, r, t, d, 0)]
        /\ \/ pc = "create" /\ d = repoDept
           \/ pc = "file" /\ d = repoDept
           \/ pc = "generate" /\ r = None /\ d = repoDept /\ RowsBy(u) = {} /\ ledger[u] < Cap
           \/ pc = "generate" /\ r \in Rows /\ status[r] \in Editable /\ ledger[u] < Cap
           \/ pc = "update" /\ r \in Rows /\ status[r] \in Editable
           \/ pc = "delete" /\ r \in Rows /\ status[r] = "draft"
  <2>1. CASE \E u \in User : Create(w, u)
    BY <2>1 DEF Create, Begin
  <2>2. CASE \E u \in User : Generate(w, u)
    <3>1. PICK u \in User : Generate(w, u)
      BY <2>2
    <3>2. CASE RowsBy(u) = {} /\ Begin(w, Start("generate", u, None, Blank, repoDept, 0))
      BY <3>1, <3>2 DEF Generate, Begin
    <3>3. CASE \E r \in RowsBy(u) :
                 status[r] \in Editable /\ Begin(w, Start("generate", u, r, text[r], None, 0))
      <4>1. PICK r \in RowsBy(u) :
              status[r] \in Editable /\ Begin(w, Start("generate", u, r, text[r], None, 0))
        BY <3>3
      <4>2. /\ req' = [req EXCEPT ![w] = Start("generate", u, r, text[r], None, 0)]
            /\ r \in Rows /\ status[r] \in Editable /\ ledger[u] < Cap
        BY <3>1, <4>1 DEF Generate, Begin, RowsBy
      <4>. QED
        BY <4>2
    <3>. QED
      BY <3>1, <3>2, <3>3 DEF Generate
  <2>3. CASE \E r \in Report : Update(w, r)
    <3>1. PICK r \in Report : Update(w, r)
      BY <2>3
    <3>2. /\ req' = [req EXCEPT ![w] = Start("update", author[r], r, text[r], None, 0)]
          /\ r \in Rows /\ status[r] \in Editable
      BY <3>1 DEF Update, Begin
    <3>. QED
      BY <3>2
  <2>4. CASE \E r \in Report : Delete(w, r)
    <3>1. PICK r \in Report : Delete(w, r)
      BY <2>4
    <3>2. /\ req' = [req EXCEPT ![w] = Start("delete", author[r], r, text[r], None, 0)]
          /\ r \in Rows /\ status[r] = "draft"
      BY <3>1 DEF Delete, Begin
    <3>. QED
      BY <3>2
  <2>5. CASE File(w)
    BY <2>5 DEF File, Begin
  <2>. QED
    BY <2>1, <2>2, <2>3, <2>4, <2>5
<1> DEFINE q == Start(pc, u, r, t, d, 0)
<1>5. q.pc = pc /\ q.user = u /\ q.rep = r /\ q.dept = d
  BY StartFields
<1>6. req'[w] = q
  BY <1>1, <1>4
<1>7. \A s \in Rows : s # None
  BY NoneAssumption DEF Rows
<1> HIDE DEF q
<1>8. ReadTrue(w)'
  BY <1>2, <1>3, <1>4, <1>5, <1>6, <1>7 DEF ReadTrue, Creating, Rewriting, columns, money
<1>. QED
  BY <1>4, <1>5, <1>6, <1>8

(* Every entry is older than a transaction that begins to log. *)
LEMMA LoggersRead ==
  ASSUME SInv, NEW w \in Worker,
         \/ \E r \in Report : Submit(w, r)
         \/ \E u \in User, r \in Report : Decide(w, u, r)
  PROVE  /\ ReadTrue(w)' /\ req'[w].pc # "save"
         /\ UNCHANGED <<columns, repoDept, money, crashes>>
<1>1. IInv /\ TInv /\ req \in [Worker -> Request]
  BY DEF SInv, IInv, TInv, TypeOK
<1>2. UNCHANGED <<columns, repoDept, money, crashes>> /\ Rows' = Rows
  BY DEF Submit, Decide, columns, Rows
<1>3. PICK pc \in {"submit", "decide"}, u \in User, r \in Report :
        /\ r \in Rows
        /\ Stamp
        /\ req' = [req EXCEPT ![w] = Start(pc, u, r, text[r], None, clock')]
        /\ pc = "submit" => status[r] \in Editable /\ text[r] # Blank
        /\ pc = "decide" => status[r] = "submitted"
  <2>1. CASE \E r \in Report : Submit(w, r)
    BY <1>1, <2>1 DEF Submit, Begin, TInv, RowOK
  <2>2. CASE \E u \in User, r \in Report : Decide(w, u, r)
    BY <2>2 DEF Decide, Begin
  <2>. QED
    BY <2>1, <2>2
<1>4. \A i \in 1 .. Len(log[r]) : log[r][i].at < clock'
  <2> SUFFICES ASSUME NEW i \in 1 .. Len(log[r]) PROVE log[r][i].at < clock'
    OBVIOUS
  <2>1. log[r] \in Seq(Entry)
    BY <1>1 DEF TInv, TypeOK
  <2>2. log[r][i] \in Entry
    BY <2>1
  <2>3. log[r][i].at \in Nat
    BY <2>2 DEF Entry
  <2>4. log[r][i].at <= clock
    BY <1>1, <1>3 DEF IInv, EntriesOK
  <2>5. clock \in Nat /\ clock' = clock + 1
    BY <1>1, <1>3 DEF Stamp, TInv, TypeOK
  <2>. QED
    BY <2>3, <2>4, <2>5
<1> DEFINE q == Start(pc, u, r, text[r], None, clock')
<1>5. q.pc = pc /\ q.rep = r /\ q.at = clock'
  BY StartFields
<1>6. req'[w] = q
  BY <1>1, <1>3
<1> HIDE DEF q
<1>7. ReadTrue(w)'
  BY <1>2, <1>3, <1>4, <1>5, <1>6 DEF ReadTrue, Creating, Rewriting, columns
<1>. QED
  BY <1>2, <1>3, <1>5, <1>6, <1>7

(* The answer is owed to the ledger until it is saved: below the cap when   *)
(* the budget was checked, the person is at most at the cap now.  One that  *)
(* cannot be used is owed to nothing.                                      *)
LEMMA ReplyMoney ==
  ASSUME SInv, Serial, NEW w \in Worker, OthersOff(w), OthersOff(w)', Reply(w), crashes = 0,
         req'[w].pc = "save", req'[w].user = req[w].user, NEW u \in User
  PROVE  Exact(u)'
<1>1. /\ req[w].pc \in {"generate", "again"} /\ ledger' = ledger /\ wasted' = wasted
      /\ paid' = [paid EXCEPT ![req[w].user] = @ + 1] /\ paid \in [User -> Nat]
  BY DEF Reply, Asking, SInv, IInv, TInv, TypeOK
<1>2. Settled(u) /\ paid[u] \in Nat /\ ledger[u] \in Nat /\ wasted[u] \in Nat
  BY <1>1, MoneyFacts
<1>3. Owing(u)' <=> u = req[w].user
  BY DEF Owing, OthersOff
<1>4. CASE u = req[w].user
  <2>1. ledger[u] < Cap
    BY <1>1, <1>4 DEF Serial, ReadTrue
  <2>2. paid'[u] = paid[u] + 1
    BY <1>1, <1>4
  <2>3. paid'[u] <= Cap + wasted[u] /\ paid'[u] = wasted[u] + (ledger[u] + 1)
    BY <1>2, <2>1, <2>2, BoundsAssumption DEF Settled
  <2>. QED
    BY <1>1, <1>3, <1>4, <2>3 DEF Exact
<1>5. CASE u # req[w].user
  <2>1. paid'[u] = paid[u] /\ paid[u] = wasted[u] + ledger[u]
    BY <1>1, <1>2, <1>5 DEF Settled
  <2>. QED
    BY <1>1, <1>2, <1>3, <1>5, <2>1 DEF Exact, Settled
<1>. QED
  BY <1>4, <1>5

LEMMA AttemptMoney ==
  ASSUME SInv, Serial, NEW w \in Worker, OthersOff(w), req[w].pc \in {"generate", "again"},
         Attempt(w), ledger' = ledger, crashes = 0, NEW u \in User
  PROVE  Settled(u)'
<1>1. Settled(u) /\ paid[u] \in Nat /\ ledger[u] \in Nat /\ wasted[u] \in Nat
  BY MoneyFacts
<1>2. PICK n \in {0, 1} : paid'[u] = paid[u] + n /\ wasted'[u] = wasted[u] + n
  BY AttemptFacts DEF SInv, IInv
<1>. QED
  BY <1>1, <1>2, BoundsAssumption DEF Settled

LEMMA GoOnSerial ==
  ASSUME SInv, Serial, NEW w \in Worker, OthersOff(w), OthersOff(w)', Reply(w) \/ Retry(w), TypeOK'
  PROVE  Serial'
<1>1. PICK q \in Request :
        /\ q.pc \in {"again", "save"} /\ (q.pc = "save" <=> Reply(w))
        /\ q.user = req[w].user /\ q.rep = req[w].rep /\ q.dept = req[w].dept
        /\ req' = [req EXCEPT ![w] = q]
        /\ req[w].pc \in {"generate", "again"} /\ req[w].user \in User
        /\ UNCHANGED <<columns, repoDept, clock, ledger, crashes>>
  BY GoesOn DEF SInv, IInv
<1>2. req'[w] = q
  BY <1>1 DEF SInv, IInv, TInv, TypeOK
<1>3. UNCHANGED <<status, author, text, dept, log>> /\ Rows' = Rows
  BY <1>1 DEF columns, Rows
<1>4. \A r \in Rows' : dept'[r] = repoDept' /\ InOrder(r)'
  BY <1>1, <1>3 DEF Serial, InOrder
<1>5. \A v \in Worker : ReadTrue(v)'
  <2>1. ReadTrue(w)'
    <3>1. ReadTrue(w)
      BY DEF Serial
    <3>2. \A u : RowsBy(u)' = RowsBy(u)
      BY <1>3 DEF RowsBy
    <3>. QED
      BY <1>1, <1>2, <1>3, <3>1, <3>2 DEF ReadTrue, Creating, Rewriting
  <2>2. \A v \in Worker \ {w} : req'[v].pc = "off"
    BY DEF OthersOff
  <2>3. \A v \in Worker \ {w} : ReadTrue(v)'
    BY <2>2 DEF ReadTrue, Creating, Rewriting
  <2>. QED
    BY <2>1, <2>3
<1>6. ASSUME crashes = 0, NEW u \in User PROVE Exact(u)'
  <2>1. CASE Reply(w)
    BY <1>1, <1>2, <1>6, <2>1, ReplyMoney
  <2>2. CASE ~Reply(w)
    <3>1. ~Owing(u)'
      BY <1>1, <1>2, <2>2 DEF Owing, OthersOff
    <3>2. Settled(u)'
      BY <1>1, <1>6, <2>2, AttemptMoney DEF Retry
    <3>3. ledger'[u] \in Nat /\ wasted'[u] \in Nat
      BY DEF TypeOK
    <3>. QED
      BY <3>1, <3>2, <3>3 DEF Exact, Settled
  <2>. QED
    BY <2>1, <2>2
<1>. QED
  BY <1>1, <1>4, <1>5, <1>6 DEF Serial

(* Saving settles the account; another commit has none to settle. *)
LEMMA SaveMoney ==
  ASSUME SInv, Serial, NEW w \in Worker, OthersOff(w), req[w].pc = "save", Charge(w),
         paid' = paid, wasted' = wasted, crashes = 0
  PROVE  \A u \in User : Settled(u)'
<1>1. ledger \in [User -> Nat] /\ req[w].user \in User
  BY DEF SInv, IInv, TInv, TypeOK, RequestNames, Named
<1> SUFFICES ASSUME NEW u \in User PROVE Settled(u)'
  OBVIOUS
<1>2. CASE req[w].user = u
  <2>1. ledger'[u] = ledger[u] + 1
    BY <1>1, <1>2 DEF Charge
  <2>. QED
    BY <1>2, <2>1, MoneyFacts DEF Settled
<1>3. CASE req[w].user # u
  <2>1. ledger'[u] = ledger[u]
    BY <1>1, <1>3 DEF Charge
  <2>. QED
    BY <1>3, <2>1, MoneyFacts DEF Settled
<1>. QED
  BY <1>2, <1>3

LEMMA OtherMoney ==
  ASSUME SInv, Serial, NEW w \in Worker, OthersOff(w), req[w].pc # "save",
         UNCHANGED money, crashes = 0
  PROVE  \A u \in User : Settled(u)'
BY MoneyFacts DEF money, Settled

(* A new report takes the department that the repository still has. *)
LEMMA InsertSerial ==
  ASSUME SInv, Serial, NEW w \in Worker, OthersOff(w), OthersOff(w)', TypeOK', NEW t \in Writing,
         CommitCreate(w, t) \/ SaveNew(w, t)
  PROVE  Serial'
<1>1. /\ Insert(w, t) /\ Finish(w) /\ UNCHANGED <<repoDept, crashes>>
      /\ Creating(w)
  BY DEF CommitCreate, SaveNew, Creating
<1>2. req \in [Worker -> Request] /\ dept \in [Report -> Dept \cup {None}]
  BY DEF SInv, IInv, TInv, TypeOK
<1>3. req'[w] = Idle
  BY <1>1, <1>2 DEF Finish
<1>4. req[w].dept = repoDept
  BY <1>1 DEF Serial, ReadTrue
<1>5. PICK r \in Report :
        /\ status[r] = "free"
        /\ status' = [status EXCEPT ![r] = "draft"]
        /\ dept' = [dept EXCEPT ![r] = req[w].dept]
        /\ log' = log
  BY <1>1 DEF Insert
<1>6. log[r] = << >>
  BY <1>5 DEF SInv, IInv, TInv, RowOK
<1>7. Rows' \subseteq Rows \cup {r}
  BY <1>5 DEF Rows, SInv, IInv, TInv, TypeOK
<1>8. dept'[r] = repoDept /\ \A s \in Report \ {r} : dept'[s] = dept[s]
  BY <1>2, <1>4, <1>5
<1>9. InOrder(r)' /\ \A s \in Rows : InOrder(s)'
  BY <1>5, <1>6 DEF InOrder, Serial
<1>10. \A s \in Rows' : dept'[s] = repoDept' /\ InOrder(s)'
  BY <1>1, <1>7, <1>8, <1>9 DEF Serial, Rows
<1>11. crashes' = 0 => \A u \in User : Settled(u)'
  <2>1. CASE CommitCreate(w, t)
    BY <2>1, OtherMoney DEF CommitCreate
  <2>2. CASE SaveNew(w, t)
    BY <2>2, SaveMoney DEF SaveNew
  <2>. QED
    BY <2>1, <2>2
<1>. QED
  BY <1>3, <1>10, <1>11, EndSerial

(* A new text changes neither the log nor the department. *)
LEMMA RewriteSerial ==
  ASSUME SInv, Serial, NEW w \in Worker, OthersOff(w), OthersOff(w)', TypeOK', NEW t \in Writing,
         CommitUpdate(w, t) \/ SaveOver(w, t)
  PROVE  Serial'
<1>1. Finish(w) /\ UNCHANGED <<status, dept, log, repoDept, crashes>> /\ Rows' = Rows
  BY DEF CommitUpdate, SaveOver, Rows
<1>2. req'[w] = Idle
  BY <1>1 DEF Finish, SInv, IInv, TInv, TypeOK
<1>3. \A r \in Rows' : dept'[r] = repoDept' /\ InOrder(r)'
  BY <1>1 DEF Serial, InOrder
<1>4. crashes' = 0 => \A u \in User : Settled(u)'
  <2>1. CASE CommitUpdate(w, t)
    BY <2>1, OtherMoney DEF CommitUpdate
  <2>2. CASE SaveOver(w, t)
    BY <2>2, SaveMoney DEF SaveOver
  <2>. QED
    BY <2>1, <2>2
<1>. QED
  BY <1>2, <1>3, <1>4, EndSerial

(* An entry is dated after those that were there. *)
LEMMA RecordSerial ==
  ASSUME SInv, Serial, NEW w \in Worker, OthersOff(w), OthersOff(w)', TypeOK',
         CommitSubmit(w) \/ \E d \in Decisions : CommitDecide(w, d)
  PROVE  Serial'
<1>1. PICK a \in {"submitted"} \cup Decisions :
        /\ req[w].pc \in {"submit", "decide"}
        /\ req[w].rep \in Rows
        /\ Record(w, req[w].rep, a)
        /\ Finish(w)
        /\ UNCHANGED <<author, text, dept, repoDept, clock, money, crashes>>
  BY DEF CommitSubmit, CommitDecide
<1> DEFINE r == req[w].rep
           e == Made(req[w].user, a, req[w].at)
<1>2. TInv
  BY DEF SInv, IInv
<1>3. /\ log'[r] = Append(log[r], e)
      /\ \A s \in Report \ {r} : log'[s] = log[s]
      /\ Rows' = Rows
      /\ e \in Entry
  BY <1>1, <1>2, RecordFacts
<1>4. e.at = req[w].at
  BY DEF Made
<1> HIDE DEF e
<1>5. r \in Report /\ log[r] \in Seq(Entry)
  BY <1>1, <1>2 DEF Rows, TInv, TypeOK
<1>6. /\ Len(log'[r]) = Len(log[r]) + 1
      /\ log'[r][Len(log[r]) + 1] = e
      /\ \A i \in 1 .. Len(log[r]) : log'[r][i] = log[r][i]
      /\ Len(log[r]) \in Nat
  BY <1>3, <1>5
<1>7. \A i \in 1 .. Len(log[r]) : log[r][i].at < req[w].at
  BY <1>1 DEF Serial, ReadTrue
<1>8. \A s \in Rows' : InOrder(s)'
  <2> SUFFICES ASSUME NEW s \in Rows, NEW i \in 1 .. Len(log'[s]), NEW j \in 1 .. Len(log'[s]),
                      i < j
               PROVE  log'[s][i].at < log'[s][j].at
    BY <1>3 DEF InOrder
  <2>1. CASE s # r
    <3>1. log'[s] = log[s]
      BY <1>3, <2>1 DEF Rows
    <3>. QED
      BY <3>1 DEF Serial, InOrder
  <2>2. CASE s = r /\ j \in 1 .. Len(log[r])
    <3>1. i \in 1 .. Len(log[r])
      BY <1>6, <2>2
    <3>2. log[r][i].at < log[r][j].at
      BY <1>1, <2>2, <3>1 DEF Serial, InOrder
    <3>. QED
      BY <1>6, <2>2, <3>1, <3>2
  <2>3. CASE s = r /\ j = Len(log[r]) + 1
    <3>1. i \in 1 .. Len(log[r])
      BY <1>6, <2>3
    <3>. QED
      BY <1>4, <1>6, <1>7, <2>3, <3>1
  <2>. QED
    BY <1>6, <2>1, <2>2, <2>3
<1>9. req'[w] = Idle
  BY <1>1, <1>2 DEF Finish, TInv, TypeOK
<1>10. \A s \in Rows' : dept'[s] = repoDept' /\ InOrder(s)'
  BY <1>1, <1>3, <1>8 DEF Serial
<1>11. crashes' = 0 => \A u \in User : Settled(u)'
  BY <1>1, OtherMoney
<1>. QED
  BY <1>9, <1>10, <1>11, EndSerial

(* A report that goes leaves the others as they were. *)
LEMMA DeleteSerial ==
  ASSUME SInv, Serial, NEW w \in Worker, OthersOff(w), OthersOff(w)', TypeOK', CommitDelete(w)
  PROVE  Serial'
<1>1. /\ Finish(w) /\ UNCHANGED <<dept, repoDept, money, crashes>>
      /\ req[w].rep \in Rows /\ req[w].pc = "delete"
      /\ status' = [status EXCEPT ![req[w].rep] = "deleted"]
      /\ log' = [log EXCEPT ![req[w].rep] = << >>]
  BY DEF CommitDelete
<1>2. TInv
  BY DEF SInv, IInv
<1>3. req'[w] = Idle
  BY <1>1, <1>2 DEF Finish, TInv, TypeOK
<1>4. \A s \in Rows' : s \in Rows /\ log'[s] = log[s]
  BY <1>1, <1>2 DEF Rows, TInv, TypeOK, Status, Decisions
<1>5. \A s \in Rows' : dept'[s] = repoDept' /\ InOrder(s)'
  BY <1>1, <1>4 DEF Serial, InOrder
<1>6. crashes' = 0 => \A u \in User : Settled(u)'
  BY <1>1, OtherMoney
<1>. QED
  BY <1>3, <1>5, <1>6, EndSerial

(* The repository and all its reports go to the department together. *)
LEMMA FileSerial ==
  ASSUME SInv, Serial, NEW w \in Worker, OthersOff(w), OthersOff(w)', TypeOK', NEW d \in Dept,
         CommitFile(w, d)
  PROVE  Serial'
<1>1. /\ Finish(w) /\ UNCHANGED <<status, log, money, crashes>> /\ Rows' = Rows
      /\ req[w].pc = "file"
      /\ repoDept' = IF d = req[w].dept THEN repoDept ELSE d
      /\ dept' = [r \in Report |-> IF r \in Rows THEN d ELSE dept[r]]
  BY DEF CommitFile, Rows
<1>2. req[w].dept = repoDept
  BY <1>1 DEF Serial, ReadTrue
<1>3. \A r \in Rows' : dept'[r] = repoDept' /\ InOrder(r)'
  BY <1>1, <1>2 DEF Serial, InOrder, Rows
<1>4. req'[w] = Idle
  BY <1>1 DEF Finish, SInv, IInv, TInv, TypeOK
<1>5. crashes' = 0 => \A u \in User : Settled(u)'
  BY <1>1, OtherMoney
<1>. QED
  BY <1>3, <1>4, <1>5, EndSerial

(* Alone, no answer that could be used is thrown away but by a crash. *)
LEMMA LostSerial ==
  ASSUME SInv, Serial, NEW w \in Worker, OthersOff(w), OthersOff(w)', TypeOK',
         GiveUp(w) \/ Fail(w) \/ Crash(w)
  PROVE  Serial'
<1>1. Finish(w) /\ UNCHANGED <<columns, repoDept>> /\ Rows' = Rows
  BY DEF GiveUp, Fail, Crash, columns, Rows
<1>2. req'[w] = Idle
  BY <1>1 DEF Finish, SInv, IInv, TInv, TypeOK
<1>3. \A r \in Rows' : dept'[r] = repoDept' /\ InOrder(r)'
  BY <1>1 DEF Serial, InOrder, columns
<1>4. crashes' = 0 => \A u \in User : Settled(u)'
  <2>1. CASE Crash(w)
    BY <2>1 DEF Crash, SInv, IInv, TInv, TypeOK
  <2>2. CASE Fail(w)
    <3>1. req[w].pc # "save"
      BY <2>2 DEF Fail, Asking, Serial, ReadTrue, Rewriting
    <3>. QED
      BY <2>2, <3>1, OtherMoney DEF Fail
  <2>3. CASE GiveUp(w)
    BY <2>3, AttemptMoney DEF GiveUp
  <2>. QED
    BY <2>1, <2>2, <2>3
<1>. QED
  BY <1>2, <1>3, <1>4, EndSerial

-----------------------------------------------------------------------------
(* Alone, what the requests read and keep. *)
LEMMA ActsSerial ==
  ASSUME SInv, Serial, NEW w \in Worker, OthersOff(w), OthersOff(w)', Acts(w), TypeOK'
  PROVE  Serial'
<1>1. CASE Commit(w)
  BY <1>1, GoOnSerial, InsertSerial, RewriteSerial, RecordSerial, DeleteSerial, FileSerial,
     LostSerial DEF Commit
<1>2. CASE \/ \E u \in User : Create(w, u) \/ Generate(w, u)
           \/ \E r \in Report : Update(w, r) \/ Delete(w, r)
           \/ File(w)
  <2>1. ReadTrue(w)' /\ req'[w].pc # "save"
    BY <1>2, StartsRead
  <2>2. UNCHANGED <<columns, repoDept, money, crashes>> /\ req[w] = Idle
    BY <1>2 DEF Create, Generate, Update, Delete, File, Begin
  <2>. QED
    BY <2>1, <2>2, IdleFacts, TablesSerial
<1>3. CASE \/ \E r \in Report : Submit(w, r)
           \/ \E u \in User, r \in Report : Decide(w, u, r)
  <2>1. /\ ReadTrue(w)' /\ req'[w].pc # "save"
        /\ UNCHANGED <<columns, repoDept, money, crashes>>
    BY <1>3, LoggersRead
  <2>2. req[w] = Idle
    BY <1>3 DEF Submit, Decide, Begin
  <2>. QED
    BY <2>1, <2>2, IdleFacts, TablesSerial
<1>. QED
  BY <1>1, <1>2, <1>3 DEF Acts

(* Requests that are alone after a step were alone before it. *)
LEMMA StaysAlone ==
  ASSUME SInv, NEW w \in Worker, Acts(w)
  PROVE  /\ Alone' => OthersOff(w)'
         /\ OthersOff(w)' => OthersOff(w)
         /\ OthersOff(w) => OthersOff(w)'
         /\ Alone <=> OthersOff(w)
BY ActorIsOn DEF Alone, OthersOff

LEMMA InitSInv == Init => SInv
<1> SUFFICES ASSUME Init PROVE SInv
  OBVIOUS
<1>1. Rows = {}
  BY DEF Init, Rows, Status, Decisions
<1>2. \A w \in Worker : req[w] = Idle \/ req[w] = Off
  BY DEF Init
<1>3. \A w \in Worker : ReadTrue(w)
  BY <1>2, IdleFacts, OffFacts, OffReads
<1>4. \A u \in User : Exact(u)
  <2>1. \A u \in User : ~Owing(u) /\ paid[u] = 0 /\ ledger[u] = 0 /\ wasted[u] = 0
    BY <1>2, IdleFacts, OffFacts DEF Owing, Init
  <2>. QED
    BY <2>1, BoundsAssumption DEF Exact
<1>. QED
  BY <1>1, <1>2, <1>3, <1>4, InitIInv, IdleFacts DEF SInv, Serial

LEMMA NextSInv == SInv /\ [Next]_vars => SInv'
<1> SUFFICES ASSUME SInv, [Next]_vars PROVE SInv'
  OBVIOUS
<1>1. IInv'
  BY NextIInv DEF SInv
<1>2. CASE UNCHANGED vars
  <2>1. UNCHANGED <<status, author, text, dept, log, repoDept, ledger, paid, wasted, req, crashes>>
    BY <1>2 DEF vars
  <2>2. Rows' = Rows /\ Alone' = Alone
    BY <2>1 DEF Rows, Alone
  <2>3. Serial => Serial'
    <3>1. \A u : Owing(u)' = Owing(u) /\ RowsBy(u)' = RowsBy(u)
      BY <2>1, <2>2 DEF Owing, RowsBy
    <3>2. \A w \in Worker : ReadTrue(w) => ReadTrue(w)'
      BY <2>1, <2>2, <3>1 DEF ReadTrue, Creating, Rewriting
    <3>3. \A u \in User : Exact(u) => Exact(u)'
      BY <2>1, <3>1 DEF Exact
    <3>4. \A r \in Rows : InOrder(r) => InOrder(r)'
      BY <2>1 DEF InOrder
    <3>. QED
      BY <2>1, <2>2, <3>2, <3>3, <3>4 DEF Serial
  <2>. QED
    BY <1>1, <2>1, <2>2, <2>3 DEF SInv
<1>3. CASE Next
  <2>1. PICK w \in Worker : Acts(w)
    BY <1>3, NextActs
  <2>2. \A v \in Worker : req'[v].pc = "off" => req'[v] = Off
    BY <2>1, ActorIsOn DEF SInv
  <2>3. ASSUME Alone' PROVE Serial'
    <3>1. OthersOff(w) /\ OthersOff(w)' /\ Alone
      BY <2>1, <2>3, StaysAlone
    <3>2. Serial
      BY <3>1 DEF SInv
    <3>. QED
      BY <1>1, <2>1, <3>1, <3>2, ActsSerial DEF IInv, TInv
  <2>. QED
    BY <1>1, <2>2, <2>3 DEF SInv
<1>. QED
  BY <1>2, <1>3

LEMMA SpecSInv == Spec => []SInv
BY InitSInv, NextSInv, PTL DEF Spec

(* Requests one at a time: every report of a repository is with the        *)
(* department the repository is filed under.                               *)
THEOREM NoneStranded == Spec => []AloneNoneStranded
<1>1. SInv => AloneNoneStranded
  BY DEF SInv, Serial, AloneNoneStranded
<1>. QED
  BY SpecSInv, <1>1, PTL

(* Requests one at a time and none of them killed: between requests the    *)
(* ledger has exactly what the provider was paid for but the answers that  *)
(* could not be used, and but for those nobody is ever beyond the cap.     *)
THEOREM SpendIsExact == Spec => []AloneSpendIsExact
<1>1. SInv => AloneSpendIsExact
  <2> SUFFICES ASSUME SInv, Alone, crashes = 0, NEW u \in User
               PROVE  /\ Quiet => paid[u] = ledger[u] + wasted[u]
                      /\ paid[u] <= Cap + wasted[u]
    BY DEF AloneSpendIsExact
  <2>1. Exact(u)
    BY DEF SInv, Serial
  <2>2. paid[u] \in Nat /\ ledger[u] \in Nat /\ wasted[u] \in Nat
    BY DEF SInv, IInv, TInv, TypeOK
  <2>3. Quiet => ~Owing(u)
    BY DEF Quiet, Owing
  <2>. QED
    BY <2>1, <2>2, <2>3 DEF Exact
<1>. QED
  BY SpecSInv, <1>1, PTL

-----------------------------------------------------------------------------
(* The contract.                                                           *)
(*                                                                         *)
(* Alone, entries are committed in the order of their dates, so the list   *)
(* that a reader sees is the log.                                          *)

Line == [who: User, did: {"submitted"} \cup Decisions]

InTurn(l) == [k \in 1 .. Len(l) |-> Told(l[k])]

LEMMA ToldLine == \A e \in Entry : Told(e) \in Line
BY DEF Told, Entry, Line

LEMMA ListedInTurn ==
  ASSUME NEW l \in Seq(Entry), \A i, j \in 1 .. Len(l) : i < j => l[i].at < l[j].at
  PROVE  Listed(l) = InTurn(l)
<1>1. Len(l) \in Nat /\ \A i \in 1 .. Len(l) : l[i].at \in Nat
  <2>1. \A i \in 1 .. Len(l) : l[i] \in Entry
    OBVIOUS
  <2>. QED
    BY <2>1 DEF Entry
<1>2. \A k \in 1 .. Len(l) : Kth(l, k) = k
  <2>1. \A i \in 1 .. Len(l) : Cardinality({j \in 1 .. Len(l) : l[j].at <= l[i].at}) = i
    <3> SUFFICES ASSUME NEW i \in 1 .. Len(l)
                 PROVE  Cardinality({j \in 1 .. Len(l) : l[j].at <= l[i].at}) = i
      OBVIOUS
    <3>1. \A j \in 1 .. Len(l) : l[j].at <= l[i].at <=> j \in 1 .. i
      <4> SUFFICES ASSUME NEW j \in 1 .. Len(l) PROVE l[j].at <= l[i].at <=> j \in 1 .. i
        OBVIOUS
      <4>1. CASE j < i
        BY <1>1, <4>1
      <4>2. CASE j = i
        BY <1>1, <4>2
      <4>3. CASE i < j
        <5>1. l[i].at < l[j].at
          BY <4>3
        <5>. QED
          BY <1>1, <4>3, <5>1
      <4>. QED
        BY <4>1, <4>2, <4>3
    <3>2. 1 .. i \subseteq 1 .. Len(l)
      BY <1>1
    <3>3. {j \in 1 .. Len(l) : l[j].at <= l[i].at} = 1 .. i
      BY <3>1, <3>2
    <3>4. Cardinality(1 .. i) = i
      <4>1. i \in Int /\ 1 \in Int /\ ~(1 > i) /\ i - 1 + 1 = i
        BY <1>1
      <4>. QED
        BY <4>1, FS_Interval
    <3>. QED
      BY <3>3, <3>4
  <2> SUFFICES ASSUME NEW k \in 1 .. Len(l) PROVE Kth(l, k) = k
    OBVIOUS
  <2> DEFINE C(i) == Cardinality({j \in 1 .. Len(l) : l[j].at <= l[i].at})
  <2>2. \A i \in 1 .. Len(l) : C(i) = i
    BY <2>1
  <2>3. Kth(l, k) = CHOOSE i \in 1 .. Len(l) : C(i) = k
    BY DEF Kth
  <2> HIDE DEF C
  <2>4. \E i \in 1 .. Len(l) : C(i) = k
    BY <2>2
  <2>5. Kth(l, k) \in 1 .. Len(l) /\ C(Kth(l, k)) = k
    BY <2>3, <2>4
  <2>. QED
    BY <2>2, <2>5
<1>. QED
  BY <1>2 DEF Listed, InTurn

LEMMA InTurnSeq ==
  ASSUME NEW l \in Seq(Entry)
  PROVE  /\ InTurn(l) \in Seq(Line)
         /\ Len(InTurn(l)) = Len(l)
         /\ \A k \in 1 .. Len(l) : InTurn(l)[k] = Told(l[k])
<1>1. \A k \in 1 .. Len(l) : Told(l[k]) \in Line
  BY ToldLine
<1>2. Len(l) \in Nat
  OBVIOUS
<1>. QED
  BY <1>1, <1>2 DEF InTurn

LEMMA InTurnAppend ==
  ASSUME NEW l \in Seq(Entry), NEW e \in Entry
  PROVE  InTurn(Append(l, e)) = Append(InTurn(l), Told(e))
<1>1. Append(l, e) \in Seq(Entry) /\ Len(Append(l, e)) = Len(l) + 1
  OBVIOUS
<1>2. /\ InTurn(Append(l, e)) \in Seq(Line)
      /\ Len(InTurn(Append(l, e))) = Len(l) + 1
      /\ \A k \in 1 .. Len(l) + 1 : InTurn(Append(l, e))[k] = Told(Append(l, e)[k])
  BY <1>1, InTurnSeq
<1>3. Told(e) \in Line
  BY ToldLine
<1>4. /\ Append(InTurn(l), Told(e)) \in Seq(Line)
      /\ Len(Append(InTurn(l), Told(e))) = Len(l) + 1
      /\ \A k \in 1 .. Len(l) : Append(InTurn(l), Told(e))[k] = Told(l[k])
      /\ Append(InTurn(l), Told(e))[Len(l) + 1] = Told(e)
  BY <1>3, InTurnSeq, AppendProperties
<1>5. \A k \in 1 .. Len(l) : Append(l, e)[k] = l[k]
  OBVIOUS
<1>6. Append(l, e)[Len(l) + 1] = e
  OBVIOUS
<1>7. \A k \in 1 .. Len(l) + 1 : InTurn(Append(l, e))[k] = Append(InTurn(l), Told(e))[k]
  BY <1>2, <1>4, <1>5, <1>6
<1>. QED
  BY <1>2, <1>4, <1>7, SeqEqual

LEMMA InTurnEmpty == InTurn(<< >>) = << >>
<1>1. << >> \in Seq(Entry) /\ Len(<< >>) = 0
  OBVIOUS
<1>2. InTurn(<< >>) \in Seq(Line) /\ Len(InTurn(<< >>)) = 0
  BY <1>1, InTurnSeq
<1>. QED
  BY <1>2

(* What a reader sees of a report. *)
Shown(r) ==
  IF r \in Rows THEN Contract!Live(author[r], text[r], InTurn(log[r])) ELSE [state |-> status[r]]

SeenIs == Seen = [r \in Report |-> Shown(r)]

LEMMA SeenShown == SInv /\ Serial => SeenIs
<1> SUFFICES ASSUME SInv, Serial PROVE SeenIs
  OBVIOUS
<1>1. \A r \in Rows : Listed(log[r]) = InTurn(log[r])
  <2> SUFFICES ASSUME NEW r \in Rows PROVE Listed(log[r]) = InTurn(log[r])
    OBVIOUS
  <2>1. log[r] \in Seq(Entry)
    BY DEF SInv, IInv, TInv, TypeOK, Rows
  <2>2. \A i, j \in 1 .. Len(log[r]) : i < j => log[r][i].at < log[r][j].at
    BY DEF Serial, InOrder
  <2>. QED
    BY <2>1, <2>2, ListedInTurn
<1>. QED
  BY <1>1, Zenon DEF SeenIs, Seen, Shown, Contract!Live

LEMMA SeenShownNext == SInv' /\ Serial' => SeenIs'
BY SeenShown, PTL

LEMMA LiveFields ==
  ASSUME NEW u, NEW t, NEW l
  PROVE  /\ Contract!Live(u, t, l).state = "live"
         /\ Contract!Live(u, t, l).author = u
         /\ Contract!Live(u, t, l).text = t
         /\ Contract!Live(u, t, l).log = l
BY DEF Contract!Live

(* The rows are what exists, and the status read off the list is the one   *)
(* that is stored.                                                         *)
LEMMA ShownFacts ==
  ASSUME SInv, SeenIs, NEW r \in Report
  PROVE  /\ Contract!Exists(r) <=> r \in Rows
         /\ r \in Rows =>
              /\ Seen[r].author = author[r] /\ Seen[r].text = text[r]
              /\ Seen[r].log = InTurn(log[r])
              /\ Contract!Status(r) = status[r]
<1>1. Seen[r] = Shown(r)
  BY DEF SeenIs
<1>2. CASE r \in Rows
  <2>1. Seen[r] = Contract!Live(author[r], text[r], InTurn(log[r]))
    BY <1>1, <1>2 DEF Shown
  <2>2. /\ Seen[r].state = "live"
        /\ Seen[r].author = author[r] /\ Seen[r].text = text[r]
        /\ Seen[r].log = InTurn(log[r])
    BY <2>1, LiveFields
  <2>3. log[r] \in Seq(Entry)
    BY DEF SInv, IInv, TInv, TypeOK
  <2>4. Contract!StatusOf(InTurn(log[r])) = status[r]
    <3>1. CASE log[r] = << >>
      <4>1. status[r] = "draft"
        BY <1>2, <3>1 DEF SInv, IInv, StatusFollowsLog
      <4>. QED
        BY <3>1, <4>1, InTurnEmpty DEF Contract!StatusOf
    <3>2. CASE log[r] # << >>
      <4>1. Len(log[r]) \in 1 .. Len(log[r])
        BY <2>3, <3>2
      <4>2. /\ Len(InTurn(log[r])) = Len(log[r])
            /\ InTurn(log[r])[Len(log[r])] = Told(log[r][Len(log[r])])
        BY <2>3, <4>1, InTurnSeq
      <4>3. InTurn(log[r]) # << >>
        BY <4>1, <4>2
      <4>4. Told(log[r][Len(log[r])]).did = log[r][Len(log[r])].did
        BY DEF Told
      <4>5. status[r] = log[r][Len(log[r])].did
        BY <1>2, <3>2 DEF SInv, IInv, StatusFollowsLog
      <4>. QED
        BY <4>2, <4>3, <4>4, <4>5 DEF Contract!StatusOf
    <3>. QED
      BY <3>1, <3>2
  <2>. QED
    BY <1>2, <2>2, <2>4 DEF Contract!Exists, Contract!Status
<1>3. CASE r \notin Rows
  <2>1. Seen[r].state = status[r]
    BY <1>1, <1>3 DEF Shown
  <2>2. status[r] \in {"free", "deleted"}
    BY <1>3 DEF SInv, IInv, TInv, TypeOK, Rows
  <2>. QED
    BY <1>3, <2>1, <2>2 DEF Contract!Exists
<1>. QED
  BY <1>2, <1>3

(* A step that changes what is seen of one report. *)
LEMMA OneShown ==
  ASSUME SeenIs, SeenIs', NEW r \in Report, NEW x, Shown(r)' = x,
         \A s \in Report \ {r} : Shown(s)' = Shown(s)
  PROVE  Seen' = [Seen EXCEPT ![r] = x]
BY DEF SeenIs

-----------------------------------------------------------------------------
(* Commits, as the contract sees them. *)

LEMMA InsertOpens ==
  ASSUME SInv, SeenIs, SeenIs', NEW w \in Worker, NEW t \in Writing,
         CommitCreate(w, t) \/ SaveNew(w, t)
  PROVE  Contract!Next
<1>1. Insert(w, t) /\ req[w].pc \in Named
  BY DEF CommitCreate, SaveNew, Named
<1> DEFINE u == req[w].user
<1>2. TInv /\ u \in User
  BY <1>1 DEF SInv, IInv, TInv, RequestNames
<1>3. PICK r \in Report :
        /\ status[r] = "free"
        /\ RowsBy(u) = {}
        /\ status' = [status EXCEPT ![r] = "draft"]
        /\ author' = [author EXCEPT ![r] = u]
        /\ text' = [text EXCEPT ![r] = t]
        /\ log' = log
  BY <1>1 DEF Insert
<1> HIDE DEF u
<1>4. /\ status'[r] = "draft" /\ author'[r] = u /\ text'[r] = t /\ log'[r] = << >>
      /\ \A s \in Report \ {r} : /\ status'[s] = status[s] /\ author'[s] = author[s]
                                 /\ text'[s] = text[s] /\ log'[s] = log[s]
  BY <1>2, <1>3 DEF TInv, TypeOK, RowOK
<1>5. r \notin Rows /\ r \in Rows' /\ \A s \in Report \ {r} : s \in Rows' <=> s \in Rows
  BY <1>3, <1>4 DEF Rows, Status, Decisions
<1>6. Shown(r)' = Contract!Live(u, t, << >>)
  BY <1>4, <1>5, InTurnEmpty DEF Shown
<1>7. \A s \in Report \ {r} : Shown(s)' = Shown(s)
  BY <1>4, <1>5 DEF Shown
<1>8. Seen' = [Seen EXCEPT ![r] = Contract!Live(u, t, << >>)]
  BY <1>6, <1>7, OneShown
<1>9. Seen[r] = Contract!Free
  BY <1>3, <1>5 DEF SeenIs, Shown, Contract!Free
<1>10. \A s \in Report : Contract!Exists(s) => Seen[s].author # u
  BY <1>3, ShownFacts DEF RowsBy
<1>11. Contract!Open(r, u, t)
  BY <1>8, <1>9, <1>10 DEF Contract!Open
<1>. QED
  BY <1>2, <1>11 DEF Contract!Next, Writing

(* A text that the author changed is of a report that is with its author. *)
LEMMA RewriteRewrites ==
  ASSUME SInv, Serial, SeenIs, SeenIs', NEW w \in Worker, NEW t \in Writing,
         CommitUpdate(w, t) \/ SaveOver(w, t)
  PROVE  UNCHANGED Seen \/ Contract!Next
<1>1. PICK r \in Report :
      /\ r = req[w].rep /\ r \in Rows /\ Write(w, r, t)
      /\ UNCHANGED <<status, author, log>> /\ Rows' = Rows
      /\ Rewriting(w)
  BY NoneAssumption DEF CommitUpdate, SaveOver, Rewriting, Rows
<1>2. status[r] \in Editable
  BY <1>1 DEF Serial, ReadTrue
<1>3. CASE text' = text
  BY <1>1, <1>3 DEF SeenIs, Shown
<1>4. CASE text' = [text EXCEPT ![r] = t]
  <2>1. text \in [Report -> Writing]
    BY DEF SInv, IInv, TInv, TypeOK
  <2>2. text'[r] = t /\ \A s \in Report \ {r} : text'[s] = text[s]
    BY <1>1, <1>4, <2>1
  <2>3. Shown(r)' = Contract!Live(author[r], t, InTurn(log[r]))
    BY <1>1, <2>2 DEF Shown
  <2>4. \A s \in Report \ {r} : Shown(s)' = Shown(s)
    BY <1>1, <2>2 DEF Shown
  <2>5. Seen' = [Seen EXCEPT ![r] = Contract!Live(author[r], t, InTurn(log[r]))]
    BY <1>1, <2>3, <2>4, OneShown
  <2>6. Contract!Rewrite(r, t)
    BY <1>1, <1>2, <2>5, ShownFacts DEF Contract!Rewrite, Contract!Editable, Editable
  <2>. QED
    BY <1>1, <2>6 DEF Contract!Next, Writing
<1>. QED
  BY <1>1, <1>3, <1>4 DEF Write

(* An entry is the author's submission of what is with the author, or a     *)
(* decision of somebody else on what is submitted.                          *)
LEMMA RecordLogs ==
  ASSUME SInv, Serial, SeenIs, SeenIs', NEW w \in Worker,
         CommitSubmit(w) \/ \E d \in Decisions : CommitDecide(w, d)
  PROVE  Contract!Next
<1>1. PICK a \in {"submitted"} \cup Decisions :
        /\ req[w].pc \in {"submit", "decide"}
        /\ a = "submitted" => req[w].pc = "submit"
        /\ a \in Decisions => req[w].pc = "decide"
        /\ req[w].rep \in Rows
        /\ Record(w, req[w].rep, a)
        /\ UNCHANGED <<author, text>>
  BY DEF CommitSubmit, CommitDecide, Decisions
<1> PICK r, u, e : r = req[w].rep /\ u = req[w].user /\ e = Made(u, a, req[w].at)
  OBVIOUS
<1>2. TInv /\ u \in User /\ RequestSaw(w) /\ ReadTrue(w)
  BY <1>1 DEF SInv, IInv, TInv, RequestNames, Named, Serial
<1>3. /\ log'[r] = Append(log[r], e)
      /\ \A s \in Report \ {r} : log'[s] = log[s] /\ status'[s] = status[s]
      /\ Rows' = Rows
      /\ e \in Entry
  BY <1>1, <1>2, RecordFacts
<1>4. Told(e) = Contract!Entry(u, a)
  BY DEF Told, Made, Contract!Entry
<1>5. r \in Report /\ r \in Rows /\ log[r] \in Seq(Entry)
  BY <1>1, <1>2 DEF Rows, TInv, TypeOK
<1>6. /\ a = "submitted" => u = author[r] /\ status[r] \in Editable /\ text[r] # Blank
      /\ a \in Decisions => u # author[r] /\ status[r] = "submitted"
  BY <1>1, <1>2 DEF RequestSaw, ReadTrue
<1>7. InTurn(log'[r]) = Append(InTurn(log[r]), Contract!Entry(u, a))
  BY <1>3, <1>4, <1>5, InTurnAppend
<1>8. Shown(r)' = Contract!Live(author[r], text[r], Append(InTurn(log[r]), Contract!Entry(u, a)))
  BY <1>1, <1>3, <1>5, <1>7 DEF Shown
<1>9. \A s \in Report \ {r} : Shown(s)' = Shown(s)
  BY <1>1, <1>3 DEF Shown
<1>10. Seen' = [Seen EXCEPT ![r] = Contract!Live(author[r], text[r],
                                     Append(InTurn(log[r]), Contract!Entry(u, a)))]
  BY <1>5, <1>8, <1>9, OneShown
<1>11. /\ Contract!Logged(r, u, a) /\ Contract!Exists(r) /\ Contract!Status(r) = status[r]
       /\ Seen[r].author = author[r] /\ Seen[r].text = text[r]
  BY <1>5, <1>10, ShownFacts DEF Contract!Logged
<1>12. CASE a = "submitted"
  <2>1. Contract!Submit(r)
    BY <1>6, <1>11, <1>12 DEF Contract!Submit, Contract!Editable, Editable
  <2>. QED
    BY <1>5, <2>1 DEF Contract!Next
<1>13. CASE a \in Decisions
  <2>1. Contract!Decide(r, u, a)
    BY <1>6, <1>11, <1>13 DEF Contract!Decide
  <2>. QED
    BY <1>2, <1>5, <1>13, <2>1 DEF Contract!Next, Contract!Decisions, Decisions
<1>. QED
  BY <1>12, <1>13

(* What goes is a draft. *)
LEMMA DeleteWithdraws ==
  ASSUME SInv, Serial, SeenIs, SeenIs', NEW w \in Worker, CommitDelete(w)
  PROVE  Contract!Next
<1>1. PICK r \in Report :
      /\ r = req[w].rep /\ r \in Rows
      /\ UNCHANGED <<author, text>>
      /\ status' = [status EXCEPT ![r] = "deleted"]
      /\ log' = [log EXCEPT ![r] = << >>]
      /\ req[w].pc = "delete"
  BY DEF CommitDelete, Rows
<1>2. status[r] = "draft"
  BY <1>1 DEF Serial, ReadTrue
<1>3. /\ status'[r] = "deleted"
      /\ \A s \in Report \ {r} : status'[s] = status[s] /\ log'[s] = log[s]
  BY <1>1 DEF SInv, IInv, TInv, TypeOK
<1>4. r \notin Rows' /\ \A s \in Report \ {r} : s \in Rows' <=> s \in Rows
  BY <1>1, <1>3 DEF Rows, Status, Decisions
<1>5. Shown(r)' = Contract!Deleted
  BY <1>3, <1>4 DEF Shown, Contract!Deleted
<1>6. \A s \in Report \ {r} : Shown(s)' = Shown(s)
  BY <1>1, <1>3, <1>4 DEF Shown
<1>7. Seen' = [Seen EXCEPT ![r] = Contract!Deleted]
  BY <1>1, <1>5, <1>6, OneShown
<1>8. Contract!Withdraw(r)
  BY <1>1, <1>2, <1>7, ShownFacts DEF Contract!Withdraw
<1>. QED
  BY <1>1, <1>8 DEF Contract!Next

(* Requests one at a time implement the contract. *)
LEMMA StepKeepsContract ==
  ASSUME SInv, [Next]_vars, Alone, SInv'
  PROVE  UNCHANGED Seen \/ Contract!Next
<1>1. CASE UNCHANGED columns
  BY <1>1 DEF columns, Seen, Rows
<1>2. CASE ~UNCHANGED columns
  <2>1. Next
    BY <1>2 DEF vars, columns
  <2>2. PICK w \in Worker : Acts(w)
    BY <2>1, NextActs
  <2>3. Serial /\ Serial'
    <3>1. Serial /\ OthersOff(w) /\ OthersOff(w)' /\ TypeOK'
      BY <2>2, StaysAlone DEF SInv, IInv, TInv
    <3>. QED
      BY <2>2, <3>1, ActsSerial
  <2>4. SeenIs /\ SeenIs'
    BY <2>3, SeenShown, SeenShownNext
  <2>5. Commit(w)
    BY <1>2, <2>2 DEF Acts, Create, Generate, Decide, Update, Submit, Delete, File
  <2>6. CASE \E d \in Dept : CommitFile(w, d)
    BY <2>6 DEF CommitFile, Seen, Rows
  <2>7. CASE GiveUp(w) \/ Fail(w) \/ Crash(w) \/ Reply(w) \/ Retry(w)
    BY <1>2, <2>7 DEF GiveUp, Fail, Crash, Reply, Retry
  <2>. QED
    BY <2>3, <2>4, <2>5, <2>6, <2>7, InsertOpens, RewriteRewrites, RecordLogs, DeleteWithdraws
    DEF Commit
<1>. QED
  BY <1>1, <1>2

(* Requests one at a time implement ReportContract, for any people, texts  *)
(* and rows: decisions answer a submission and are never on one's own, the *)
(* text stands while it is with the approvers, a report goes as a draft    *)
(* only, and what GET approvals lists is what was done, in order.          *)
THEOREM WorkflowKeepsContract == Spec => KeepsContract
<1>1. Init => Contract!Init
  BY Zenon DEF Init, Contract!Init, Contract!Free, Seen, Rows, Status, Decisions
<1>2. SInv /\ SInv' /\ [Next]_vars => [Alone => UNCHANGED Seen \/ Contract!Next]_columns
  BY StepKeepsContract
<1>. QED
  BY SpecSInv, <1>1, <1>2, PTL DEF Spec, KeepsContract
=============================================================================
