--------------------------- MODULE ReportContract ---------------------------
(***************************************************************************)
(* What Pulse promises about the reports of one repository and week, with  *)
(* no requests and no stored status: a report is its text and the log of   *)
(* what was done to it, in the order GET /reports/{id}/approvals lists it. *)
(* Its status is read off the log.  The text changes only while the report *)
(* is with its author, the log only grows, and only a draft disappears.    *)
(***************************************************************************)
EXTENDS Sequences, Integers

CONSTANTS
  User,     \* people
  Report,   \* report rows that may ever exist
  Text,     \* what a report may say
  Blank     \* the text of a report that says nothing

VARIABLE record

Free    == [state |-> "free"]
Deleted == [state |-> "deleted"]
Live(u, t, l) == [state |-> "live", author |-> u, text |-> t, log |-> l]
Entry(u, a)   == [who |-> u, did |-> a]

Decisions == {"approved", "rejected", "changes_requested"}
Editable  == {"draft", "changes_requested"}

(* An action's name is the status it leads to. *)
StatusOf(l) == IF l = << >> THEN "draft" ELSE l[Len(l)].did

Exists(r) == record[r].state = "live"
Status(r) == StatusOf(record[r].log)
Logged(r, u, a) ==
  record' = [record EXCEPT ![r] = Live(@.author, @.text, Append(@.log, Entry(u, a)))]

-----------------------------------------------------------------------------
Init == record = [r \in Report |-> Free]

Open(r, u, t) ==
  /\ record[r] = Free
  /\ \A s \in Report : Exists(s) => record[s].author # u
  /\ record' = [record EXCEPT ![r] = Live(u, t, << >>)]

Rewrite(r, t) ==
  /\ Exists(r)
  /\ Status(r) \in Editable
  /\ record' = [record EXCEPT ![r] = Live(@.author, t, @.log)]

Submit(r) ==
  /\ Exists(r)
  /\ Status(r) \in Editable
  /\ record[r].text # Blank
  /\ Logged(r, record[r].author, "submitted")

Decide(r, u, d) ==
  /\ Exists(r)
  /\ Status(r) = "submitted"
  /\ u # record[r].author
  /\ Logged(r, u, d)

Withdraw(r) ==
  /\ Exists(r)
  /\ Status(r) = "draft"
  /\ record' = [record EXCEPT ![r] = Deleted]

Next ==
  \E r \in Report :
    \/ \E u \in User, t \in Text \cup {Blank} : Open(r, u, t)
    \/ \E t \in Text \cup {Blank} : Rewrite(r, t)
    \/ Submit(r)
    \/ \E u \in User, d \in Decisions : Decide(r, u, d)
    \/ Withdraw(r)

Spec == Init /\ [][Next]_record
=============================================================================
