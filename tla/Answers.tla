------------------------------- MODULE Answers -------------------------------
(***************************************************************************)
(* Who may read a repository in services/pulse, and what is answered out   *)
(* of a stored copy of it: access by post, by department and by recent     *)
(* work, the journal, the index a person asked for, the questions put to   *)
(* it and the excerpts kept with an answer.                                *)
(*                                                                         *)
(* Access comes and goes while the copy stays.  A question is three steps, *)
(* with the providers called in between, and so is open to whatever the    *)
(* rest of the system does.  Setting a lead or a deputy reads both posts   *)
(* and writes one.  One department is enough for the rules; embedding and  *)
(* ranking are a choice of excerpts; what it costs is in Spending.         *)
(*                                                                         *)
(* Anyone may index any repository of GitHub.  Pulse may come to track it  *)
(* afterwards; the index made before that does not know that it does.      *)
(***************************************************************************)
EXTENDS Naturals

CONSTANTS
  User, Repo,
  Admin,     \* the platform admins
  Asker,     \* those whose access changes and who ask (a bound)
  None

VARIABLES
  known,           \* repositories: whether Pulse tracks it
  filed, private,  \* ... whether the department is set, and private
  post,            \* ... and who is lead and who deputy
  role,            \* of each person in the department: "out", "member", "admin"
  work,            \* what of a person's work in a repository is recent: "authored", "reviewed"
  entries,         \* repo_journals: whether a person has one in a repository
  index,           \* indexed_repos: "none", "busy" or "ready", by owner and repository
  loose,           \* ... and those of each owner whose repo_id is not set
  question,        \* each person's question under way, or None
  answers,         \* the stored answers of each person's conversation, or None without one
  change           \* a change of a post that has read both, or None

access == <<known, filed, private, post, role, work>>
copies == <<index, loose>>
vars == <<access, entries, copies, question, answers, change>>

Post == {"lead", "deputy"}
Other(p) == IF p = "lead" THEN "deputy" ELSE "lead"

Init ==
  /\ known = [r \in Repo |-> FALSE] /\ filed = [r \in Repo |-> FALSE] /\ private = [r \in Repo |-> TRUE]
  /\ post = [r \in Repo |-> [p \in Post |-> None]]
  /\ role = [u \in User |-> "out"]
  /\ work = [u \in User |-> [r \in Repo |-> {}]] /\ entries = [u \in User |-> {}]
  /\ index = [u \in User |-> [r \in Repo |-> "none"]] /\ loose = [u \in User |-> {}]
  /\ question = [u \in User |-> None] /\ answers = [u \in User |-> None]
  /\ change = None

-----------------------------------------------------------------------------
Tracked == {r \in Repo : known[r]}

(* _can_see_repo, of one repository that is tracked. *)
HoldsPost(u, r) == \E p \in Post : post[r][p] = u

CanSee(u, r) ==
  \/ u \in Admin
  \/ HoldsPost(u, r)
  \/ filed[r] /\ role[u] # "out"
  \/ work[u][r] # {}

(* may_write_on_repo: a review is not enough. *)
MayWrite(u, r) ==
  \/ u \in Admin
  \/ HoldsPost(u, r)
  \/ filed[r] /\ role[u] = "admin"
  \/ "authored" \in work[u][r]

CanAdmin(u, r) == u \in Admin \/ (filed[r] /\ role[u] = "admin")

(* Fault: a review is not counted. *)
AuthoredIn(u) == {r \in Repo : "authored" \in work[u][r]}

(* repo_ids_worked_in_q within the window: commits, pull requests, issues  *)
(* and reviews.                                                            *)
WorkedIn(u) == {r \in Repo : work[u][r] # {}}

(* visible_repo_scope, the same rule as a query; and list_repositories. *)
VisibleScope(u) ==
  UNION {{r \in Repo : post[r]["lead"] = u}, {r \in Repo : post[r]["deputy"] = u},
         WorkedIn(u), {r \in Repo : role[u] # "out" /\ filed[r]}}

Listed(u) == IF u \in Admin THEN Tracked ELSE VisibleScope(u)

(* Fault: owning the ready index is enough. *)
SearchableOwned(u) == {r \in Repo : index[u][r] = "ready"}

(* _searchable_indexes: without a repo_id there is nothing to ask about. *)
Searchable(u) ==
  {r \in Repo : index[u][r] = "ready" /\ (u \in Admin \/ r \in loose[u] \/ ~private[r] \/ r \in VisibleScope(u))}

-----------------------------------------------------------------------------
(* What changes access: posts of the department, work that is synced and   *)
(* falls out of the window, a repository opened or closed on GitHub.       *)
Move(u, to) ==
  /\ role' = [role EXCEPT ![u] = to]
  /\ UNCHANGED <<known, filed, private, post, work, entries, copies, question, answers, change>>

(* The first pass of a sync over a repository. *)
Track(r, closed) ==
  /\ ~known[r]
  /\ known' = [known EXCEPT ![r] = TRUE]
  /\ private' = [private EXCEPT ![r] = closed]
  /\ UNCHANGED <<filed, post, role, work, entries, copies, question, answers, change>>

DoWork(u, r, kind) ==
  /\ known[r]
  /\ work' = [work EXCEPT ![u][r] = @ \cup {kind}]
  /\ UNCHANGED <<known, filed, private, post, role, entries, copies, question, answers, change>>

Age(u, r, kind) ==
  /\ work' = [work EXCEPT ![u][r] = @ \ {kind}]
  /\ UNCHANGED <<known, filed, private, post, role, entries, copies, question, answers, change>>

Publish(r, closed) ==
  /\ known[r]
  /\ private' = [private EXCEPT ![r] = closed]
  /\ UNCHANGED <<known, filed, post, role, work, entries, copies, question, answers, change>>

(* set_department, by who administers the one department there is. *)
SetDepartment(by, r) ==
  /\ known[r]
  /\ filed[r] => CanAdmin(by, r)
  /\ by \in Admin \/ role[by] = "admin"
  /\ filed' = [filed EXCEPT ![r] = TRUE]
  /\ UNCHANGED <<known, private, post, role, work, entries, copies, question, answers, change>>

(* The check set_lead and set_deputy share. *)
UnlikeOther(r, p, u) == u = None \/ u # post[r][Other(p)]

(* Each as one step, and as two with whatever happens between them. *)
SetPost(by, r, p, u) ==
  /\ known[r] /\ CanAdmin(by, r) /\ UnlikeOther(r, p, u)
  /\ post' = [post EXCEPT ![r][p] = u]
  /\ UNCHANGED <<known, filed, private, role, work, entries, copies, question, answers, change>>

ReadPost(by, r, p, u) ==
  /\ change = None
  /\ known[r] /\ CanAdmin(by, r) /\ UnlikeOther(r, p, u)
  /\ change' = [repo |-> r, post |-> p, to |-> u]
  /\ UNCHANGED <<access, entries, copies, question, answers>>

WritePost ==
  /\ change # None
  /\ post' = [post EXCEPT ![change.repo][change.post] = change.to]
  /\ change' = None
  /\ UNCHANGED <<known, filed, private, role, work, entries, copies, question, answers>>

-----------------------------------------------------------------------------
(* create_journal and delete_journal *)
PostEntry(u, r) ==
  /\ known[r] /\ CanSee(u, r) /\ MayWrite(u, r)
  /\ entries' = [entries EXCEPT ![u] = @ \cup {r}]
  /\ UNCHANGED <<access, copies, question, answers, change>>

DeleteEntry(by, u, r) ==
  /\ r \in entries[u] /\ CanSee(by, r) /\ (by = u \/ by \in Admin)
  /\ entries' = [entries EXCEPT ![u] = @ \ {r}]
  /\ UNCHANGED <<access, copies, question, answers, change>>

-----------------------------------------------------------------------------
(* What Pulse does not know or everyone may see, and what is this person's. *)
Readable(u) == {r \in Repo : ~known[r] \/ ~private[r] \/ CanSee(u, r)}

(* _queue: asking again starts over, and looks the repository up again.    *)
(* The task finishes or fails.                                             *)
RequestIndex(u, r) ==
  /\ r \in Readable(u)
  /\ index' = [index EXCEPT ![u][r] = "busy"]
  /\ loose' = [loose EXCEPT ![u] = IF known[r] THEN @ \ {r} ELSE @ \cup {r}]
  /\ UNCHANGED <<access, entries, question, answers, change>>

FinishIndex(u, r) ==
  /\ index[u][r] = "busy"
  /\ index' = [index EXCEPT ![u][r] = "ready"]
  /\ UNCHANGED <<access, entries, loose, question, answers, change>>

(* delete_indexed_repo: citations keep what they quote, and only lose the  *)
(* reference to the index.                                                 *)
DeleteIndex(u, r) ==
  /\ index[u][r] # "none"
  /\ index' = [index EXCEPT ![u][r] = "none"]
  /\ loose' = [loose EXCEPT ![u] = @ \ {r}]
  /\ UNCHANGED <<access, entries, question, answers, change>>

CreateConversation(u) ==
  /\ answers[u] = None
  /\ answers' = [answers EXCEPT ![u] = {}]
  /\ UNCHANGED <<access, entries, copies, question, change>>

DeleteConversation(u) ==
  /\ answers[u] # None
  /\ answers' = [answers EXCEPT ![u] = None]
  /\ UNCHANGED <<access, entries, copies, question, change>>

Asked(scope, shown, seen) == [scope |-> scope, shown |-> shown, seen |-> seen]
Answered(cites, seen) == [cites |-> cites, seen |-> seen]

(* With the copies that are older than Pulse's row. *)
Quotable(u) == {r \in Repo : r \in Readable(u) \/ r \in loose[u]}

(* answer up to the embedding: the indexes in scope are fixed. *)
Put(u) ==
  /\ question[u] = None /\ answers[u] = {} /\ Searchable(u) # {}
  /\ question' = [question EXCEPT ![u] = Asked(Searchable(u), None, Quotable(u))]
  /\ UNCHANGED <<access, entries, copies, answers, change>>

(* _retrieve: the nearest chunks of the indexes in scope as they are now.  *)
Retrieve(u, found) ==
  /\ question[u] # None /\ question[u].shown = None
  /\ found \subseteq {r \in question[u].scope : index[u][r] # "none"}
  /\ question' = [question EXCEPT ![u] = Asked(@.scope, found, @.seen)]
  /\ UNCHANGED <<access, entries, copies, answers, change>>

(* _select_citations: of what the model was shown, what its answer names.  *)
(* One commit, which a conversation or a cited index deleted meanwhile     *)
(* fails.                                                                  *)
Store(u, named) ==
  /\ question[u] # None /\ question[u].shown # None /\ named \subseteq question[u].shown
  /\ answers[u] # None /\ \A r \in named : index[u][r] # "none"
  /\ answers' = [answers EXCEPT ![u] = {Answered(named, question[u].seen)}]
  /\ question' = [question EXCEPT ![u] = None]
  /\ UNCHANGED <<access, entries, copies, change>>

(* A budget, a provider or the commit refuses: the question stays behind.  *)
GiveUp(u) ==
  /\ question[u] # None
  /\ question' = [question EXCEPT ![u] = None]
  /\ UNCHANGED <<access, entries, copies, answers, change>>

Next ==
  \/ \E u \in Asker :
       \/ \E to \in {"out", "member", "admin"} : Move(u, to)
       \/ \E r \in Repo :
            \/ \E kind \in {"authored", "reviewed"} : DoWork(u, r, kind) \/ Age(u, r, kind)
            \/ PostEntry(u, r) \/ (\E by \in User : DeleteEntry(by, u, r))
            \/ RequestIndex(u, r) \/ FinishIndex(u, r) \/ DeleteIndex(u, r)
       \/ CreateConversation(u) \/ DeleteConversation(u) \/ Put(u) \/ GiveUp(u)
       \/ \E rs \in SUBSET Repo : Retrieve(u, rs) \/ Store(u, rs)
  \/ \E r \in Repo :
       \/ \E closed \in BOOLEAN : Track(r, closed) \/ Publish(r, closed)
       \/ \E by \in User :
            \/ SetDepartment(by, r)
            \/ \E p \in Post, u \in User \cup {None} : SetPost(by, r, p, u) \/ ReadPost(by, r, p, u)
  \/ WritePost

Spec == Init /\ [][Next]_vars

-----------------------------------------------------------------------------
(* The rule in Python, the rule in SQL and the narrower rule for writing   *)
(* say the same of everyone, however they came by their access: what is    *)
(* listed opens, what opens is listed, and whoever writes may read.        *)
SameRepositories ==
  \A u \in User, r \in Tracked : (r \in Listed(u) <=> CanSee(u, r)) /\ (MayWrite(u, r) => CanSee(u, r))

(* No answer quotes a repository its reader could not read when the        *)
(* question was put, though the copy it is quoted from was made when they  *)
(* could, and is indexed again, finished or deleted under the question --  *)
(* but for a copy asked for before Pulse tracked the repository, which     *)
(* answers its owner whatever becomes of the repository (_queue never      *)
(* fills repo_id in later; _searchable_indexes: "the repo has to still be  *)
(* visible now").                                                          *)
QuotesWereReadable ==
  \A u \in User : answers[u] # None => \A a \in answers[u] : a.cites \subseteq a.seen
=============================================================================
