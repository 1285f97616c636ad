--------------------------------- MODULE Sync ---------------------------------
(***************************************************************************)
(* The pass that copies a repository's activity from GitHub to Pulse       *)
(* (run_full_sync), against people who push to any branch, date commits in *)
(* the past, touch issues and pull requests, connect a GitHub account,     *)
(* disconnect it, hand it on to a colleague and leave the company, while   *)
(* another pass may be running.                                            *)
(*                                                                         *)
(* One repository: the specs of a pass share nothing but the accounts read *)
(* at its start.  A pull request or issue is an item; what GitHub shows of *)
(* it is the moment it was last touched.  Every write of a pass on a       *)
(* repository is one transaction, and a row that two passes both insert is *)
(* a unique violation for the later one.                                   *)
(***************************************************************************)
EXTENDS Integers, Sequences, FiniteSetsExt

CONSTANTS
  User,          \* people
  Login,         \* GitHub accounts; nobody renames one
  Branch,        \* branches beside the default one
  Main,          \* repositories.default_branch
  Item,          \* pull requests and issues
  Pass,          \* passes that may run at once: the beat's and POST /github/sync
  None,
  Overlap,       \* GITHUB_SYNC_OVERLAP_MINUTES
  Latency,       \* longest time between get_repo's answer and the stamp
  MaxBranches,   \* GITHUB_SYNC_MAX_BRANCHES
  MaxCommits,    \* bound on commits
  MaxTime,       \* bound on the clock
  MaxMoves       \* bound on connections, disconnections and departures

VARIABLES
  now,
  commits,    \* what was ever pushed, in order: branch, author, date, pushed
  touched,    \* when each item was last touched, or None
  account,    \* github_accounts: who has each login connected, or None
  owners,     \* history: who ever had each login connected
  gone,       \* people identity calls inactive, or does not know
  cursor,     \* repositories.last_synced_at, or None
  stored,     \* the commits rows
  credit,     \* commits.author_user_id, or None
  copied,     \* the pull_requests and issues rows: touched as copied, or None
  pass,       \* what each pass is doing
  listed,     \* history: when the pass that wrote the cursor listed the repository
  crowded,    \* history: a pass stopped at MaxBranches
  overlapped, \* history: two passes ran at once
  moves       \* bound

(* The default branch is not among the others, and a listing is stamped     *)
(* well within the overlap: seven days (config.py:53) against the fifteen   *)
(* seconds of one call (github_client.py:56).                               *)
Settings ==
  /\ None \notin Int /\ None \notin User \cup Login /\ Main \notin Branch
  /\ Overlap \in Nat /\ Latency \in Nat /\ Latency < Overlap
  /\ MaxCommits \in Nat /\ MaxTime \in Nat

vars == <<now, commits, touched, account, owners, gone, cursor, stored, credit, copied,
          pass, listed, crowded, overlapped, moves>>
github == <<commits, touched>>
links  == <<account, owners>>
rows   == <<cursor, stored, credit, copied, listed, crowded>>

-----------------------------------------------------------------------------
Commit == 1 .. MaxCommits
Pushed == DOMAIN commits
On(b)  == {c \in Pushed : commits[c].branch = b}
Since(S, t) == {c \in S : t = None \/ commits[c].date >= t}

(* The sha a branch points at, and the repository's pushed_at. *)
Tip(b)  == Max(On(b))
PushedAt == IF Pushed = {} THEN None ELSE Max({commits[c].pushed : c \in Pushed})

Nobody == [l \in Login |-> None]

Asleep == [pc |-> "asleep", map |-> Nobody, was |-> [c \in Commit |-> None], pushed |-> None, listed |-> 0, cursor |-> None,
           started |-> 0, got |-> {}, fresh |-> {}, items |-> [i \in Item |-> None], cut |-> FALSE]

Init ==
  /\ now = 1
  /\ commits = << >> /\ touched = [i \in Item |-> None]
  /\ account \in [Login -> User \cup {None}] /\ gone = {}
  /\ \A l, m \in Login : account[l] = account[m] => l = m \/ account[l] = None
  /\ owners = [l \in Login |-> {account[l]} \ {None}]
  /\ cursor = None /\ stored = {} /\ credit = [c \in Commit |-> None]
  /\ copied = [i \in Item |-> None]
  /\ pass = [p \in Pass |-> Asleep]
  /\ listed = 0 /\ crowded = FALSE /\ overlapped = FALSE /\ moves = 0

-----------------------------------------------------------------------------
(* GitHub, and the people.                                                 *)

(* Someone pushes a commit they made then or earlier. *)
Push ==
  /\ Len(commits) < MaxCommits
  /\ \E b \in Branch \cup {Main}, l \in Login, d \in 1 .. now :
       commits' = Append(commits, [branch |-> b, author |-> l, date |-> d, pushed |-> now])
  /\ UNCHANGED <<now, touched, links, gone, rows, pass, overlapped, moves>>

Touch(i) ==
  /\ touched[i] # now
  /\ touched' = [touched EXCEPT ![i] = now]
  /\ UNCHANGED <<now, commits, links, gone, rows, pass, overlapped, moves>>

(* The account of u is now m, or none. *)
Relink(u, m) == [l \in Login |-> IF l = m THEN u ELSE IF account[l] = u THEN None ELSE account[l]]

(* handle_callback: a login that somebody else has connected is refused,   *)
(* one that was given up is not; nobody who left comes back to connect.    *)
Connect(u, l) ==
  /\ moves < MaxMoves /\ moves' = moves + 1
  /\ u \notin gone /\ account[l] = None
  /\ account' = Relink(u, l)
  /\ owners' = [owners EXCEPT ![l] = @ \cup {u}]
  /\ UNCHANGED <<now, github, gone, rows, pass, overlapped>>

(* disconnect *)
Disconnect(u) ==
  /\ moves < MaxMoves /\ moves' = moves + 1
  /\ \E l \in Login : account[l] = u
  /\ account' = Relink(u, None)
  /\ UNCHANGED <<now, github, owners, gone, rows, pass, overlapped>>

Leave(u) ==
  /\ moves < MaxMoves /\ moves' = moves + 1
  /\ u \notin gone
  /\ gone' = gone \cup {u}
  /\ UNCHANGED <<now, github, links, rows, pass, overlapped>>

-----------------------------------------------------------------------------
(* A pass.                                                                 *)

Step(p, r) == pass' = [pass EXCEPT ![p] = r]

(* revoke_departed_credentials: only what identity said counts; it may     *)
(* answer for some of the accounts, or for none.                           *)
Begin(p) ==
  /\ pass[p] = Asleep
  /\ \E told \in SUBSET User :
       account' = [l \in Login |-> IF account[l] \in told \cap gone THEN None ELSE account[l]]
  /\ Step(p, [Asleep EXCEPT !.pc = "read"])
  /\ overlapped' = (overlapped \/ \E q \in Pass \ {p} : pass[q] # Asleep)
  /\ UNCHANGED <<now, github, owners, gone, rows, moves>>

(* Fault: what was written by someone no longer connected loses its author.*)
AttributeAnew(map, was, c) == map[commits[c].author]

(* _attribute: whoever has the login connected, else what the row says. *)
Attribute(map, was, c) ==
  IF map[commits[c].author] # None THEN map[commits[c].author] ELSE was[c]

(* The tokens and the login map, read once; without either nothing is done.*)
Read(p) ==
  /\ pass[p].pc = "read"
  /\ Step(p, IF account = Nobody THEN Asleep ELSE [pass[p] EXCEPT !.pc = "list", !.map = account])
  /\ UNCHANGED <<now, github, links, gone, rows, overlapped, moves>>

(* _client_and_repo: get_repo with the first token that opens it. *)
List(p) ==
  /\ pass[p].pc = "list"
  /\ Step(p, [pass[p] EXCEPT !.pc = "stamp", !.pushed = PushedAt, !.listed = now])
  /\ UNCHANGED <<now, github, links, gone, rows, overlapped, moves>>

(* `started` is now, and the cursor is read. *)
Stamp(p) ==
  /\ pass[p].pc = "stamp"
  /\ Step(p, [pass[p] EXCEPT !.pc = "commits", !.started = now, !.cursor = cursor])
  /\ UNCHANGED <<now, github, links, gone, rows, overlapped, moves>>

(* _commit_window *)
Window(t) == IF t = None THEN None ELSE t - Overlap

Got(p, S) ==
  [pass[p] EXCEPT !.got = @ \cup S, !.fresh = @ \cup (S \ stored),
                  !.was = [c \in Commit |-> IF c \in S THEN credit[c] ELSE @[c]]]

(* _pushed_since: no push since the window opens, no commits asked for. *)
NothingPushed(p) ==
  LET window == Window(pass[p].cursor)
  IN  window # None /\ pass[p].pushed # None /\ pass[p].pushed <= window

SkipCommits(p) ==
  /\ pass[p].pc = "commits" /\ NothingPushed(p)
  /\ Step(p, [pass[p] EXCEPT !.pc = "items"])
  /\ UNCHANGED <<now, github, links, gone, rows, overlapped, moves>>

FetchCommits(p) ==
  /\ pass[p].pc = "commits" /\ ~NothingPushed(p)
  /\ Step(p, [Got(p, Since(On(Main), Window(pass[p].cursor))) EXCEPT !.pc = "branches"])
  /\ UNCHANGED <<now, github, links, gone, rows, overlapped, moves>>

(* The branches whose head is not stored yet. *)
News(p) == {b \in Branch : On(b) # {} /\ Tip(b) \notin stored \cup pass[p].got}

(* _sync_branches: the first MaxBranches of them, in GitHub's order. *)
FetchBranches(p) ==
  /\ pass[p].pc = "branches"
  /\ \E B \in SUBSET News(p) :
       /\ \/ B = News(p) /\ Cardinality(B) <= MaxBranches
          \/ B # News(p) /\ Cardinality(B) = MaxBranches
       /\ Step(p, [Got(p, UNION {Since(On(b), Window(pass[p].cursor)) : b \in B})
                     EXCEPT !.pc = "items", !.cut = B # News(p)])
  /\ UNCHANGED <<now, github, links, gone, rows, overlapped, moves>>

(* list_pull_requests and list_issues: what was touched since the cursor. *)
FetchItems(p) ==
  /\ pass[p].pc = "items"
  /\ LET since == pass[p].cursor
         Seen(i) == touched[i] # None /\ (since = None \/ touched[i] >= since)
     IN  Step(p, [pass[p] EXCEPT !.pc = "save",
                                 !.items = [i \in Item |-> IF Seen(i) THEN touched[i] ELSE None]])
  /\ UNCHANGED <<now, github, links, gone, rows, overlapped, moves>>

(* Fault: the cursor is the end of the pass. *)
NextCursorAtEnd(p) == now

(* repo.last_synced_at = started *)
NextCursor(p) == pass[p].started

(* A row is written when its author is not the one that was read. *)
Credited(p, c) ==
  LET author == Attribute(pass[p].map, pass[p].was, c)
  IN  IF c \in pass[p].got /\ author # pass[p].was[c] THEN author ELSE credit[c]

(* The commit, with every upsert of the pass. *)
Save(p) ==
  /\ pass[p].pc = "save"
  /\ pass[p].fresh \cap stored = {}
  /\ stored' = stored \cup pass[p].got
  /\ credit' = [c \in Commit |-> Credited(p, c)]
  /\ copied' = [i \in Item |-> IF pass[p].items[i] # None THEN pass[p].items[i] ELSE copied[i]]
  /\ cursor' = NextCursor(p)
  /\ listed' = pass[p].listed
  /\ crowded' = (crowded \/ pass[p].cut)
  /\ Step(p, Asleep)
  /\ UNCHANGED <<now, github, links, gone, overlapped, moves>>

(* Any error, a spent quota, a row another pass inserted first, or the     *)
(* death of the worker: the transaction is rolled back.                    *)
Fail(p) ==
  /\ pass[p].pc \notin {"asleep", "read"}
  /\ Step(p, Asleep)
  /\ UNCHANGED <<now, github, links, gone, rows, overlapped, moves>>

(* Time passes. *)
Tick ==
  /\ now < MaxTime
  /\ \A p \in Pass : pass[p].pc = "stamp" => now < pass[p].listed + Latency
  /\ now' = now + 1
  /\ UNCHANGED <<github, links, gone, rows, pass, overlapped, moves>>

Next ==
  \/ Push \/ Tick
  \/ \E i \in Item : Touch(i)
  \/ \E u \in User : Disconnect(u) \/ Leave(u) \/ \E l \in Login : Connect(u, l)
  \/ \E p \in Pass :
       \/ Begin(p) \/ Read(p) \/ List(p) \/ Stamp(p)
       \/ SkipCommits(p) \/ FetchCommits(p) \/ FetchBranches(p) \/ FetchItems(p)
       \/ Save(p) \/ Fail(p)

Spec == Init /\ [][Next]_vars

-----------------------------------------------------------------------------
TypeOK ==
  /\ now \in Nat /\ cursor \in Nat \cup {None} /\ listed \in Nat
  /\ Len(commits) <= MaxCommits
  /\ touched \in [Item -> Nat \cup {None}] /\ copied \in [Item -> Nat \cup {None}]
  /\ account \in [Login -> User \cup {None}] /\ owners \in [Login -> SUBSET User] /\ gone \subseteq User
  /\ stored \subseteq Pushed /\ credit \in [Commit -> User \cup {None}]
  /\ \A p \in Pass : pass[p].got \subseteq Pushed
  /\ {crowded, overlapped} \subseteq BOOLEAN

(* Pushed by the time the cursor's pass listed the repository, and not     *)
(* longer after it was made than the overlap allows for.                   *)
Due(c) ==
  /\ cursor # None /\ commits[c].pushed < listed
  /\ commits[c].pushed + Latency <= commits[c].date + Overlap

(* Behind the cursor nothing is missing: every commit of the default       *)
(* branch that was pushed before the last pass looked is stored, for as    *)
(* long as it was pushed within the overlap of its date, and so are those  *)
(* of the other branches unless some pass stopped at the branch limit --   *)
(* whatever pushes landed in the middle of a pass, whichever passes failed *)
(* and however two of them overlapped.                                     *)
NothingBehindCursor ==
  \A c \in Pushed :
    Due(c) /\ (commits[c].branch = Main \/ ~crowded) => c \in stored

(* With passes one at a time, no issue or pull request touched before the  *)
(* last pass began is out of date.                                         *)
ItemsAreCurrent ==
  ~overlapped /\ cursor # None =>
    \A i \in Item : touched[i] # None /\ touched[i] < cursor => copied[i] = touched[i]

(* The credit for a commit is never lost, whoever leaves or disconnects    *)
(* and however often GitHub lists it again; it is with somebody who had    *)
(* its author's account connected, and so stays where it is unless a       *)
(* colleague connects that account too (_attribute: the owner of today,    *)
(* or of the moment an overlapping pass began, overrides what the row      *)
(* says).                                                                  *)
CreditStays ==
  [][\A c \in Pushed : credit[c] # None =>
       credit'[c] # None /\ {credit[c], credit'[c]} \subseteq owners[commits[c].author]]_vars
=============================================================================
