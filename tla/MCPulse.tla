------------------------------- MODULE MCPulse -------------------------------
(* Instances for TLC of what Pulse does around the reports and the code     *)
(* index: the passes over GitHub (of one kind of event at a time: people    *)
(* who come and go, issues, two branches, two passes), the check for people *)
(* who have left, what answers may quote, who may raise an allowance, and   *)
(* what requests spend.  The parts share no state: a behaviour is of one of *)
(* them, the others staying as they began.                                  *)
EXTENDS Answers, Sequences

CONSTANTS
  Staff, Person, Login, Handle, Main, Topic, Branch, Item, Pass, Beat,                    \* of Sync; Staff of People too
  Overlap, Delay, MaxBranches, MaxCommits, MaxTime, MaxAccountMoves,
  Page, Batch, TTL, Latency, MaxMoves,                                     \* of People
  Caller, Office, Chief, Manager, Worker, Allowance, DefaultCap, MaxUsed,  \* of Credentials
  HeadOf, OfficesOf, KeyRows, CapRows,
  Request, Cap, Estimates, Waits, MaxWait, MaxRetries, MaxSections, MaxBilled   \* of Spending

VARIABLES
  part,
  now, commits, touched, account, owners, gone, cursor, stored, credit, copied, pass, listed, crowded, overlapped, moves,
  person, since, connected, cache, call, turns,
  key, cap, upsert, used, onUs, peak, backed,
  req, ledger, billed, lost, busy

github      == <<now, commits, touched, account, owners, gone, cursor, stored, credit, copied, pass, listed, crowded,
                 overlapped, moves>>
people      == <<person, since, connected, cache, call, turns>>
credentials == <<key, cap, upsert, used, onUs, peak, backed>>
spending    == <<req, ledger, billed, lost, busy>>

GitHub == INSTANCE Sync WITH
  User <- Staff, Latency <- Delay, MaxMoves <- MaxAccountMoves

Leavers == INSTANCE People WITH User <- Staff, account <- connected, moves <- turns

Allowances == INSTANCE Credentials WITH
  User <- Caller, Dept <- Office, Boss <- Chief, DeptHead <- HeadOf, DeptsOf <- OfficesOf, req <- upsert

AdHoc == INSTANCE Spending WITH crowded <- busy

ASSUME PulseAssumption ==
  GitHub!Settings /\ Leavers!Settings /\ Allowances!Settings /\ AdHoc!Settings /\ Asker \subseteq User
-----------------------------------------------------------------------------
MCInit ==
  /\ part \in {"people", "items", "branches", "passes", "leavers", "chat", "credentials", "spending"}
  /\ GitHub!Init /\ Leavers!Init /\ Init /\ Allowances!Init /\ AdHoc!Init
  /\ part # "people" => account \in {GitHub!Nobody} \cup
       (IF part \in {"items", "branches", "passes"} THEN {[GitHub!Nobody EXCEPT ![Handle] = Person]} ELSE {})

(* What a part of the sync leaves alone, so that it may go far in the rest. *)
PushedTo(B) == \A c \in DOMAIN commits' : commits'[c].branch \in B
OneAtATime  == \A p \in Pass \ {Beat} : pass'[p] = pass[p]
OneAuthor   == \A c \in DOMAIN commits' : commits'[c].author = Handle
OneCommit   == OneAuthor /\ Len(commits') <= 1 /\ now' < MaxTime
NoMoves     == moves' = moves
NoTouches   == touched' = touched

People   == GitHub!Next /\ OneAtATime /\ OneCommit /\ NoTouches /\ PushedTo({Main})
Items    == GitHub!Next /\ OneAtATime /\ OneCommit /\ NoMoves /\ PushedTo({Main})
Branches == GitHub!Next /\ OneAtATime /\ OneAuthor /\ NoMoves /\ NoTouches
Passes   == GitHub!Next /\ OneCommit /\ NoMoves /\ NoTouches /\ PushedTo({Main, Topic})

MCNext ==
  \/ /\ \/ part = "people" /\ People
        \/ part = "items" /\ Items
        \/ part = "branches" /\ Branches
        \/ part = "passes" /\ Passes
     /\ UNCHANGED <<part, people, vars, credentials, spending>>
  \/ part = "leavers" /\ Leavers!Next /\ UNCHANGED <<part, github, vars, credentials, spending>>
  \/ part = "chat" /\ Next /\ UNCHANGED <<part, github, people, credentials, spending>>
  \/ part = "credentials" /\ Allowances!Next /\ UNCHANGED <<part, github, people, vars, spending>>
  \/ part = "spending" /\ AdHoc!Next /\ UNCHANGED <<part, github, people, vars, credentials>>

MCSpec == MCInit /\ [][MCNext]_<<part, github, people, vars, credentials, spending>>

(* The offices of the instance have one head, and every caller is of one. *)
MCHeadOf    == [d \in Office |-> Manager]
MCOfficesOf == [u \in Caller |-> <<CHOOSE d \in Office : TRUE>>]
MCKeyRows   == (Caller \cup Office) \X {1}
MCCapRows   == (Caller \cup Office \cup {None}) \X {1}

(* What Sync, People, Credentials and Spending promise. *)
NothingBehindCursor == GitHub!NothingBehindCursor /\ GitHub!ItemsAreCurrent
CreditStays         == GitHub!CreditStays
DropsWhoLeft        == [][part = "leavers" => Leavers!DropIsDue]_<<part, people>>
PlatformMoneyCapped == Allowances!PlatformMoneyCapped
SpendIsBounded      == AdHoc!SpendIsBounded
=============================================================================
