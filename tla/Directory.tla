------------------------------ MODULE Directory ------------------------------
(***************************************************************************)
(* The directory of services/identity: departments, their teams and the    *)
(* membership rows that put a person in a department with a role, under    *)
(* requests that run concurrently.  Who may administer what, who leads a   *)
(* team and which claims a token carries are all read from these rows.     *)
(*                                                                         *)
(* A handler reads and checks, then commits what it decided, and then, in  *)
(* a transaction of its own, bumps the token_version of everyone whose     *)
(* claims the change moved.  So a request here is a read step that leaves  *)
(* a plan, a commit step and a bump step.  An UPDATE writes the changed    *)
(* columns only; an UPDATE of a row that is gone and an INSERT or UPDATE a *)
(* constraint refuses roll the whole request back.                         *)
(*                                                                         *)
(* The caller is a platform admin, whom every route's guard lets through,  *)
(* so any handler may be called on anything.  A request that is refused    *)
(* changes nothing and has no action.  Names and slugs are left out.       *)
(***************************************************************************)
EXTENDS FiniteSets

CONSTANTS
  User,      \* accounts; none is deleted here
  Dept,      \* department ids that may exist (a bound)
  Team,      \* team ids that may exist (a bound)
  Id,        \* membership ids that may exist at once (a bound)
  Worker,    \* requests that may be in flight at once (a bound)
  None,      \* SQL NULL, and no such row
  Keep       \* a column an UPDATE leaves out

Role == {"member", "manager", "admin"}
Leading == {"manager", "admin"}

Membership == [user: User, dept: Dept, team: Team \cup {None}, role: Role]

ASSUME SentinelAssumption ==
  /\ None \notin User \cup Dept \cup Team \cup Id \cup Membership
  /\ Keep \notin Dept \cup Team \cup {None, "member", "manager", "admin"}

VARIABLES
  depts,     \* departments that exist
  home,      \* teams.dept_id, None for a team that does not exist
  lead,      \* teams.manager_user_id
  head,      \* departments.head_user_id
  members,   \* the membership rows, None where the id is free
  stale,     \* accounts whose claims moved since their last bump
  req        \* what each request is about to do

vars == <<depts, home, lead, head, members, stale, req>>

-----------------------------------------------------------------------------
(* One plan per request: which row to insert, change or delete, which      *)
(* teams and which department change hands, to whom, whom to bump.         *)
Plan == [pc: {"idle", "off", "insert", "join", "write", "remove", "dropTeam", "dropDept", "bump"},
         row: Id \cup {None}, user: User \cup {None}, dept: Dept \cup {Keep},
         team: Team \cup {None, Keep}, role: Role \cup {Keep},
         led: SUBSET Team, heads: Dept \cup {None}, to: User \cup {None}, bump: SUBSET User]

Hands(led, heads, to, bump) == [led |-> led, heads |-> heads, to |-> to, bump |-> bump]
Bumps(users) == Hands({}, None, None, users)

Todo(pc, m, u, d, t, r, h) ==
  [pc |-> pc, row |-> m, user |-> u, dept |-> d, team |-> t, role |-> r,
   led |-> h.led, heads |-> h.heads, to |-> h.to, bump |-> h.bump]

Nothing(pc) == Todo(pc, None, None, Keep, Keep, Keep, Bumps({}))

Live     == {m \in Id : members[m] # None}
Of(d)    == {m \in Live : members[m].dept = d}
At(u, d) == {m \in Of(d) : members[m].user = u}
Admins(d) == {m \in Of(d) : members[m].role = "admin"}
Teams(d) == {t \in Team : home[t] = d}
Exists(t) == home[t] # None

(* _membership_claims and _led_team_ids: what a token says of its holder.  *)
Claims(u) ==
  [memberships |-> {[dept |-> members[m].dept, team |-> members[m].team, role |-> members[m].role] :
                      m \in {n \in Live : members[n].user = u}},
   leads |-> {t \in Team : Exists(t) /\ lead[t] = u}]

(* Ids no request still holds, so that a new row is a new row. *)
FreshId == {m \in Id : members[m] = None /\ \A w \in Worker : req[w].row # m}

Begin(w, plan) == req[w].pc = "idle" /\ req' = [req EXCEPT ![w] = plan]
Finish(w)      == req' = [req EXCEPT ![w] = Nothing("idle")]
Rows == <<depts, home, lead, head, members>>
Unchanged == UNCHANGED <<Rows, stale>>

-----------------------------------------------------------------------------
(* Guards and decisions the handlers share.                                *)

(* Fault: the member asked about counts as the other admin. *)
AnyAdmin(u, d) == Admins(d) # {}

(* _assert_not_last_admin *)
AnotherAdmin(u, d) == \E m \in Admins(d) : members[m].user # u

(* Fault: whoever takes the teams over keeps their tokens. *)
HandoverUntold(d, u, losesTeams, losesHead) ==
  LET led   == {t \in Teams(d) : losesTeams /\ lead[t] = u}
      heads == losesHead /\ head[d] = u
      fit   == {r \in User \ {u} : \E m \in At(r, d) :
                  members[m].role \in IF heads THEN {"admin"} ELSE Leading}
      Answer(to) == Hands(led, IF heads THEN d ELSE None, to, {})
  IN  IF led = {} /\ ~heads THEN {Answer(None)} ELSE {Answer(r) : r \in fit \cup {None}}

(* Fault: a manager may take a headship over along with the teams. *)
HandoverToManager(d, u, losesTeams, losesHead) ==
  LET led   == {t \in Teams(d) : losesTeams /\ lead[t] = u}
      heads == losesHead /\ head[d] = u
      fit   == {r \in User \ {u} : \E m \in At(r, d) : members[m].role \in Leading}
      Answer(to) == Hands(led, IF heads THEN d ELSE None, to,
                          IF to = None \/ led = {} THEN {} ELSE {to})
  IN  IF led = {} /\ ~heads THEN {Answer(None)} ELSE {Answer(r) : r \in fit \cup {None}}

(* The answers of _handover that are not a refusal: nothing to hand over,  *)
(* a qualified replacement, or allow_unled.                                *)
Handover(d, u, losesTeams, losesHead) ==
  LET led   == {t \in Teams(d) : losesTeams /\ lead[t] = u}
      heads == losesHead /\ head[d] = u
      fit   == {r \in User \ {u} : \E m \in At(r, d) :
                  members[m].role \in IF heads THEN {"admin"} ELSE Leading}
      Answer(to) == Hands(led, IF heads THEN d ELSE None, to,
                          IF to = None \/ led = {} THEN {} ELSE {to})
  IN  IF led = {} /\ ~heads THEN {Answer(None)} ELSE {Answer(r) : r \in fit \cup {None}}

(* A change of row m: its holder is bumped with whoever takes over.        *)
OnRow(pc, m, d, t, r, h) ==
  Todo(pc, m, members[m].user, d, t, r,
       Hands(h.led, h.heads, h.to, h.bump \cup {members[m].user}))
Written(new, old) == IF new = old THEN Keep ELSE new

-----------------------------------------------------------------------------
(* The handlers up to their commit.                                        *)

(* add_member, and accept_invite for an account that exists: the invite's  *)
(* team is one of the department or was set to NULL when it was deleted.   *)
AddMember(w, u, d, t, r) ==
  /\ d \in depts /\ At(u, d) = {} /\ t \in Teams(d) \cup {None}
  /\ \E pc \in {"insert", "join"} :
       Begin(w, Todo(pc, None, u, d, t, r, Bumps({u})))
  /\ Unchanged

(* update_member: a new role, a new team or both. *)
UpdateMember(w, m, r, t) ==
  LET d == members[m].dept
      u == members[m].user
      moves == r \notin {Keep, members[m].role}
  IN  /\ moves /\ members[m].role = "admin" => AnotherAdmin(u, d)
      /\ t \in Teams(d) \cup {None, Keep}
      /\ r # Keep \/ t # Keep
      /\ \E h \in Handover(d, u, moves /\ r \notin Leading, moves /\ r # "admin") :
           Begin(w, OnRow("write", m, Keep, Written(t, members[m].team),
                          Written(r, members[m].role), h))
      /\ Unchanged

(* Fault: the team comes along. *)
TransferWithTeam(w, m, d2) ==
  LET d == members[m].dept
      u == members[m].user
  IN  /\ d2 \in depts \ {d} /\ At(u, d2) = {}
      /\ members[m].role = "admin" => AnotherAdmin(u, d) \/ Of(d) \subseteq At(u, d)
      /\ \E h \in Handover(d, u, TRUE, TRUE) :
           Begin(w, OnRow("write", m, d2, Keep, Keep, h))
      /\ Unchanged

(* transfer_member: the last admin may leave only an empty department. *)
TransferMember(w, m, d2) ==
  LET d == members[m].dept
      u == members[m].user
  IN  /\ d2 \in depts \ {d} /\ At(u, d2) = {}
      /\ members[m].role = "admin" => AnotherAdmin(u, d) \/ Of(d) \subseteq At(u, d)
      /\ \E h \in Handover(d, u, TRUE, TRUE) :
           Begin(w, OnRow("write", m, d2, Written(None, members[m].team), Keep, h))
      /\ Unchanged

RemoveMember(w, m) ==
  LET d == members[m].dept
      u == members[m].user
  IN  /\ members[m].role = "admin" => AnotherAdmin(u, d)
      /\ \E h \in Handover(d, u, TRUE, TRUE) : Begin(w, OnRow("remove", m, Keep, Keep, Keep, h))
      /\ Unchanged

SetHead(w, d, u) ==
  /\ d \in depts
  /\ u = None \/ \E m \in At(u, d) : members[m].role = "admin"
  /\ Begin(w, Todo("write", None, None, Keep, Keep, Keep,
                   Hands({}, IF head[d] = u THEN None ELSE d, u, {})))
  /\ Unchanged

(* set_manager: both ends are bumped. *)
SetManager(w, t, u) ==
  /\ Exists(t)
  /\ u = None \/ \E m \in At(u, home[t]) : members[m].role \in Leading
  /\ Begin(w, Todo("write", None, None, Keep, t, Keep,
                   Hands(IF lead[t] = u THEN {} ELSE {t}, None, u, {u, lead[t]} \ {None})))
  /\ Unchanged

(* add_team_member and remove_team_member *)
AddTeamMember(w, m, t) ==
  /\ home[t] = members[m].dept
  /\ Begin(w, OnRow("write", m, Keep, Written(t, members[m].team), Keep, Bumps({})))
  /\ Unchanged

RemoveTeamMember(w, m) ==
  /\ members[m].team # None
  /\ home[members[m].team] = members[m].dept
  /\ Begin(w, OnRow("write", m, Keep, None, Keep, Bumps({})))
  /\ Unchanged

(* delete_team: everyone on it loses their team_id claim, the lead theirs. *)
DeleteTeam(w, t) ==
  /\ Exists(t)
  /\ Begin(w, Todo("dropTeam", None, None, Keep, Keep, Keep,
                   Hands({t}, None, None,
                         ({members[m].user : m \in {n \in Live : members[n].team = t}}
                            \cup {lead[t]}) \ {None})))
  /\ Unchanged

DeleteDepartment(w, d) ==
  /\ d \in depts /\ Of(d) = {}
  /\ Begin(w, Todo("dropDept", None, None, Keep, Keep, Keep, Hands({}, d, None, {})))
  /\ Unchanged

(* create_department and create_team read nothing their commit depends on. *)
CreateDepartment(w, d) ==
  /\ req[w].pc = "idle" /\ d \notin depts
  /\ \A v \in Worker : d \notin {req[v].dept, req[v].heads}
  /\ depts' = depts \cup {d}
  /\ UNCHANGED <<home, lead, head, members, stale, req>>

CreateTeam(w, t, d) ==
  /\ req[w].pc = "idle" /\ d \in depts /\ ~Exists(t)
  /\ \A v \in Worker : t \notin req[v].led \cup {req[v].team}
  /\ home' = [home EXCEPT ![t] = d]
  /\ UNCHANGED <<depts, lead, head, members, stale, req>>

-----------------------------------------------------------------------------
(* The commits.                                                            *)

(* What an UPDATE leaves of a membership row. *)
Updated(m, p) ==
  [user |-> m.user,
   dept |-> IF p.dept = Keep THEN m.dept ELSE p.dept,
   team |-> IF p.team = Keep THEN m.team ELSE p.team,
   role |-> IF p.role = Keep THEN m.role ELSE p.role]

Writes(p) == p.row # None /\ ~(p.dept = Keep /\ p.team = Keep /\ p.role = Keep)

(* The UPDATEs find their rows, and no constraint refuses them. *)
CanHandOver(p) ==
  /\ \A t \in p.led : Exists(t)
  /\ p.heads # None => p.heads \in depts

(* Fault: nothing but the check before it keeps a transfer unique. *)
CanWriteTwice(p) ==
  /\ CanHandOver(p)
  /\ Writes(p) => p.row \in Live
  /\ Writes(p) /\ p.team \in Team => Exists(p.team)
  /\ p.dept # Keep => p.dept \in depts

CanWrite(p) ==
  /\ CanHandOver(p)
  /\ Writes(p) => p.row \in Live
  /\ Writes(p) /\ p.team \in Team => Exists(p.team)
  /\ p.dept # Keep => p.dept \in depts /\ At(p.user, p.dept) \subseteq {p.row}

CanInsert(p) ==
  /\ p.dept \in depts /\ At(p.user, p.dept) = {}
  /\ p.team \in Team => Exists(p.team)

CanCommit(p) ==
  /\ p.pc \in {"insert", "join"} => CanInsert(p)
  /\ p.pc = "write" => CanWrite(p)
  /\ p.pc = "remove" => CanHandOver(p)

HandOver(p) ==
  /\ lead' = [t \in Team |-> IF t \in p.led THEN p.to ELSE lead[t]]
  /\ head' = [d \in Dept |-> IF d = p.heads THEN p.to ELSE head[d]]

Moved == {u \in User : Claims(u)' # Claims(u)}

(* After the commit the handler reads its row again and then bumps. *)
Committed(w, row) ==
  LET p == req[w]
      again == IF p.pc = "write" /\ p.row = None THEN p.team ELSE Keep
  IN  req' = [req EXCEPT ![w] =
                IF p.bump = {} THEN Nothing("idle")
                ELSE Todo("bump", row, None, Keep, again, Keep, Bumps(p.bump))]

CommitWrite(w) ==
  LET p == req[w]
  IN  /\ p.pc = "write" /\ CanWrite(p)
      /\ members' = IF Writes(p) THEN [members EXCEPT ![p.row] = Updated(@, p)] ELSE members
      /\ HandOver(p)
      /\ Committed(w, p.row)
      /\ UNCHANGED <<depts, home>>
      /\ stale' = stale \cup Moved

(* A DELETE that finds no row is no error. *)
CommitRemove(w) ==
  LET p == req[w]
  IN  /\ p.pc = "remove" /\ CanHandOver(p)
      /\ members' = [members EXCEPT ![p.row] = None]
      /\ HandOver(p)
      /\ Committed(w, None)
      /\ UNCHANGED <<depts, home>>
      /\ stale' = stale \cup Moved

NewMembership(p) == [user |-> p.user, dept |-> p.dept, team |-> p.team, role |-> p.role]

CommitInsert(w) ==
  LET p == req[w]
  IN  /\ p.pc = "insert" /\ CanInsert(p)
      /\ \E m \in FreshId :
           /\ members' = [members EXCEPT ![m] = NewMembership(p)]
           /\ Committed(w, m)
      /\ UNCHANGED <<depts, home, lead, head>>
      /\ stale' = stale \cup {p.user}

(* accept_invite bumps in the transaction that inserts. *)
CommitJoin(w) ==
  LET p == req[w]
  IN  /\ p.pc = "join" /\ CanInsert(p)
      /\ \E m \in FreshId : members' = [members EXCEPT ![m] = NewMembership(p)]
      /\ stale' = stale \ {p.user}
      /\ Finish(w)
      /\ UNCHANGED <<depts, home, lead, head>>

OffTeam(m) == [user |-> m.user, dept |-> m.dept, team |-> None, role |-> m.role]

(* Teams go with their department; team_id and its lead go with a team.    *)
Drop(teams, gone) ==
  /\ home' = [t \in Team |-> IF t \in teams THEN None ELSE home[t]]
  /\ lead' = [t \in Team |-> IF t \in teams THEN None ELSE lead[t]]
  /\ members' = [m \in Id |->
       IF m \in gone THEN None
       ELSE IF m \in Live /\ members[m].team \in teams THEN OffTeam(members[m])
       ELSE members[m]]

CommitDropTeam(w) ==
  /\ req[w].pc = "dropTeam"
  /\ Drop(req[w].led, {})
  /\ Committed(w, None)
  /\ UNCHANGED <<depts, head>>
  /\ stale' = stale \cup Moved

(* The cascade takes memberships that arrived after the count as well. *)
CommitDropDepartment(w) ==
  LET d == req[w].heads
  IN  /\ req[w].pc = "dropDept"
      /\ depts' = depts \ {d}
      /\ head' = [head EXCEPT ![d] = None]
      /\ Drop(Teams(d), Of(d))
      /\ Finish(w)
      /\ stale' = stale \cup Moved

CommitFails(w) ==
  /\ ~CanCommit(req[w])
  /\ Finish(w)
  /\ Unchanged

-----------------------------------------------------------------------------
(* The bump.                                                               *)

(* db.refresh of the row just written *)
Refreshes(p) ==
  /\ p.row # None => p.row \in Live
  /\ p.team \in Team => Exists(p.team)

Bump(w) ==
  /\ req[w].pc = "bump" /\ Refreshes(req[w])
  /\ stale' = stale \ req[w].bump
  /\ Finish(w)
  /\ UNCHANGED Rows

(* The row went while the request was between its commit and its refresh.  *)
BumpLost(w) ==
  /\ req[w].pc = "bump" /\ ~Refreshes(req[w])
  /\ Finish(w)
  /\ Unchanged

-----------------------------------------------------------------------------
Init ==
  /\ depts = {} /\ stale = {}
  /\ home = [t \in Team |-> None] /\ lead = [t \in Team |-> None]
  /\ head = [d \in Dept |-> None] /\ members = [m \in Id |-> None]
  /\ \E running \in SUBSET Worker :
       req = [w \in Worker |-> Nothing(IF w \in running THEN "idle" ELSE "off")]

Reads(w) ==
  \/ \E u \in User, d \in Dept, t \in Team \cup {None}, r \in Role : AddMember(w, u, d, t, r)
  \/ \E m \in Live, r \in Role \cup {Keep}, t \in Team \cup {None, Keep} : UpdateMember(w, m, r, t)
  \/ \E m \in Live, d \in Dept : TransferMember(w, m, d)
  \/ \E m \in Live : RemoveMember(w, m) \/ RemoveTeamMember(w, m)
  \/ \E d \in Dept, u \in User \cup {None} : SetHead(w, d, u)
  \/ \E t \in Team, u \in User \cup {None} : SetManager(w, t, u)
  \/ \E m \in Live, t \in Team : AddTeamMember(w, m, t)
  \/ \E t \in Team : DeleteTeam(w, t)
  \/ \E d \in Dept : DeleteDepartment(w, d) \/ CreateDepartment(w, d)
  \/ \E t \in Team, d \in Dept : CreateTeam(w, t, d)

Commits(w) ==
  \/ CommitWrite(w) \/ CommitRemove(w) \/ CommitInsert(w) \/ CommitJoin(w)
  \/ CommitDropTeam(w) \/ CommitDropDepartment(w) \/ CommitFails(w)

Next == \E w \in Worker : Reads(w) \/ Commits(w) \/ Bump(w) \/ BumpLost(w)

Spec == Init /\ [][Next]_vars

-----------------------------------------------------------------------------
(* Every row and every plan has its columns, and the references between    *)
(* rows point at rows that exist (the foreign keys).                       *)
TypeOK ==
  /\ depts \subseteq Dept
  /\ home \in [Team -> depts \cup {None}]
  /\ lead \in [Team -> User \cup {None}]
  /\ head \in [Dept -> User \cup {None}]
  /\ members \in [Id -> Membership \cup {None}]
  /\ stale \subseteq User
  /\ req \in [Worker -> Plan]
  /\ \A m \in Live : members[m].dept \in depts
  /\ \A m \in Live : members[m].team = None \/ Exists(members[m].team)

(* At most one request runs in this deployment. *)
Alone == \A v, w \in Worker : v # w => req[v].pc = "off" \/ req[w].pc = "off"

(* A person has one membership in a department however many requests race  *)
(* to add or move them: add_member, accept_invite and transfer_member check*)
(* first and leave the race to the constraint.                             *)
OneMembershipPerDept ==
  \A m, n \in Live :
    members[m].user = members[n].user /\ members[m].dept = members[n].dept => m = n

(* With requests one at a time, a department that has an admin keeps one   *)
(* for as long as it has members: no demotion, removal or transfer strands *)
(* the others with nobody able to administer them (departments.py:297).    *)
AdminRemains ==
  [][Alone => \A d \in Dept : Admins(d) # {} /\ Of(d)' # {} => Admins(d)' # {}]_vars

(* With requests one at a time, who leads a team is a manager or an admin  *)
(* of the team's department and who heads a department one of its admins,  *)
(* whatever demotions, moves and removals came since they were appointed.  *)
LeadersQualify ==
  Alone =>
    /\ \A t \in Team : Exists(t) /\ lead[t] # None =>
         \E m \in At(lead[t], home[t]) : members[m].role \in Leading
    /\ \A d \in depts : head[d] # None => \E m \in At(head[d], d) : members[m].role = "admin"

(* With requests one at a time, nobody is on a team of a department they   *)
(* are not in: a team stays behind when its member moves.                  *)
TeamOfOwnDept ==
  Alone => \A m \in Live : members[m].team # None => home[members[m].team] = members[m].dept

(* With requests one at a time, whoever's claims moved is in the bump of   *)
(* the request that moved them: when it ends no token in use states a      *)
(* membership, a role or a lead its holder no longer has, or lacks one.    *)
TokensCatchUp ==
  Alone => \A u \in stale : \E w \in Worker : u \in req[w].bump
=============================================================================
