--------------------------- MODULE DirectoryProofs ---------------------------
(***************************************************************************)
(* What holds of Directory for any number of people, departments, teams,   *)
(* rows and concurrent requests: the columns keep their types and the      *)
(* foreign keys their rows, and nobody is in a department twice.           *)
(*                                                                         *)
(* An UPDATE that moves a row is kept unique by the constraint, which      *)
(* looks at the account the plan names; so the proof needs that the plan   *)
(* and the row it will write still name the same account (PlansFit).  That *)
(* is where the ids of deleted rows matter: they are not handed out again  *)
(* while a request still holds them.                                       *)
(*                                                                         *)
(* With one request at a time the guards of a handler still hold when it   *)
(* commits (Serially); on that rest the leads, the teams, the admins and   *)
(* who is told of a change.                                                *)
(***************************************************************************)
EXTENDS Directory, TLAPS

(* A plan to insert is a whole row; a plan to write a row that is still    *)
(* there names the account the row belongs to.                             *)
PlansFit ==
  \A w \in Worker :
    /\ req[w].pc \in {"insert", "join"} =>
         /\ req[w].user \in User
         /\ req[w].team \in Team \cup {None} /\ req[w].role \in Role
    /\ req[w].pc = "write" /\ req[w].row \in Live => members[req[w].row].user = req[w].user

Inv == TypeOK /\ PlansFit

Transfer == [led: SUBSET Team, heads: Dept \cup {None}, to: User \cup {None}, bump: SUBSET User]

-----------------------------------------------------------------------------
(* Plans.                                                                  *)

LEMMA HandsType ==
  ASSUME NEW led \in SUBSET Team, NEW heads \in Dept \cup {None},
         NEW to \in User \cup {None}, NEW bump \in SUBSET User
  PROVE  Hands(led, heads, to, bump) \in Transfer
BY DEF Hands, Transfer

LEMMA BumpsType == ASSUME NEW users \in SUBSET User PROVE Bumps(users) \in Transfer
BY HandsType DEF Bumps

LEMMA TodoFields ==
  ASSUME NEW pc, NEW m, NEW u, NEW d, NEW t, NEW r, NEW h
  PROVE  LET p == Todo(pc, m, u, d, t, r, h)
         IN  p.pc = pc /\ p.row = m /\ p.user = u /\ p.dept = d /\ p.team = t /\ p.role = r
BY DEF Todo

Pc == {"idle", "off", "insert", "join", "write", "remove", "dropTeam", "dropDept", "bump"}

LEMMA TodoType ==
  ASSUME NEW pc \in Pc, NEW m \in Id \cup {None}, NEW u \in User \cup {None},
         NEW d \in Dept \cup {Keep}, NEW t \in Team \cup {None, Keep}, NEW r \in Role \cup {Keep},
         NEW h \in Transfer
  PROVE  Todo(pc, m, u, d, t, r, h) \in Plan
BY DEF Todo, Plan, Transfer, Pc

LEMMA NothingType == ASSUME NEW pc \in Pc PROVE Nothing(pc) \in Plan /\ Nothing(pc).pc = pc
BY TodoType, TodoFields, BumpsType DEF Nothing

LEMMA HandoverType ==
  ASSUME NEW d \in Dept, NEW u, NEW losesTeams, NEW losesHead,
         NEW h \in Handover(d, u, losesTeams, losesHead)
  PROVE  h \in Transfer
<1> DEFINE led == {t \in Teams(d) : losesTeams /\ lead[t] = u}
           heads == losesHead /\ head[d] = u
           fit == {r \in User \ {u} : \E m \in At(r, d) :
                     members[m].role \in IF heads THEN {"admin"} ELSE Leading}
           Answer(to) == Hands(led, IF heads THEN d ELSE None, to,
                               IF to = None \/ led = {} THEN {} ELSE {to})
<1>1. led \subseteq Team
  BY DEF Teams
<1>2. ASSUME NEW to \in User \cup {None} PROVE Answer(to) \in Transfer
  <2>1. (IF to = None \/ led = {} THEN {} ELSE {to}) \in SUBSET User
    OBVIOUS
  <2>2. (IF heads THEN d ELSE None) \in Dept \cup {None}
    OBVIOUS
  <2> QED BY <1>1, <2>1, <2>2, HandsType
<1>3. \E to \in User \cup {None} : h = Answer(to)
  BY DEF Handover
<1> QED BY <1>2, <1>3

LEMMA OnRowType ==
  ASSUME TypeOK, NEW pc \in Pc, NEW m \in Live, NEW d \in Dept \cup {Keep},
         NEW t \in Team \cup {None, Keep}, NEW r \in Role \cup {Keep}, NEW h \in Transfer
  PROVE  OnRow(pc, m, d, t, r, h) \in Plan
<1>1. m \in Id /\ members[m].user \in User
  BY SentinelAssumption DEF TypeOK, Live, Membership
<1> DEFINE g == Hands(h.led, h.heads, h.to, h.bump \cup {members[m].user})
<1>2. g \in Transfer
  BY <1>1 DEF Hands, Transfer
<1>3. OnRow(pc, m, d, t, r, h) = Todo(pc, m, members[m].user, d, t, r, g)
  BY DEF OnRow
<1> HIDE DEF g
<1>4. Todo(pc, m, members[m].user, d, t, r, g) \in Plan
  BY <1>1, <1>2, TodoType
<1> QED BY <1>3, <1>4, TodoFields

-----------------------------------------------------------------------------
(* A request that only plans. *)
LEMMA BeginKeeps ==
  ASSUME Inv, NEW w \in Worker, NEW plan \in Plan, Begin(w, plan), Unchanged,
         plan.pc \in {"insert", "join"} =>
           plan.user \in User /\ plan.team \in Team \cup {None} /\ plan.role \in Role,
         plan.pc = "write" /\ plan.row \in Live => members[plan.row].user = plan.user
  PROVE  Inv'
<1>1. req' \in [Worker -> Plan] /\ req'[w] = plan /\ \A v \in Worker \ {w} : req'[v] = req[v]
  BY DEF Inv, TypeOK, Begin
<1>2. TypeOK'
  BY <1>1 DEF Inv, TypeOK, Unchanged, Rows, Live, Exists
<1>3. PlansFit'
  BY <1>1 DEF Inv, PlansFit, Unchanged, Rows, Live
<1> QED BY <1>2, <1>3 DEF Inv

LEMMA PlanningKeeps ==
  ASSUME Inv, NEW w \in Worker, Reads(w)
  PROVE  Inv' /\ members' = members
<1> USE DEF Inv
<1>l. Live \subseteq Id /\ \A m \in Live : members[m] \in Membership
  BY DEF Live, TypeOK
<1>m. \A m \in Live : /\ members[m].user \in User /\ members[m].dept \in Dept
                      /\ members[m].team \in Team \cup {None} /\ members[m].role \in Role
  BY <1>l DEF Membership
<1>t. Bumps({}) \in Transfer
  BY BumpsType
<1>1. ASSUME NEW u \in User, NEW d \in Dept, NEW t \in Team \cup {None}, NEW r \in Role,
             AddMember(w, u, d, t, r)
      PROVE  Inv' /\ members' = members
  <2>1. PICK pc \in {"insert", "join"} :
          Begin(w, Todo(pc, None, u, d, t, r, Bumps({u})))
    BY <1>1 DEF AddMember
  <2> DEFINE plan == Todo(pc, None, u, d, t, r, Bumps({u}))
  <2>2. plan \in Plan
    BY TodoType, BumpsType DEF Pc
  <2>3. plan.pc = pc /\ plan.user = u /\ plan.team = t /\ plan.role = r
    BY TodoFields
  <2>4. Unchanged /\ Begin(w, plan)
    BY <1>1, <2>1 DEF AddMember
  <2> HIDE DEF plan
  <2> QED BY <2>2, <2>3, <2>4, BeginKeeps DEF Unchanged, Rows
<1>2. ASSUME NEW m \in Live, NEW d \in Dept \cup {Keep}, NEW t \in Team \cup {None, Keep},
             NEW r \in Role \cup {Keep}, NEW h \in Transfer, NEW pc \in {"write", "remove"},
             Begin(w, OnRow(pc, m, d, t, r, h)), Unchanged
      PROVE  Inv' /\ members' = members
  <2> DEFINE plan == OnRow(pc, m, d, t, r, h)
  <2>0. pc \in Pc /\ TypeOK
    BY DEF Pc
  <2>1. plan \in Plan
    BY <2>0, OnRowType, Zenon
  <2>b. plan.pc = pc /\ plan.row = m /\ plan.user = members[m].user
    BY TodoFields DEF OnRow
  <2>2. Begin(w, plan)
    BY <1>2
  <2> HIDE DEF plan
  <2> QED BY <1>2, <2>1, <2>b, <2>2, BeginKeeps DEF Unchanged, Rows
<1>3. ASSUME NEW pc \in {"write", "dropTeam", "dropDept"}, NEW t \in Team \cup {None, Keep},
             NEW h \in Transfer, Begin(w, Todo(pc, None, None, Keep, t, Keep, h)), Unchanged
      PROVE  Inv' /\ members' = members
  <2> DEFINE plan == Todo(pc, None, None, Keep, t, Keep, h)
  <2>0. pc \in Pc
    BY DEF Pc
  <2>1. plan \in Plan
    BY <2>0, TodoType
  <2>a. plan.pc = pc /\ plan.row = None
    BY TodoFields
  <2>2. None \notin Live
    BY <1>l, SentinelAssumption
  <2>3. Begin(w, plan)
    BY <1>3
  <2> HIDE DEF plan
  <2> QED BY <1>3, <2>1, <2>a, <2>2, <2>3, BeginKeeps DEF Unchanged, Rows
<1>4. ASSUME NEW m \in Live, NEW r \in Role \cup {Keep}, NEW t \in Team \cup {None, Keep},
             UpdateMember(w, m, r, t)
      PROVE  Inv' /\ members' = members
  <2> DEFINE moves == r \notin {Keep, members[m].role}
  <2>1. PICK h \in Handover(members[m].dept, members[m].user,
                            moves /\ r \notin Leading, moves /\ r # "admin") :
          Begin(w, OnRow("write", m, Keep, Written(t, members[m].team),
                         Written(r, members[m].role), h))
    BY <1>4 DEF UpdateMember
  <2>2. h \in Transfer
    BY <1>m, HandoverType
  <2>3. Unchanged
    BY <1>4 DEF UpdateMember
  <2>4. /\ Written(t, members[m].team) \in Team \cup {None, Keep}
        /\ Written(r, members[m].role) \in Role \cup {Keep}
    BY DEF Written
  <2> QED BY <1>2, <2>1, <2>2, <2>3, <2>4
<1>5. ASSUME NEW m \in Live, NEW d \in Dept, TransferMember(w, m, d)
      PROVE  Inv' /\ members' = members
  <2>1. PICK h \in Handover(members[m].dept, members[m].user, TRUE, TRUE) :
          Begin(w, OnRow("write", m, d, Written(None, members[m].team), Keep, h))
    BY <1>5 DEF TransferMember
  <2>2. h \in Transfer
    BY <1>m, HandoverType
  <2>3. Unchanged
    BY <1>5 DEF TransferMember
  <2>4. Written(None, members[m].team) \in Team \cup {None, Keep}
    BY DEF Written
  <2> QED BY <1>2, <2>1, <2>2, <2>3, <2>4
<1>6. ASSUME NEW m \in Live, RemoveMember(w, m) PROVE Inv' /\ members' = members
  <2>1. PICK h \in Handover(members[m].dept, members[m].user, TRUE, TRUE) :
          Begin(w, OnRow("remove", m, Keep, Keep, Keep, h))
    BY <1>6 DEF RemoveMember
  <2>2. h \in Transfer
    BY <1>m, HandoverType
  <2>3. Unchanged
    BY <1>6 DEF RemoveMember
  <2> QED BY <1>2, <2>1, <2>2, <2>3
<1>7. ASSUME NEW m \in Live, RemoveTeamMember(w, m) PROVE Inv' /\ members' = members
  BY <1>2, <1>7, <1>t DEF RemoveTeamMember
<1>8. ASSUME NEW d \in Dept, NEW u \in User \cup {None}, SetHead(w, d, u)
      PROVE  Inv' /\ members' = members
  <2>1. Hands({}, IF head[d] = u THEN None ELSE d, u, {}) \in Transfer
    BY HandsType
  <2> QED BY <1>3, <1>8, <2>1 DEF SetHead
<1>9. ASSUME NEW t \in Team, NEW u \in User \cup {None}, SetManager(w, t, u)
      PROVE  Inv' /\ members' = members
  <2>1. lead[t] \in User \cup {None}
    BY DEF TypeOK
  <2>2. Hands(IF lead[t] = u THEN {} ELSE {t}, None, u, {u, lead[t]} \ {None}) \in Transfer
    BY <2>1, HandsType
  <2> QED BY <1>3, <1>9, <2>2 DEF SetManager
<1>10. ASSUME NEW m \in Live, NEW t \in Team, AddTeamMember(w, m, t)
       PROVE  Inv' /\ members' = members
  <2>1. Written(t, members[m].team) \in Team \cup {None, Keep}
    BY DEF Written
  <2> QED BY <1>2, <1>10, <1>t, <2>1 DEF AddTeamMember
<1>11. ASSUME NEW t \in Team, DeleteTeam(w, t) PROVE Inv' /\ members' = members
  <2> DEFINE told == ({members[m].user : m \in {n \in Live : members[n].team = t}}
                        \cup {lead[t]}) \ {None}
  <2>1. told \subseteq User
    BY <1>m DEF TypeOK
  <2>2. Hands({t}, None, None, told) \in Transfer
    BY <2>1, HandsType
  <2> QED BY <1>3, <1>11, <2>2 DEF DeleteTeam
<1>12. ASSUME NEW d \in Dept, DeleteDepartment(w, d) PROVE Inv' /\ members' = members
  <2>1. Hands({}, d, None, {}) \in Transfer
    BY HandsType
  <2> QED BY <1>3, <1>12, <2>1 DEF DeleteDepartment
<1>13. ASSUME NEW d \in Dept, CreateDepartment(w, d) PROVE Inv' /\ members' = members
  <2>1. TypeOK'
    BY <1>13 DEF CreateDepartment, TypeOK, Live, Exists
  <2>2. PlansFit'
    BY <1>13 DEF CreateDepartment, PlansFit, Live
  <2> QED BY <1>13, <2>1, <2>2 DEF CreateDepartment
<1>14. ASSUME NEW t \in Team, NEW d \in Dept, CreateTeam(w, t, d)
       PROVE  Inv' /\ members' = members
  <2>0. home' \in [Team -> depts \cup {None}] /\ \A s \in Team : Exists(s) => Exists(s)'
    BY <1>14, SentinelAssumption DEF CreateTeam, TypeOK, Exists
  <2>1. TypeOK'
    BY <1>14, <1>m, <2>0 DEF CreateTeam, TypeOK, Live
  <2>2. PlansFit'
    BY <1>14 DEF CreateTeam, PlansFit, Live
  <2> QED BY <1>14, <2>1, <2>2 DEF CreateTeam
<1> QED
  BY <1>1, <1>4, <1>5, <1>6, <1>7, <1>8, <1>9, <1>10, <1>11, <1>12, <1>13, <1>14 DEF Reads

-----------------------------------------------------------------------------
(* Commits and bumps.                                                      *)

(* The request that committed is at its bump, or done; the others are      *)
(* where they were.                                                        *)
Moves(w) ==
  /\ req' \in [Worker -> Plan]
  /\ req'[w].pc \in {"idle", "bump"}
  /\ \A v \in Worker \ {w} : req'[v] = req[v]

LEMMA FinishMoves ==
  ASSUME TypeOK, NEW w \in Worker, Finish(w)
  PROVE  Moves(w)
<1>1. Nothing("idle") \in Plan /\ Nothing("idle").pc = "idle"
  BY NothingType DEF Pc
<1> QED BY <1>1 DEF Finish, Moves, TypeOK

LEMMA PlanFields ==
  ASSUME TypeOK, NEW w \in Worker
  PROVE  /\ req[w].row \in Id \cup {None} /\ req[w].user \in User \cup {None}
         /\ req[w].dept \in Dept \cup {Keep} /\ req[w].team \in Team \cup {None, Keep}
         /\ req[w].role \in Role \cup {Keep} /\ req[w].led \in SUBSET Team
         /\ req[w].heads \in Dept \cup {None} /\ req[w].to \in User \cup {None}
         /\ req[w].bump \in SUBSET User
BY DEF TypeOK, Plan

LEMMA CommittedMoves ==
  ASSUME TypeOK, NEW w \in Worker, NEW row \in Id \cup {None}, Committed(w, row)
  PROVE  Moves(w)
<1> DEFINE again == IF req[w].pc = "write" /\ req[w].row = None THEN req[w].team ELSE Keep
           next == Todo("bump", row, None, Keep, again, Keep, Bumps(req[w].bump))
<1>1. Nothing("idle") \in Plan /\ Nothing("idle").pc = "idle"
  BY NothingType DEF Pc
<1>2. again \in Team \cup {None, Keep} /\ Bumps(req[w].bump) \in Transfer /\ "bump" \in Pc
  BY PlanFields, BumpsType DEF Pc
<1>3. next \in Plan
  BY <1>2, TodoType
<1>4. next.pc = "bump"
  BY TodoFields
<1>5. req' = [req EXCEPT ![w] = IF req[w].bump = {} THEN Nothing("idle") ELSE next]
  BY DEF Committed
<1> HIDE DEF next
<1> QED BY <1>1, <1>3, <1>4, <1>5 DEF Moves, TypeOK

(* The memberships keep their accounts, and a new one is nobody's plan. *)
LEMMA MovesFit ==
  ASSUME PlansFit, NEW w \in Worker, Moves(w),
         \A v \in Worker \ {w} : req[v].row \in Live' =>
            req[v].row \in Live /\ members'[req[v].row].user = members[req[v].row].user
  PROVE  PlansFit'
BY DEF PlansFit, Moves

LEMMA UpdatedType ==
  ASSUME NEW m \in Membership, NEW p \in Plan
  PROVE  /\ Updated(m, p) \in Membership
         /\ Updated(m, p).user = m.user
         /\ Updated(m, p).dept = IF p.dept = Keep THEN m.dept ELSE p.dept
         /\ Updated(m, p).team = IF p.team = Keep THEN m.team ELSE p.team
BY DEF Updated, Membership, Plan

LEMMA RowFields ==
  ASSUME TypeOK, NEW m \in Live
  PROVE  /\ m \in Id /\ members[m] \in Membership
         /\ members[m].user \in User /\ members[m].dept \in depts /\ members[m].dept \in Dept
         /\ members[m].team \in Team \cup {None} /\ members[m].role \in Role
         /\ members[m].team = None \/ home[members[m].team] # None
BY DEF TypeOK, Live, Membership, Exists

LEMMA HandOverType ==
  ASSUME TypeOK, NEW w \in Worker, HandOver(req[w])
  PROVE  lead' \in [Team -> User \cup {None}] /\ head' \in [Dept -> User \cup {None}]
<1>1. req[w].to \in User \cup {None}
  BY PlanFields
<1> QED BY <1>1 DEF HandOver, TypeOK

(* No row changes hands or department. *)
Settled == \A m \in Live' : /\ m \in Live
                            /\ members'[m].user = members[m].user
                            /\ members'[m].dept = members[m].dept

LEMMA SettledKeeps ==
  ASSUME OneMembershipPerDept, Settled PROVE OneMembershipPerDept'
BY DEF OneMembershipPerDept, Settled

LEMMA DropRows ==
  ASSUME TypeOK, NEW teams \in SUBSET Team, NEW gone \in SUBSET Id, Drop(teams, gone)
  PROVE  /\ home' \in [Team -> depts \cup {None}] /\ lead' \in [Team -> User \cup {None}]
         /\ \A t \in Team : home'[t] = IF t \in teams THEN None ELSE home[t]
         /\ members' \in [Id -> Membership \cup {None}]
         /\ Settled /\ Live' \cap gone = {}
         /\ \A m \in Live' : members'[m].team = None \/ home'[members'[m].team] # None
<1>1. /\ home' \in [Team -> depts \cup {None}] /\ lead' \in [Team -> User \cup {None}]
      /\ \A t \in Team : home'[t] = IF t \in teams THEN None ELSE home[t]
  BY DEF Drop, TypeOK
<1>2. ASSUME NEW m \in Live
      PROVE  /\ OffTeam(members[m]) \in Membership
             /\ OffTeam(members[m]).user = members[m].user
             /\ OffTeam(members[m]).dept = members[m].dept
             /\ OffTeam(members[m]).team = None
  BY RowFields DEF OffTeam, Membership
<1>3. ASSUME NEW m \in Id
      PROVE  /\ members'[m] \in Membership \cup {None}
             /\ m \in Live' => /\ m \in Live /\ m \notin gone
                               /\ members'[m].user = members[m].user
                               /\ members'[m].dept = members[m].dept
                               /\ members'[m].team = None \/ home'[members'[m].team] # None
  <2>0. members'[m] = IF m \in gone THEN None
                      ELSE IF m \in Live /\ members[m].team \in teams THEN OffTeam(members[m])
                      ELSE members[m]
    BY DEF Drop
  <2>1. CASE m \in gone \/ m \notin Live
    BY <2>0, <2>1 DEF Live
  <2>2. CASE m \in Live \ gone /\ members[m].team \in teams
    <3>1. members'[m] = OffTeam(members[m])
      BY <2>0, <2>2
    <3> QED BY <3>1, <1>2, <2>2 DEF Live
  <2>3. CASE m \in Live \ gone /\ members[m].team \notin teams
    <3>1. members'[m] = members[m]
      BY <2>0, <2>3
    <3>2. members[m].team = None \/ home'[members[m].team] # None
      BY <1>1, <2>3, RowFields DEF Exists
    <3> QED BY <2>3, <3>1, <3>2, RowFields DEF Live
  <2> QED BY <2>1, <2>2, <2>3
<1>4. members' \in [Id -> Membership \cup {None}]
  BY <1>3 DEF Drop
<1> QED BY <1>1, <1>3, <1>4 DEF Settled, Live

(* What is left of TypeOK once the columns have been looked at. *)
LEMMA Typed ==
  ASSUME TypeOK, NEW w \in Worker, Moves(w),
         depts' \subseteq Dept, home' \in [Team -> depts' \cup {None}],
         lead' \in [Team -> User \cup {None}], head' \in [Dept -> User \cup {None}],
         members' \in [Id -> Membership \cup {None}], stale' \subseteq User,
         \A m \in Live' : /\ members'[m].dept \in depts'
                          /\ members'[m].team = None \/ home'[members'[m].team] # None
  PROVE  TypeOK'
BY DEF TypeOK, Moves, Live, Exists

LEMMA MovedType == Moved \subseteq User
BY DEF Moved

-----------------------------------------------------------------------------
Unique == Inv /\ OneMembershipPerDept

LEMMA CommitWriteKeeps ==
  ASSUME Unique, NEW w \in Worker, CommitWrite(w)
  PROVE  Unique'
<1> DEFINE p == req[w]
           m == p.row
<1> USE DEF Unique, Inv
<1>1. Moves(w)
  BY PlanFields, CommittedMoves DEF CommitWrite
<1>2. /\ lead' \in [Team -> User \cup {None}] /\ head' \in [Dept -> User \cup {None}]
      /\ depts' = depts /\ home' = home /\ stale' \subseteq User /\ CanWrite(p)
  BY HandOverType, MovedType DEF CommitWrite, TypeOK
<1>3. CASE ~Writes(p)
  <2>1. members' = members
    BY <1>3 DEF CommitWrite
  <2>2. TypeOK'
    BY <1>1, <1>2, <2>1, Typed, RowFields DEF TypeOK, Live, Exists
  <2>3. PlansFit'
    BY <1>1, <2>1, MovesFit DEF Live
  <2> QED BY <2>1, <2>2, <2>3 DEF OneMembershipPerDept, Live
<1>4. CASE Writes(p)
  <2>1. m \in Live /\ members' = [members EXCEPT ![m] = Updated(members[m], p)]
    BY <1>2, <1>4 DEF CommitWrite, CanWrite
  <2>2. p \in Plan /\ members[m] \in Membership /\ m \in Id
    BY <2>1, RowFields DEF TypeOK
  <2>3. /\ Updated(members[m], p) \in Membership
        /\ Updated(members[m], p).user = members[m].user
        /\ Updated(members[m], p).dept = IF p.dept = Keep THEN members[m].dept ELSE p.dept
        /\ Updated(members[m], p).team = IF p.team = Keep THEN members[m].team ELSE p.team
    BY <2>2, UpdatedType
  <2>4. /\ members' \in [Id -> Membership \cup {None}]
        /\ members'[m] = Updated(members[m], p)
        /\ \A n \in Id \ {m} : members'[n] = members[n]
    BY <2>1, <2>2, <2>3 DEF TypeOK
  <2>5. Live' \subseteq Live /\ \A n \in Live' : members'[n].user = members[n].user
    BY <2>1, <2>2, <2>3, <2>4 DEF Live
  <2>6. \A n \in Live' : /\ members'[n].dept \in depts
                         /\ members'[n].team = None \/ home'[members'[n].team] # None
    <3>1. members'[m].dept \in depts
      BY <1>2, <2>1, <2>3, <2>4, RowFields DEF CanWrite
    <3>2. members'[m].team = None \/ home'[members'[m].team] # None
      BY <1>2, <1>4, <2>1, <2>3, <2>4, RowFields, PlanFields DEF CanWrite, Exists
    <3>3. \A n \in Live' \ {m} : /\ members'[n].dept \in depts
                                 /\ members'[n].team = None \/ home'[members'[n].team] # None
      BY <1>2, <2>4, <2>5, RowFields DEF Exists, Live
    <3> QED BY <3>1, <3>2, <3>3
  <2>7. TypeOK'
    BY <1>1, <1>2, <2>4, <2>6, Typed DEF TypeOK
  <2>8. PlansFit'
    BY <1>1, <2>5, MovesFit
  <2>9. members[m].user = p.user
    BY <2>1 DEF PlansFit, CommitWrite
  <2>10. \A n \in Live \ {m} : members[n].user = members'[m].user => members[n].dept # members'[m].dept
    <3>1. CASE p.dept = Keep
      BY <2>1, <2>3, <2>4, <3>1 DEF OneMembershipPerDept
    <3>2. CASE p.dept # Keep
      BY <1>2, <2>3, <2>4, <2>9, <3>2 DEF CanWrite, At, Of
    <3> QED BY <3>1, <3>2
  <2>11. OneMembershipPerDept'
    BY <2>4, <2>5, <2>10 DEF OneMembershipPerDept, Live
  <2> QED BY <2>7, <2>8, <2>11
<1> QED BY <1>3, <1>4

LEMMA CommitRemoveKeeps ==
  ASSUME Unique, NEW w \in Worker, CommitRemove(w)
  PROVE  Unique'
<1> USE DEF Unique, Inv
<1>1. Moves(w)
  BY CommittedMoves DEF CommitRemove
<1>2. /\ lead' \in [Team -> User \cup {None}] /\ head' \in [Dept -> User \cup {None}]
      /\ depts' = depts /\ home' = home /\ stale' \subseteq User
  BY HandOverType, MovedType DEF CommitRemove, TypeOK
<1>3. members' \in [Id -> Membership \cup {None}] /\ \A n \in Live' : n \in Live /\ members'[n] = members[n]
  BY DEF CommitRemove, TypeOK, Live
<1>4. TypeOK'
  BY <1>1, <1>2, <1>3, Typed, RowFields DEF TypeOK, Exists
<1>5. PlansFit'
  BY <1>1, <1>3, MovesFit
<1> QED BY <1>3, <1>4, <1>5, SettledKeeps DEF Settled

(* add_member and accept_invite insert alike. *)
LEMMA InsertKeeps ==
  ASSUME Unique, NEW w \in Worker, req[w].pc \in {"insert", "join"}, CanInsert(req[w]),
         NEW m \in FreshId, members' = [members EXCEPT ![m] = NewMembership(req[w])],
         Moves(w), UNCHANGED <<depts, home, lead, head>>, stale' \subseteq User
  PROVE  Unique'
<1> DEFINE p == req[w]
           new == NewMembership(p)
<1> USE DEF Unique, Inv
<1>1. /\ p.user \in User /\ p.dept \in depts /\ p.role \in Role
      /\ p.team = None \/ (p.team \in Team /\ Exists(p.team))
  BY DEF PlansFit, CanInsert
<1>2. /\ new \in Membership
      /\ new.user = p.user /\ new.dept = p.dept /\ new.team = p.team
  BY <1>1 DEF NewMembership, Membership, TypeOK
<1>3. m \in Id /\ m \notin Live /\ \A v \in Worker : req[v].row # m
  BY DEF FreshId, Live
<1> HIDE DEF new
<1>4. /\ members' \in [Id -> Membership \cup {None}]
      /\ members'[m] = new /\ \A n \in Id \ {m} : members'[n] = members[n]
  BY <1>2, <1>3 DEF TypeOK, new
<1>5. \A n \in Live' : n = m \/ (n \in Live /\ members'[n] = members[n])
  BY <1>4 DEF Live
<1>6. TypeOK'
  <2>1. \A n \in Live' : /\ members'[n].dept \in depts
                         /\ members'[n].team = None \/ home'[members'[n].team] # None
    BY <1>1, <1>2, <1>4, <1>5, RowFields DEF Exists
  <2>2. /\ depts' \subseteq Dept /\ home' \in [Team -> depts' \cup {None}]
        /\ lead' \in [Team -> User \cup {None}] /\ head' \in [Dept -> User \cup {None}]
        /\ depts' = depts
    BY DEF TypeOK
  <2>3. \A n \in Live' : /\ members'[n].dept \in depts'
                         /\ members'[n].team = None \/ home'[members'[n].team] # None
    BY <2>1, <2>2
  <2> QED BY <1>4, <2>2, <2>3, Typed
<1>7. PlansFit'
  BY <1>3, <1>5, MovesFit
<1>8. OneMembershipPerDept'
  BY <1>2, <1>4, <1>5 DEF OneMembershipPerDept, CanInsert, At, Of
<1> QED BY <1>6, <1>7, <1>8

LEMMA CommitInsertKeeps ==
  ASSUME Unique, NEW w \in Worker, CommitInsert(w)
  PROVE  Unique'
<1>1. PICK m \in FreshId : /\ members' = [members EXCEPT ![m] = NewMembership(req[w])]
                           /\ Committed(w, m)
  BY DEF CommitInsert
<1>2. m \in Id
  BY DEF FreshId
<1>3. Moves(w)
  BY <1>1, <1>2, CommittedMoves DEF Unique, Inv
<1>4. stale' \subseteq User
  BY DEF CommitInsert, Unique, Inv, TypeOK, PlansFit
<1>5. req[w].pc = "insert" /\ CanInsert(req[w]) /\ UNCHANGED <<depts, home, lead, head>>
  BY DEF CommitInsert
<1> QED BY <1>1, <1>3, <1>4, <1>5, InsertKeeps

LEMMA CommitJoinKeeps ==
  ASSUME Unique, NEW w \in Worker, CommitJoin(w)
  PROVE  Unique'
<1>1. PICK m \in FreshId : members' = [members EXCEPT ![m] = NewMembership(req[w])]
  BY DEF CommitJoin
<1>2. Moves(w)
  BY FinishMoves DEF CommitJoin, Unique, Inv
<1>3. stale' \subseteq User
  BY DEF CommitJoin, Unique, Inv, TypeOK
<1>4. req[w].pc = "join" /\ CanInsert(req[w]) /\ UNCHANGED <<depts, home, lead, head>>
  BY DEF CommitJoin
<1> QED BY <1>1, <1>2, <1>3, <1>4, InsertKeeps

LEMMA DropTeamKeeps ==
  ASSUME Unique, NEW w \in Worker, CommitDropTeam(w)
  PROVE  Unique'
<1> USE DEF Unique, Inv
<1>1. Moves(w)
  BY CommittedMoves DEF CommitDropTeam
<1>2. req[w].led \in SUBSET Team /\ Drop(req[w].led, {})
  BY PlanFields DEF CommitDropTeam
<1> DEFINE ts == req[w].led
<1>0. ts \in SUBSET Team /\ {} \in SUBSET Id /\ Drop(ts, {})
  BY <1>2
<1> HIDE DEF ts
<1>3. /\ home' \in [Team -> depts \cup {None}] /\ lead' \in [Team -> User \cup {None}]
      /\ members' \in [Id -> Membership \cup {None}] /\ Settled
      /\ \A m \in Live' : members'[m].team = None \/ home'[members'[m].team] # None
  BY <1>0, DropRows
<1>4. depts' = depts /\ head' = head /\ stale' \subseteq User
  BY MovedType DEF CommitDropTeam, TypeOK
<1>5. TypeOK'
  BY <1>1, <1>3, <1>4, Typed, RowFields DEF TypeOK, Settled
<1>6. PlansFit'
  BY <1>1, <1>3, MovesFit DEF Settled
<1> QED BY <1>3, <1>5, <1>6, SettledKeeps

LEMMA DropDepartmentKeeps ==
  ASSUME Unique, NEW w \in Worker, CommitDropDepartment(w)
  PROVE  Unique'
<1> DEFINE d == req[w].heads
<1> USE DEF Unique, Inv
<1>1. Moves(w)
  BY FinishMoves DEF CommitDropDepartment
<1>2. Teams(d) \in SUBSET Team /\ Of(d) \in SUBSET Id /\ Drop(Teams(d), Of(d))
  BY DEF CommitDropDepartment, Teams, Of, Live
<1> DEFINE ts == Teams(d)
           ms == Of(d)
<1>0. ts \in SUBSET Team /\ ms \in SUBSET Id /\ Drop(ts, ms)
  BY <1>2
<1> HIDE DEF ts, ms
<1>r. /\ home' \in [Team -> depts \cup {None}] /\ lead' \in [Team -> User \cup {None}]
      /\ \A t \in Team : home'[t] = IF t \in ts THEN None ELSE home[t]
      /\ members' \in [Id -> Membership \cup {None}] /\ Settled /\ Live' \cap ms = {}
      /\ \A m \in Live' : members'[m].team = None \/ home'[members'[m].team] # None
  BY <1>0, DropRows
<1>3. /\ home' \in [Team -> depts \cup {None}] /\ lead' \in [Team -> User \cup {None}]
      /\ \A t \in Team : home'[t] = IF t \in Teams(d) THEN None ELSE home[t]
      /\ members' \in [Id -> Membership \cup {None}] /\ Settled /\ Live' \cap Of(d) = {}
      /\ \A m \in Live' : members'[m].team = None \/ home'[members'[m].team] # None
  BY <1>r DEF ts, ms
<1>4. depts' = depts \ {d} /\ head' = [head EXCEPT ![d] = None] /\ stale' \subseteq User
  BY MovedType DEF CommitDropDepartment, TypeOK
<1>5. home' \in [Team -> depts' \cup {None}]
  <2>1. ASSUME NEW t \in Team PROVE home'[t] \in depts' \cup {None}
    BY <1>3, <1>4 DEF Teams, TypeOK
  <2> QED BY <1>3, <2>1
<1>6. \A m \in Live' : members'[m].dept \in depts'
  BY <1>3, <1>4, RowFields DEF Settled, Of
<1>7. head' \in [Dept -> User \cup {None}] /\ depts' \subseteq Dept
  BY <1>4 DEF TypeOK
<1>8. TypeOK'
  BY <1>1, <1>3, <1>4, <1>5, <1>6, <1>7, Typed
<1>9. PlansFit'
  BY <1>1, <1>3, MovesFit DEF Settled
<1> QED BY <1>3, <1>8, <1>9, SettledKeeps

LEMMA RestKeeps ==
  ASSUME Unique, NEW w \in Worker, CommitFails(w) \/ Bump(w) \/ BumpLost(w)
  PROVE  Unique'
<1> USE DEF Unique, Inv
<1>1. Moves(w)
  BY FinishMoves DEF CommitFails, Bump, BumpLost
<1>2. UNCHANGED Rows /\ stale' \subseteq User
  BY DEF CommitFails, Bump, BumpLost, Unchanged, TypeOK
<1>3. TypeOK'
  BY <1>1, <1>2 DEF TypeOK, Moves, Rows, Live, Exists
<1>4. PlansFit'
  BY <1>1, <1>2, MovesFit DEF Rows, Live
<1> QED BY <1>2, <1>3, <1>4 DEF OneMembershipPerDept, Rows, Live

-----------------------------------------------------------------------------
LEMMA InitUnique == Init => Unique
<1> SUFFICES ASSUME Init PROVE Unique
  OBVIOUS
<1>1. PICK running \in SUBSET Worker :
        req = [w \in Worker |-> Nothing(IF w \in running THEN "idle" ELSE "off")]
  BY DEF Init
<1>2. \A w \in Worker : req[w] \in Plan /\ req[w].pc \in {"idle", "off"}
  BY <1>1, NothingType DEF Pc
<1>3. req \in [Worker -> Plan]
  BY <1>1, <1>2
<1>4. Live = {}
  BY DEF Init, Live
<1> QED BY <1>2, <1>3, <1>4 DEF Init, Unique, Inv, TypeOK, PlansFit, OneMembershipPerDept

LEMMA NextUnique == Unique /\ [Next]_vars => Unique'
<1> SUFFICES ASSUME Unique, [Next]_vars PROVE Unique'
  OBVIOUS
<1>1. CASE UNCHANGED vars
  BY <1>1 DEF vars, Unique, Inv, TypeOK, PlansFit, OneMembershipPerDept, Live, Exists
<1>2. ASSUME NEW w \in Worker, Reads(w) PROVE Unique'
  BY <1>2, PlanningKeeps DEF Unique, OneMembershipPerDept, Live
<1>3. ASSUME NEW w \in Worker, Commits(w) PROVE Unique'
  BY <1>3, CommitWriteKeeps, CommitRemoveKeeps, CommitInsertKeeps, CommitJoinKeeps,
     DropTeamKeeps, DropDepartmentKeeps, RestKeeps DEF Commits
<1>4. ASSUME NEW w \in Worker, Bump(w) \/ BumpLost(w) PROVE Unique'
  BY <1>4, RestKeeps
<1> QED BY <1>1, <1>2, <1>3, <1>4 DEF Next

(* The columns keep their types and every reference between rows finds its *)
(* row, whatever requests overlap: the cascades of delete_team and         *)
(* delete_department leave no team_id and no dept_id behind.               *)
THEOREM DirectoryTypes == Spec => []TypeOK
<1>1. Unique => TypeOK
  BY DEF Unique, Inv
<1> QED BY <1>1, InitUnique, NextUnique, PTL DEF Spec

(* Nobody has two memberships in a department, however many requests race  *)
(* to add and to move them.                                                *)
THEOREM NobodyTwice == Spec => []OneMembershipPerDept
<1>1. Unique => OneMembershipPerDept
  BY DEF Unique
<1> QED BY <1>1, InitUnique, NextUnique, PTL DEF Spec
-----------------------------------------------------------------------------
(* One request at a time.  What a plan was checked against is still so     *)
(* when it commits; so the plan says enough, by itself, for the commit to  *)
(* leave the directory sound.                                              *)

(* Leaders and heads qualify, teams are of the member's own department,    *)
(* and an id that is not in use is led by nobody.                          *)
LedByOwn ==
  \A t \in Team : Exists(t) /\ lead[t] # None =>
    \E m \in At(lead[t], home[t]) : members[m].role \in Leading
HeadedByAdmin ==
  \A d \in depts : head[d] # None => \E m \in At(head[d], d) : members[m].role = "admin"
OnOwnTeam ==
  \A m \in Live : members[m].team # None => home[members[m].team] = members[m].dept
NoGhostLeads ==
  /\ \A t \in Team : ~Exists(t) => lead[t] = None
  /\ \A d \in Dept \ depts : head[d] = None
RowsSound == LedByOwn /\ HeadedByAdmin /\ OnOwnTeam /\ NoGhostLeads

(* The row a plan names stays in its department, with one of these roles. *)
RowStays(p, roles) == p.pc = "write" /\ p.dept = Keep /\ p.role \in roles \cup {Keep}

(* Who takes over qualifies, by a row the plan does not touch. *)
HandsSound(p) ==
  /\ \A t \in p.led : Exists(t) /\ {lead[t], p.to} \ {None} \subseteq p.bump
  /\ p.heads # None => p.heads \in depts
  /\ p.to # None =>
       /\ \A t \in p.led : \E m \in At(p.to, home[t]) \ {p.row} : members[m].role \in Leading
       /\ p.heads # None => \E m \in At(p.to, p.heads) \ {p.row} : members[m].role = "admin"

(* Whoever loses a role, or a department, leads and heads nothing there    *)
(* that is not handed over, and is not its last admin unless it empties.   *)
RowSound(p) ==
  LET m == p.row
      d == members[m].dept
      u == members[m].user
  IN  /\ m \in Live /\ u \in p.bump
      /\ \A t \in Teams(d) \ p.led : lead[t] = u => RowStays(p, Leading)
      /\ head[d] = u /\ p.heads # d => RowStays(p, {"admin"})
      /\ members[m].role = "admin" =>
           \/ RowStays(p, {"admin"})
           \/ \E n \in Admins(d) : n # m
           \/ p.dept # Keep /\ Of(d) = {m}
      /\ p.dept # Keep => p.dept # d /\ (p.team = None \/ (p.team = Keep /\ members[m].team = None))
      /\ p.dept = Keep /\ p.team \in Team => home[p.team] = d

PlanSound(p) ==
  /\ p.pc \in {"insert", "join"} =>
       /\ p.user \in p.bump
       /\ p.team \in Team => home[p.team] = p.dept
  /\ p.pc \in {"write", "remove"} =>
       /\ HandsSound(p)
       /\ p.row # None => RowSound(p)
       /\ p.row = None => p.pc = "write" /\ (p.team \in Team => Exists(p.team))
  /\ p.pc = "dropTeam" =>
       /\ \A t \in p.led : {lead[t]} \ {None} \subseteq p.bump
       /\ \A m \in Live : members[m].team \in p.led => members[m].user \in p.bump
  /\ p.pc = "dropDept" => Of(p.heads) = {}
  /\ p.pc = "bump" => Refreshes(p)

StaleCovered == \A u \in stale : \E w \in Worker : req[w].pc = "bump" /\ u \in req[w].bump

Sound == RowsSound /\ StaleCovered /\ \A w \in Worker : PlanSound(req[w])

Serially == Unique /\ (Alone => Sound)

(* What every plan carries. *)
LEMMA TodoHands ==
  ASSUME NEW pc, NEW m, NEW u, NEW d, NEW t, NEW r, NEW h
  PROVE  LET p == Todo(pc, m, u, d, t, r, h)
         IN  p.led = h.led /\ p.heads = h.heads /\ p.to = h.to /\ p.bump = h.bump
BY DEF Todo

LEMMA HandsFields ==
  ASSUME NEW led, NEW heads, NEW to, NEW bump
  PROVE  LET h == Hands(led, heads, to, bump)
         IN  h.led = led /\ h.heads = heads /\ h.to = to /\ h.bump = bump
BY DEF Hands

LEMMA BumpsFields ==
  ASSUME NEW users
  PROVE  /\ Bumps(users).led = {} /\ Bumps(users).heads = None
         /\ Bumps(users).to = None /\ Bumps(users).bump = users
BY DEF Bumps, Hands

(* What _handover promises of its answer for the holder of row m.          *)
HandsOver(m, losesTeams, losesHead, h) ==
  LET d == members[m].dept
      u == members[m].user
  IN  /\ \A t \in h.led : t \in Teams(d) /\ lead[t] = u
      /\ losesTeams => \A t \in Teams(d) : lead[t] = u => t \in h.led
      /\ h.heads \in {None, d}
      /\ losesHead /\ head[d] = u => h.heads = d
      /\ h.to # None =>
           /\ h.to # u
           /\ h.led # {} => h.to \in h.bump
           /\ \E n \in At(h.to, d) : members[n].role \in Leading
           /\ h.heads # None => \E n \in At(h.to, d) : members[n].role = "admin"

LEMMA HandoverSound ==
  ASSUME TypeOK, NEW m \in Live, NEW losesTeams, NEW losesHead,
         NEW h \in Handover(members[m].dept, members[m].user, losesTeams, losesHead)
  PROVE  HandsOver(m, losesTeams, losesHead, h)
<1> DEFINE d == members[m].dept
           u == members[m].user
           led == {t \in Teams(d) : losesTeams /\ lead[t] = u}
           heads == losesHead /\ head[d] = u
           fit == {r \in User \ {u} : \E n \in At(r, d) :
                     members[n].role \in IF heads THEN {"admin"} ELSE Leading}
           bump(to) == IF to = None \/ led = {} THEN {} ELSE {to}
<1>1. d \in Dept /\ u \in User /\ d # None
  BY RowFields, SentinelAssumption
<1>2. PICK to \in fit \cup {None} : h = Hands(led, IF heads THEN d ELSE None, to, bump(to))
  BY DEF Handover
<1>3. h.led = led /\ h.heads = (IF heads THEN d ELSE None) /\ h.to = to /\ h.bump = bump(to)
  BY <1>2, HandsFields
<1>4. to # None => to \in fit
  OBVIOUS
<1>5. "admin" \in Leading
  BY DEF Leading
<1> HIDE DEF bump
<1>6. to # None /\ led # {} => to \in bump(to)
  BY DEF bump
<1>7. to # None => /\ \E n \in At(to, d) : members[n].role \in Leading
                   /\ heads => \E n \in At(to, d) : members[n].role = "admin"
  BY <1>4, <1>5
<1>8. h.to # None =>
           /\ h.to # u
           /\ h.led # {} => h.to \in h.bump
           /\ \E n \in At(h.to, d) : members[n].role \in Leading
           /\ h.heads # None => \E n \in At(h.to, d) : members[n].role = "admin"
  BY <1>3, <1>4, <1>6, <1>7
<1> QED BY <1>1, <1>3, <1>8 DEF HandsOver

(* A plan to change or remove row m is sound if whoever it strips of teams *)
(* or of the department hands them over.                                   *)
LEMMA RowPlan ==
  ASSUME TypeOK, NEW m \in Live, NEW losesTeams \in BOOLEAN, NEW losesHead \in BOOLEAN, NEW p,
         p.pc \in {"write", "remove"}, p.row = m, members[m].user \in p.bump,
         HandsOver(m, losesTeams, losesHead, p),
         ~losesTeams => RowStays(p, Leading), ~losesHead => RowStays(p, {"admin"}),
         members[m].role = "admin" =>
           \/ RowStays(p, {"admin"})
           \/ \E n \in Admins(members[m].dept) : n # m
           \/ p.dept # Keep /\ Of(members[m].dept) = {m},
         p.dept # Keep => p.dept # members[m].dept /\ (p.team = None \/ (p.team = Keep /\ members[m].team = None)),
         p.dept = Keep /\ p.team \in Team => home[p.team] = members[m].dept
  PROVE  PlanSound(p)
<1> DEFINE d == members[m].dept
           u == members[m].user
<1>1. m \in Id /\ m # None /\ d \in depts /\ d # None
  BY RowFields, SentinelAssumption DEF TypeOK
<1>2. \A n \in At(p.to, d) : p.to # u => n # m
  BY DEF At
<1>3. \A t \in p.led : home[t] = d /\ t \in Team /\ lead[t] = u
  BY DEF HandsOver, Teams
<1>4. HandsSound(p)
  <2>1. \A t \in p.led : Exists(t) /\ {lead[t], p.to} \ {None} \subseteq p.bump
    BY <1>1, <1>3 DEF HandsOver, Exists
  <2>2. p.heads # None => p.heads \in depts /\ p.heads = d
    BY <1>1 DEF HandsOver
  <2>3. p.to # None =>
          /\ \A t \in p.led : \E n \in At(p.to, home[t]) \ {p.row} : members[n].role \in Leading
          /\ p.heads # None => \E n \in At(p.to, p.heads) \ {p.row} : members[n].role = "admin"
    BY <1>2, <1>3, <2>2 DEF HandsOver
  <2> QED BY <2>1, <2>2, <2>3 DEF HandsSound
<1>5. RowSound(p)
  <2>1. \A t \in Teams(d) \ p.led : lead[t] = u => RowStays(p, Leading)
    BY DEF HandsOver
  <2>2. head[d] = u /\ p.heads # d => RowStays(p, {"admin"})
    BY DEF HandsOver
  <2> QED BY <2>1, <2>2 DEF RowSound
<1> QED BY <1>1, <1>4, <1>5 DEF PlanSound

-----------------------------------------------------------------------------
(* Every handler leaves a sound plan.                                      *)
Plans(w) == \E plan : Begin(w, plan) /\ Unchanged /\ plan.pc # "off" /\ PlanSound(plan)

LEMMA OnRowFields ==
  ASSUME NEW pc, NEW m, NEW d, NEW t, NEW r, NEW h
  PROVE  LET p == OnRow(pc, m, d, t, r, h)
         IN  /\ p.pc = pc /\ p.row = m /\ p.dept = d /\ p.team = t /\ p.role = r
             /\ p.led = h.led /\ p.heads = h.heads /\ p.to = h.to
             /\ p.bump = h.bump \cup {members[m].user}
<1> DEFINE g == Hands(h.led, h.heads, h.to, h.bump \cup {members[m].user})
<1>1. /\ g.led = h.led /\ g.heads = h.heads /\ g.to = h.to
      /\ g.bump = h.bump \cup {members[m].user}
  BY HandsFields
<1>2. OnRow(pc, m, d, t, r, h) = Todo(pc, m, members[m].user, d, t, r, g)
  BY DEF OnRow
<1> HIDE DEF g
<1> QED BY <1>1, <1>2, TodoFields, TodoHands

(* RowPlan, for the plans that OnRow puts together. *)
LEMMA OnRowPlans ==
  ASSUME TypeOK, NEW w \in Worker, NEW pc \in {"write", "remove"}, NEW m \in Live, NEW d, NEW t, NEW r,
         NEW h, Begin(w, OnRow(pc, m, d, t, r, h)), Unchanged,
         NEW losesTeams \in BOOLEAN, NEW losesHead \in BOOLEAN,
         HandsOver(m, losesTeams, losesHead, h),
         ~losesTeams => pc = "write" /\ d = Keep /\ r \in Leading \cup {Keep},
         ~losesHead => pc = "write" /\ d = Keep /\ r \in {"admin", Keep},
         members[m].role = "admin" =>
           \/ pc = "write" /\ d = Keep /\ r \in {"admin", Keep}
           \/ \E n \in Admins(members[m].dept) : n # m
           \/ d # Keep /\ Of(members[m].dept) = {m},
         d # Keep => d # members[m].dept /\ (t = None \/ (t = Keep /\ members[m].team = None)),
         d = Keep /\ t \in Team => home[t] = members[m].dept
  PROVE  Plans(w)
<1> DEFINE p == OnRow(pc, m, d, t, r, h)
<1>1. /\ p.pc = pc /\ p.row = m /\ p.dept = d /\ p.team = t /\ p.role = r
      /\ p.led = h.led /\ p.heads = h.heads /\ p.to = h.to
      /\ p.bump = h.bump \cup {members[m].user}
  BY OnRowFields
<1>2. Begin(w, p)
  OBVIOUS
<1> HIDE DEF p
<1>3. HandsOver(m, losesTeams, losesHead, p)
  BY <1>1 DEF HandsOver
<1>4. /\ ~losesTeams => RowStays(p, Leading)
      /\ ~losesHead => RowStays(p, {"admin"})
      /\ p.pc = "write" /\ p.dept = Keep /\ p.role \in {"admin", Keep} => RowStays(p, {"admin"})
  BY <1>1 DEF RowStays
<1>5. PlanSound(p)
  BY <1>1, <1>3, <1>4, RowPlan
<1> QED BY <1>1, <1>2, <1>5 DEF Plans

LEMMA AdminElsewhere ==
  ASSUME TypeOK, NEW m \in Live, AnotherAdmin(members[m].user, members[m].dept)
  PROVE  \E n \in Admins(members[m].dept) : n # m
BY DEF AnotherAdmin

LEMMA RowHandlersPlan ==
  ASSUME Unique, NEW w \in Worker, NEW m \in Live,
         \/ \E r \in Role \cup {Keep}, t \in Team \cup {None, Keep} : UpdateMember(w, m, r, t)
         \/ \E d \in Dept : TransferMember(w, m, d)
         \/ RemoveMember(w, m) \/ RemoveTeamMember(w, m)
         \/ \E t \in Team : AddTeamMember(w, m, t)
  PROVE  Plans(w)
<1> USE DEF Unique, Inv
<1>1. /\ m \in Id /\ members[m].dept \in depts /\ members[m].dept \in Dept
      /\ members[m].team \in Team \cup {None} /\ members[m].role \in Role
  BY RowFields
<1>k. /\ Keep \notin Dept \cup Team /\ None \notin Dept \cup Team /\ Keep # None
      /\ Keep \notin Role
  BY SentinelAssumption DEF Role
<1>2. ASSUME NEW r \in Role \cup {Keep}, NEW t \in Team \cup {None, Keep}, UpdateMember(w, m, r, t)
      PROVE  Plans(w)
  <2> DEFINE moves == r \notin {Keep, members[m].role}
             lt == moves /\ r \notin Leading
             lh == moves /\ r # "admin"
             t2 == Written(t, members[m].team)
             r2 == Written(r, members[m].role)
  <2>1. PICK h \in Handover(members[m].dept, members[m].user, lt, lh) :
          Begin(w, OnRow("write", m, Keep, t2, r2, h))
    BY <1>2 DEF UpdateMember
  <2>2. HandsOver(m, lt, lh, h)
    BY <2>1, HandoverSound
  <2>3. moves /\ members[m].role = "admin" => \E n \in Admins(members[m].dept) : n # m
    BY <1>2, AdminElsewhere DEF UpdateMember
  <2>4. r2 \in {r, Keep} /\ (~moves => r2 = Keep)
    BY DEF Written
  <2>5. t2 \in {t, Keep} /\ (t \in Team => home[t] = members[m].dept)
    BY <1>2, <1>k DEF UpdateMember, Written, Teams
  <2>6. Unchanged
    BY <1>2 DEF UpdateMember
  <2>7. lt \in BOOLEAN /\ lh \in BOOLEAN
    OBVIOUS
  <2>8. /\ ~lt => r2 \in Leading \cup {Keep}
        /\ ~lh => r2 \in {"admin", Keep}
        /\ members[m].role = "admin" => r2 \in {"admin", Keep} \/ \E n \in Admins(members[m].dept) : n # m
    BY <2>3, <2>4
  <2>9. t2 \in Team => home[t2] = members[m].dept
    BY <2>5, <1>k
  <2> HIDE DEF lt, lh, t2, r2
  <2> QED BY <2>1, <2>2, <2>6, <2>7, <2>8, <2>9, OnRowPlans
<1>3. ASSUME NEW d \in Dept, TransferMember(w, m, d)
      PROVE  Plans(w)
  <2> DEFINE t2 == Written(None, members[m].team)
  <2>1. PICK h \in Handover(members[m].dept, members[m].user, TRUE, TRUE) :
          Begin(w, OnRow("write", m, d, t2, Keep, h))
    BY <1>3 DEF TransferMember
  <2>2. HandsOver(m, TRUE, TRUE, h)
    BY <2>1, HandoverSound
  <2>3. Of(members[m].dept) \subseteq At(members[m].user, members[m].dept) => Of(members[m].dept) = {m}
    BY DEF At, Of, OneMembershipPerDept
  <2>4. members[m].role = "admin" =>
           \/ \E n \in Admins(members[m].dept) : n # m
           \/ d # Keep /\ Of(members[m].dept) = {m}
    BY <1>3, <1>k, <2>3, AdminElsewhere DEF TransferMember
  <2>5. d # Keep /\ d # members[m].dept /\ Unchanged
    BY <1>3, <1>k DEF TransferMember
  <2>6. t2 = None \/ (t2 = Keep /\ members[m].team = None)
    BY DEF Written
  <2> HIDE DEF t2
  <2>7. /\ d # Keep => d # members[m].dept /\ (t2 = None \/ (t2 = Keep /\ members[m].team = None))
        /\ ~(d = Keep /\ t2 \in Team)
    BY <2>5, <2>6
  <2>8. Begin(w, OnRow("write", m, d, t2, Keep, h)) /\ Unchanged
    BY <2>1, <2>5
  <2>9. /\ ~TRUE => "write" = "write" /\ d = Keep /\ Keep \in Leading \cup {Keep}
        /\ ~TRUE => "write" = "write" /\ d = Keep /\ Keep \in {"admin", Keep}
        /\ members[m].role = "admin" =>
             \/ "write" = "write" /\ d = Keep /\ Keep \in {"admin", Keep}
             \/ \E n \in Admins(members[m].dept) : n # m
             \/ d # Keep /\ Of(members[m].dept) = {m}
        /\ d = Keep /\ t2 \in Team => home[t2] = members[m].dept
        /\ TRUE \in BOOLEAN /\ "write" \in {"write", "remove"}
    BY <2>4, <2>7
  <2> QED BY <2>2, <2>7, <2>8, <2>9, OnRowPlans, Zenon
<1>4. CASE RemoveMember(w, m)
  <2>1. PICK h \in Handover(members[m].dept, members[m].user, TRUE, TRUE) :
          Begin(w, OnRow("remove", m, Keep, Keep, Keep, h))
    BY <1>4 DEF RemoveMember
  <2>2. HandsOver(m, TRUE, TRUE, h)
    BY <2>1, HandoverSound
  <2>3. members[m].role = "admin" => \E n \in Admins(members[m].dept) : n # m
    BY <1>4, AdminElsewhere DEF RemoveMember
  <2>4. Unchanged /\ Keep \notin Team
    BY <1>4, <1>k DEF RemoveMember
  <2> QED BY <2>1, <2>2, <2>3, <2>4, OnRowPlans
<1>h. HandsOver(m, FALSE, FALSE, Bumps({}))
  BY BumpsFields DEF HandsOver
<1>5. CASE RemoveTeamMember(w, m)
  <2>1. Begin(w, OnRow("write", m, Keep, None, Keep, Bumps({}))) /\ Unchanged
    BY <1>5 DEF RemoveTeamMember
  <2>2. Bumps({}).bump = {} /\ None \notin Team
    BY BumpsFields, <1>k
  <2> QED BY <2>1, <2>2, <1>h, OnRowPlans
<1>6. ASSUME NEW t \in Team, AddTeamMember(w, m, t)
      PROVE  Plans(w)
  <2> DEFINE t2 == Written(t, members[m].team)
  <2>1. Begin(w, OnRow("write", m, Keep, t2, Keep, Bumps({}))) /\ Unchanged
    BY <1>6 DEF AddTeamMember
  <2>2. t2 \in Team => home[t2] = members[m].dept
    BY <1>6, <1>k DEF AddTeamMember, Written
  <2> HIDE DEF t2
  <2> QED BY <2>1, <2>2, <1>h, OnRowPlans
<1> QED BY <1>2, <1>3, <1>4, <1>5, <1>6

(* The other handlers name no row, or a new one. *)
LEMMA OtherHandlersPlan ==
  ASSUME Unique, NEW w \in Worker,
         \/ \E u \in User, d \in Dept, t \in Team \cup {None}, r \in Role : AddMember(w, u, d, t, r)
         \/ \E d \in Dept, u \in User \cup {None} : SetHead(w, d, u)
         \/ \E t \in Team, u \in User \cup {None} : SetManager(w, t, u)
         \/ \E t \in Team : DeleteTeam(w, t)
         \/ \E d \in Dept : DeleteDepartment(w, d)
  PROVE  Plans(w)
<1> USE DEF Unique, Inv
<1>k. /\ Keep \notin Dept \cup Team /\ None \notin Dept \cup Team /\ Keep # None
      /\ Keep \notin Role /\ None \notin Live
  BY SentinelAssumption DEF Role, Live
<1>1. ASSUME NEW u \in User, NEW d \in Dept, NEW t \in Team \cup {None}, NEW r \in Role, AddMember(w, u, d, t, r)
      PROVE  Plans(w)
  <2>1. PICK pc \in {"insert", "join"} : Begin(w, Todo(pc, None, u, d, t, r, Bumps({u})))
    BY <1>1 DEF AddMember
  <2> DEFINE p == Todo(pc, None, u, d, t, r, Bumps({u}))
  <2>2. p.pc = pc /\ p.user = u /\ p.dept = d /\ p.team = t /\ p.bump = {u}
    BY TodoFields, TodoHands, BumpsFields
  <2>3. Begin(w, p) /\ Unchanged /\ (t \in Team => home[t] = d)
    BY <1>1, <1>k, <2>1 DEF AddMember, Teams
  <2> HIDE DEF p
  <2>4. PlanSound(p)
    BY <2>2, <2>3 DEF PlanSound
  <2> QED BY <2>2, <2>3, <2>4 DEF Plans
<1>2. ASSUME NEW d \in Dept, NEW u \in User \cup {None}, SetHead(w, d, u)
      PROVE  Plans(w)
  <2> DEFINE h == IF head[d] = u THEN None ELSE d
             p == Todo("write", None, None, Keep, Keep, Keep, Hands({}, h, u, {}))
  <2>1. Begin(w, p) /\ Unchanged
    BY <1>2 DEF SetHead
  <2>2. /\ p.pc = "write" /\ p.row = None /\ p.team = Keep
        /\ p.led = {} /\ p.heads = h /\ p.to = u
    BY TodoFields, TodoHands, HandsFields
  <2>3. h \in {None, d} /\ d \in depts /\ (u = None \/ \E m \in At(u, d) \ {None} : members[m].role = "admin")
    BY <1>2, <1>k DEF SetHead, At, Of
  <2> HIDE DEF p, h
  <2>4. HandsSound(p)
    BY <2>2, <2>3 DEF HandsSound
  <2>5. PlanSound(p)
    BY <2>2, <2>4, <1>k DEF PlanSound
  <2> QED BY <2>1, <2>2, <2>5 DEF Plans
<1>3. ASSUME NEW t \in Team, NEW u \in User \cup {None}, SetManager(w, t, u)
      PROVE  Plans(w)
  <2> DEFINE led == IF lead[t] = u THEN {} ELSE {t}
             told == {u, lead[t]} \ {None}
             p == Todo("write", None, None, Keep, t, Keep, Hands(led, None, u, told))
  <2>1. Begin(w, p) /\ Unchanged
    BY <1>3 DEF SetManager
  <2>2. /\ p.pc = "write" /\ p.row = None /\ p.team = t
        /\ p.led = led /\ p.heads = None /\ p.to = u /\ p.bump = told
    BY TodoFields, TodoHands, HandsFields
  <2>3. led \subseteq {t} /\ Exists(t) /\ (u = None \/ \E m \in At(u, home[t]) \ {None} : members[m].role \in Leading)
    BY <1>3, <1>k DEF SetManager, At, Of
  <2>t. {lead[t], u} \ {None} \subseteq told
    OBVIOUS
  <2> HIDE DEF p, led, told
  <2>4. HandsSound(p)
    BY <2>2, <2>3, <2>t DEF HandsSound
  <2>5. PlanSound(p)
    BY <2>2, <2>3, <2>4, <1>k DEF PlanSound
  <2> QED BY <2>1, <2>2, <2>5 DEF Plans
<1>4. ASSUME NEW t \in Team, DeleteTeam(w, t)
      PROVE  Plans(w)
  <2> DEFINE told == ({members[m].user : m \in {n \in Live : members[n].team = t}} \cup {lead[t]}) \ {None}
             p == Todo("dropTeam", None, None, Keep, Keep, Keep, Hands({t}, None, None, told))
  <2>1. Begin(w, p) /\ Unchanged
    BY <1>4 DEF DeleteTeam
  <2>2. p.pc = "dropTeam" /\ p.led = {t} /\ p.bump = told
    BY TodoFields, TodoHands, HandsFields
  <2>3. \A m \in Live : members[m].team = t => members[m].user \in told
    <3>1. \A m \in Live : members[m].user \in User /\ members[m].user # None
      BY RowFields, SentinelAssumption
    <3> QED BY <3>1
  <2>4. {lead[t]} \ {None} \subseteq told
    OBVIOUS
  <2> HIDE DEF p, told
  <2>5. PlanSound(p)
    BY <2>2, <2>3, <2>4 DEF PlanSound
  <2> QED BY <2>1, <2>2, <2>5 DEF Plans
<1>5. ASSUME NEW d \in Dept, DeleteDepartment(w, d)
      PROVE  Plans(w)
  <2> DEFINE p == Todo("dropDept", None, None, Keep, Keep, Keep, Hands({}, d, None, {}))
  <2>1. Begin(w, p) /\ Unchanged /\ Of(d) = {}
    BY <1>5 DEF DeleteDepartment
  <2>2. p.pc = "dropDept" /\ p.heads = d
    BY TodoFields, TodoHands, HandsFields
  <2> HIDE DEF p
  <2>3. PlanSound(p)
    BY <2>1, <2>2 DEF PlanSound
  <2> QED BY <2>1, <2>2, <2>3 DEF Plans
<1> QED BY <1>1, <1>2, <1>3, <1>4, <1>5

-----------------------------------------------------------------------------
(* Commits of sound plans.                                                 *)

(* A token says the same of its holder when the rows of the holder and the *)
(* teams the holder leads are what they were.                              *)
LEMMA ClaimsKept ==
  ASSUME NEW u,
         \A m \in Id : m \in Live /\ members[m].user = u <=> m \in Live' /\ members'[m].user = u,
         \A m \in Live : members[m].user = u =>
            /\ members'[m].dept = members[m].dept /\ members'[m].team = members[m].team
            /\ members'[m].role = members[m].role,
         \A t \in Team : Exists(t) /\ lead[t] = u <=> Exists(t)' /\ lead'[t] = u
  PROVE  Claims(u)' = Claims(u)
<1> DEFINE says(m) == [dept |-> members[m].dept, team |-> members[m].team, role |-> members[m].role]
           mine == {m \in Live : members[m].user = u}
           leads == {t \in Team : Exists(t) /\ lead[t] = u}
<1>1. mine' = mine
  BY DEF Live
<1>2. \A m \in mine : says(m)' = says(m)
  OBVIOUS
<1>3. leads' = leads
  OBVIOUS
<1>4. {says(m) : m \in mine}' = {says(m) : m \in mine}
  BY <1>1, <1>2
<1>5. Claims(u) = [memberships |-> {says(m) : m \in mine}, leads |-> leads]
  BY DEF Claims
<1>6. Claims(u)' = [memberships |-> {says(m) : m \in mine}', leads |-> leads']
  BY DEF Claims
<1> QED BY <1>3, <1>4, <1>5, <1>6

(* What the commit of a change or a removal does to the rows. *)
Changes(p) ==
  /\ UNCHANGED <<depts, home>> /\ HandOver(p)
  /\ \A n \in Id : n # p.row => members'[n] = members[n]
  /\ p.row \in Live' =>
       /\ p.row \in Live /\ p.pc = "write"
       /\ members'[p.row].user = members[p.row].user
       /\ members'[p.row].dept = IF p.dept = Keep THEN members[p.row].dept ELSE p.dept
       /\ members'[p.row].team = IF p.team = Keep THEN members[p.row].team ELSE p.team
       /\ members'[p.row].role = IF p.role = Keep THEN members[p.row].role ELSE p.role
  /\ p.pc = "write" /\ p.row \in Live => p.row \in Live'

AdminsKept == \A d \in Dept : Admins(d) # {} /\ Of(d)' # {} => Admins(d)' # {}

LEMMA ChangeKeeps ==
  ASSUME Unique, RowsSound, NEW p \in Plan, p.pc \in {"write", "remove"}, PlanSound(p), Changes(p)
  PROVE  RowsSound' /\ Moved \subseteq p.bump /\ AdminsKept
<1> USE DEF Unique, Inv
<1>1. /\ p.row \in Id \cup {None} /\ None \notin Id /\ Live \subseteq Id /\ Live' \subseteq Id
      /\ p.led \subseteq Team /\ p.to \in User \cup {None} /\ Keep \notin {None, "member", "manager", "admin"}
      /\ Keep \notin Team /\ None \notin Team /\ None \notin Dept /\ None \notin User
  BY SentinelAssumption DEF Plan, Live
<1>2. HandsSound(p) /\ (p.row # None => RowSound(p)) /\ (p.row # None => p.row \in Live)
  BY DEF PlanSound, RowSound
<1>3. \A n \in Id : n # p.row => (n \in Live <=> n \in Live') /\ members'[n] = members[n]
  BY DEF Changes, Live
<1>4. \A roles : RowStays(p, roles) /\ p.row # None /\ members[p.row].role \in roles =>
         p.row \in Live' /\ members'[p.row].dept = members[p.row].dept /\ members'[p.row].role \in roles
  BY <1>2 DEF RowStays, Changes
<1>5. /\ \A t \in Team : home'[t] = home[t] /\ lead'[t] = IF t \in p.led THEN p.to ELSE lead[t]
      /\ \A d \in Dept : head'[d] = IF d = p.heads THEN p.to ELSE head[d]
      /\ depts' = depts /\ depts \subseteq Dept
  BY DEF Changes, HandOver, TypeOK
<1>6. p.row \in Live' => members'[p.row].user = members[p.row].user
  BY DEF Changes
<1>r. \A n \in Live : /\ members[n].user \in User /\ members[n].dept \in depts
                      /\ members[n].team \in Team \cup {None}
  BY RowFields
<1>7. LedByOwn'
  <2> SUFFICES ASSUME NEW t \in Team, home[t] # None, lead'[t] # None
               PROVE  \E n \in Live' : members'[n].dept = home[t] /\ members'[n].user = lead'[t]
                                        /\ members'[n].role \in Leading
    BY <1>5 DEF LedByOwn, At, Of, Exists
  <2>1. CASE t \in p.led
    BY <2>1, <1>1, <1>2, <1>3, <1>5 DEF HandsSound, At, Of
  <2>2. CASE t \notin p.led
    <3>1. PICK n \in Live : members[n].dept = home[t] /\ members[n].user = lead[t] /\ members[n].role \in Leading
      BY <2>2, <1>5 DEF RowsSound, LedByOwn, At, Of, Exists
    <3>2. CASE n # p.row
      BY <3>1, <3>2, <2>2, <1>1, <1>3, <1>5
    <3>3. CASE n = p.row
      <4>1. RowStays(p, Leading)
        BY <3>1, <3>3, <2>2, <1>1, <1>2 DEF RowSound, Teams
      <4>2. p.row \in Live' /\ members'[p.row].dept = members[p.row].dept /\ members'[p.row].role \in Leading
        BY <4>1, <3>1, <3>3, <1>1, <1>4
      <4> QED BY <4>2, <3>1, <3>3, <2>2, <1>5, <1>6
    <3> QED BY <3>2, <3>3
  <2> QED BY <2>1, <2>2
<1>8. HeadedByAdmin'
  <2> SUFFICES ASSUME NEW d \in depts, head'[d] # None
               PROVE  \E n \in Live' : members'[n].dept = d /\ members'[n].user = head'[d]
                                        /\ members'[n].role = "admin"
    BY <1>5 DEF HeadedByAdmin, At, Of
  <2>0. d \in Dept /\ d # None
    BY <1>1, <1>5
  <2>1. CASE d = p.heads
    BY <2>0, <2>1, <1>1, <1>2, <1>3, <1>5 DEF HandsSound, At, Of
  <2>2. CASE d # p.heads
    <3>1. PICK n \in Live : members[n].dept = d /\ members[n].user = head[d] /\ members[n].role = "admin"
      BY <2>0, <2>2, <1>5 DEF RowsSound, HeadedByAdmin, At, Of
    <3>2. CASE n # p.row
      BY <3>1, <3>2, <2>0, <2>2, <1>1, <1>3, <1>5
    <3>3. CASE n = p.row
      <4>1. RowStays(p, {"admin"})
        BY <3>1, <3>3, <2>2, <1>1, <1>2 DEF RowSound
      <4>2. p.row \in Live' /\ members'[p.row].dept = members[p.row].dept /\ members'[p.row].role \in {"admin"}
        BY <4>1, <3>1, <3>3, <1>1, <1>4
      <4> QED BY <4>2, <3>1, <3>3, <2>0, <2>2, <1>5, <1>6
    <3> QED BY <3>2, <3>3
  <2> QED BY <2>1, <2>2
<1>9. OnOwnTeam'
  <2> SUFFICES ASSUME NEW n \in Live', members'[n].team # None
               PROVE  home'[members'[n].team] = members'[n].dept
    BY DEF OnOwnTeam
  <2>1. CASE n # p.row
    <3>1. n \in Live /\ members'[n] = members[n]
      BY <2>1, <1>1, <1>3
    <3> QED BY <3>1, <1>r, <1>5 DEF RowsSound, OnOwnTeam
  <2>2. CASE n = p.row
    <3>1. p.row \in Live /\ p.row # None /\ RowSound(p)
      BY <2>2, <1>1, <1>2
    <3>2. /\ members'[n].dept = IF p.dept = Keep THEN members[n].dept ELSE p.dept
          /\ members'[n].team = IF p.team = Keep THEN members[n].team ELSE p.team
      BY <2>2 DEF Changes
    <3>3. p.team \in Team \cup {None, Keep}
      BY DEF Plan
    <3>4. CASE p.dept # Keep
      BY <3>1, <3>2, <3>4, <2>2, <1>1 DEF RowSound
    <3>5. CASE p.dept = Keep /\ p.team = Keep
      BY <3>1, <3>2, <3>5, <2>2, <1>r, <1>5 DEF RowsSound, OnOwnTeam
    <3>6. CASE p.dept = Keep /\ p.team \in Team
      BY <3>1, <3>2, <3>6, <2>2, <1>1, <1>5 DEF RowSound
    <3> QED BY <3>2, <3>3, <3>4, <3>5, <3>6
  <2> QED BY <2>1, <2>2
<1>10. NoGhostLeads'
  BY <1>1, <1>2, <1>5 DEF RowsSound, NoGhostLeads, HandsSound, Exists
<1>11. Moved \subseteq p.bump
  <2> SUFFICES ASSUME NEW u \in User, u \notin p.bump PROVE Claims(u)' = Claims(u)
    BY DEF Moved
  <2>1. \A n \in Live \cup Live' : n = p.row => n \in Live /\ members[n].user # u
    BY <1>1, <1>2 DEF RowSound, Changes
  <2>2. \A m \in Id : m \in Live /\ members[m].user = u <=> m \in Live' /\ members'[m].user = u
    BY <2>1, <1>3, <1>6
  <2>3. \A m \in Live : members[m].user = u => members'[m] = members[m]
    BY <2>1, <1>1, <1>3
  <2>4. \A t \in p.led : lead[t] # u /\ p.to # u
    BY <1>1, <1>2 DEF HandsSound
  <2>5. \A t \in Team : Exists(t) /\ lead[t] = u <=> Exists(t)' /\ lead'[t] = u
    BY <2>4, <1>5 DEF Exists
  <2> QED BY <2>2, <2>3, <2>5, ClaimsKept
<1>12. AdminsKept
  <2> SUFFICES ASSUME NEW d \in Dept, NEW n \in Live, members[n].dept = d, members[n].role = "admin",
                      NEW k \in Live', members'[k].dept = d
               PROVE  \E j \in Live' : members'[j].dept = d /\ members'[j].role = "admin"
    BY DEF AdminsKept, Admins, Of
  <2>1. CASE n # p.row
    BY <2>1, <1>1, <1>3
  <2>2. CASE n = p.row
    <3>1. CASE RowStays(p, {"admin"})
      BY <3>1, <2>2, <1>1, <1>4
    <3>2. CASE \E j \in Admins(d) : j # n
      BY <3>2, <2>2, <1>1, <1>3 DEF Admins, Of
    <3>3. CASE p.dept # Keep /\ Of(d) = {n}
      <4>1. k = n
        BY <3>3, <2>2, <1>1, <1>3 DEF Of
      <4>2. members'[n].dept = p.dept /\ p.dept # d
        BY <4>1, <3>3, <2>2, <1>1, <1>2 DEF Changes, RowSound
      <4> QED BY <4>1, <4>2
    <3> QED BY <3>1, <3>2, <3>3, <2>2, <1>1, <1>2 DEF RowSound
  <2> QED BY <2>1, <2>2
<1> QED BY <1>7, <1>8, <1>9, <1>10, <1>11, <1>12 DEF RowsSound

(* Teams that go, with everyone on them told, take no lead with them that  *)
(* is still to be told.                                                    *)
LEMMA DropKeeps ==
  ASSUME Unique, RowsSound, NEW teams \in SUBSET Team, NEW gone \in SUBSET Id,
         Drop(teams, gone), gone = {},
         depts' \subseteq depts, \A m \in Live : members[m].dept \in depts',
         \A d \in Dept : head'[d] = IF d \in depts' THEN head[d] ELSE None,
         NEW told, \A t \in teams : {lead[t]} \ {None} \subseteq told,
         \A m \in Live : members[m].team \in teams => members[m].user \in told
  PROVE  RowsSound' /\ Moved \subseteq told /\ AdminsKept
<1> USE DEF Unique, Inv
<1>1. \A m \in Live : /\ m \in Id /\ members[m] # None /\ members[m].user \in User
                      /\ members[m].team \in Team \cup {None} /\ None \notin Team /\ None \notin User
                      /\ members[m].dept \in Dept /\ members[m].role \in Role
  BY RowFields, SentinelAssumption DEF Live
<1>2. \A t \in Team : /\ home'[t] = IF t \in teams THEN None ELSE home[t]
                      /\ lead'[t] = IF t \in teams THEN None ELSE lead[t]
  BY DEF Drop
<1>3. ASSUME NEW m \in Live
      PROVE  /\ m \in Live'
             /\ members'[m].user = members[m].user /\ members'[m].dept = members[m].dept
             /\ members'[m].role = members[m].role
             /\ members'[m].team = IF members[m].team \in teams THEN None ELSE members[m].team
  <2>1. /\ OffTeam(members[m]).user = members[m].user /\ OffTeam(members[m]).dept = members[m].dept
        /\ OffTeam(members[m]).role = members[m].role /\ OffTeam(members[m]).team = None
        /\ OffTeam(members[m]) \in Membership
    BY <1>1 DEF OffTeam, Membership
  <2>2. members'[m] = IF members[m].team \in teams THEN OffTeam(members[m]) ELSE members[m]
    BY <1>1 DEF Drop
  <2>3. members'[m] # None
    <3>1. members'[m] \in Membership \cup {None}
      BY <1>1, DropRows
    <3>2. CASE members[m].team \in teams
      <4>1. m \in Id /\ members'[m] = OffTeam(members[m]) /\ OffTeam(members[m]).user \in User
        BY <1>1, <2>1, <2>2, <3>2
      <4> QED BY <4>1, <2>1, SentinelAssumption
    <3>3. CASE members[m].team \notin teams
      BY <3>3, <2>2, <1>1
    <3> QED BY <3>2, <3>3
  <2> QED BY <1>1, <2>1, <2>2, <2>3 DEF Live
<1>4. Live' = Live
  <2>1. Live' \subseteq Live
    BY DropRows DEF Settled
  <2> QED BY <1>3, <2>1
<1>5. LedByOwn'
  <2> SUFFICES ASSUME NEW t \in Team, home'[t] # None, lead'[t] # None
               PROVE  \E n \in Live' : members'[n].dept = home'[t] /\ members'[n].user = lead'[t]
                                        /\ members'[n].role \in Leading
    BY DEF LedByOwn, At, Of, Exists
  <2>1. PICK n \in Live : members[n].dept = home[t] /\ members[n].user = lead[t] /\ members[n].role \in Leading
    BY <1>2 DEF RowsSound, LedByOwn, At, Of, Exists
  <2> QED BY <2>1, <1>2, <1>3, <1>4
<1>6. HeadedByAdmin'
  <2> SUFFICES ASSUME NEW d \in depts', head'[d] # None
               PROVE  \E n \in Live' : members'[n].dept = d /\ members'[n].user = head'[d]
                                        /\ members'[n].role = "admin"
    BY DEF HeadedByAdmin, At, Of
  <2>1. d \in Dept /\ d \in depts /\ head'[d] = head[d]
    BY DEF TypeOK
  <2>2. PICK n \in Live : members[n].dept = d /\ members[n].user = head[d] /\ members[n].role = "admin"
    BY <2>1 DEF RowsSound, HeadedByAdmin, At, Of
  <2> QED BY <2>1, <2>2, <1>3, <1>4
<1>7. OnOwnTeam' /\ NoGhostLeads'
  BY <1>1, <1>2, <1>3, <1>4 DEF RowsSound, OnOwnTeam, NoGhostLeads, Exists
<1>8. Moved \subseteq told
  <2> SUFFICES ASSUME NEW u \in User, u \notin told PROVE Claims(u)' = Claims(u)
    BY DEF Moved
  <2>1. \A m \in Id : m \in Live /\ members[m].user = u <=> m \in Live' /\ members'[m].user = u
    BY <1>3, <1>4
  <2>2. \A m \in Live : members[m].user = u =>
            /\ members'[m].dept = members[m].dept /\ members'[m].team = members[m].team
            /\ members'[m].role = members[m].role
    BY <1>3
  <2>3. \A t \in teams : lead[t] # u
    BY SentinelAssumption
  <2>4. \A t \in Team : Exists(t) /\ lead[t] = u <=> Exists(t)' /\ lead'[t] = u
    BY <2>3, <1>2, SentinelAssumption DEF Exists
  <2> QED BY <2>1, <2>2, <2>4, ClaimsKept
<1>9. AdminsKept
  BY <1>3, <1>4 DEF AdminsKept, Admins, Of
<1> QED BY <1>5, <1>6, <1>7, <1>8, <1>9 DEF RowsSound

(* What _bump and the handlers' second half find after a commit. *)
LEMMA CommittedFields ==
  ASSUME TypeOK, NEW w \in Worker, NEW row, Committed(w, row)
  PROVE  /\ req[w].bump = {} => req'[w].pc = "idle"
         /\ req[w].bump # {} =>
              /\ req'[w].pc = "bump" /\ req'[w].row = row /\ req'[w].bump = req[w].bump
              /\ req'[w].team = IF req[w].pc = "write" /\ req[w].row = None THEN req[w].team ELSE Keep
<1> DEFINE again == IF req[w].pc = "write" /\ req[w].row = None THEN req[w].team ELSE Keep
           next == Todo("bump", row, None, Keep, again, Keep, Bumps(req[w].bump))
<1>1. Nothing("idle").pc = "idle"
  BY TodoFields DEF Nothing
<1>2. next.pc = "bump" /\ next.row = row /\ next.team = again /\ next.bump = req[w].bump
  BY TodoFields, TodoHands, BumpsFields
<1>3. req' = [req EXCEPT ![w] = IF req[w].bump = {} THEN Nothing("idle") ELSE next]
  BY DEF Committed
<1>4. req'[w] = IF req[w].bump = {} THEN Nothing("idle") ELSE next
  BY <1>3 DEF TypeOK
<1> HIDE DEF next
<1> QED BY <1>1, <1>2, <1>4

(* The request that runs alone commits: the rest of the invariant follows  *)
(* from what the commit moved.                                             *)
OthersOff(w) == \A v \in Worker \ {w} : req[v].pc = "off"

LEMMA CommitSound ==
  ASSUME Unique, Sound, NEW w \in Worker, OthersOff(w), req[w].pc # "bump",
         NEW row \in Id \cup {None}, Committed(w, row), RowsSound',
         stale' = stale \cup Moved, Moved \subseteq req[w].bump,
         row # None => row \in Live',
         req[w].pc = "write" /\ req[w].row = None /\ req[w].team \in Team => home'[req[w].team] # None
  PROVE  Sound'
<1> USE DEF Unique, Inv
<1>1. Moves(w)
  BY CommittedMoves
<1>2. stale = {}
  BY DEF Sound, StaleCovered, OthersOff
<1>3. StaleCovered'
  BY <1>2, CommittedFields DEF StaleCovered
<1>k. Keep \notin Team
  BY SentinelAssumption
<1>4. req'[w].pc = "bump" => Refreshes(req[w])'
  <2> SUFFICES ASSUME req'[w].pc = "bump" PROVE Refreshes(req[w])'
    OBVIOUS
  <2>1. /\ req'[w].row = row
        /\ req'[w].team = IF req[w].pc = "write" /\ req[w].row = None THEN req[w].team ELSE Keep
    BY CommittedFields
  <2> QED BY <1>k, <2>1 DEF Refreshes, Exists
<1>5. PlanSound(req[w])'
  BY <1>1, <1>4 DEF Moves, PlanSound
<1>6. ASSUME NEW v \in Worker \ {w} PROVE PlanSound(req[v])'
  BY <1>1, <1>6 DEF Moves, OthersOff, PlanSound
<1> QED BY <1>3, <1>5, <1>6 DEF Sound

LEMMA SoundCommits ==
  ASSUME Unique, Unique', Sound, NEW w \in Worker, OthersOff(w), Commits(w)
  PROVE  Sound' /\ AdminsKept
<1> DEFINE p == req[w]
<1> USE DEF Unique, Inv
<1>0. /\ p \in Plan /\ PlanSound(p) /\ RowsSound /\ p.row \in Id \cup {None} /\ None \notin Live
      /\ None \notin Id \cup Dept \cup Team \cup User \cup Membership
      /\ p.led \in SUBSET Team
  BY PlanFields, SentinelAssumption DEF Sound, TypeOK, Live
<1>1. CASE CommitWrite(w)
  <2>1. Changes(p) /\ p.pc = "write"
    <3>1. p.pc = "write" /\ HandOver(p) /\ UNCHANGED <<depts, home>>
      BY <1>1 DEF CommitWrite
    <3>2. CASE ~Writes(p)
      <4>1. members' = members
        BY <1>1, <3>2 DEF CommitWrite
      <4>2. p.row = None \/ (p.dept = Keep /\ p.team = Keep /\ p.role = Keep)
        BY <3>2 DEF Writes
      <4> QED BY <3>1, <4>1, <4>2, <1>0 DEF Changes, Live
    <3>3. CASE Writes(p)
      <4>1. p.row \in Live /\ members' = [members EXCEPT ![p.row] = Updated(members[p.row], p)]
        BY <1>1, <3>3 DEF CommitWrite, CanWrite
      <4>2. /\ members[p.row] \in Membership /\ p.row \in Id
            /\ Updated(members[p.row], p).role = IF p.role = Keep THEN members[p.row].role ELSE p.role
        BY <4>1, RowFields DEF Updated
      <4>3. /\ Updated(members[p.row], p) \in Membership
            /\ Updated(members[p.row], p).user = members[p.row].user
            /\ Updated(members[p.row], p).dept = IF p.dept = Keep THEN members[p.row].dept ELSE p.dept
            /\ Updated(members[p.row], p).team = IF p.team = Keep THEN members[p.row].team ELSE p.team
        BY <4>2, <1>0, UpdatedType
      <4>4. members'[p.row] = Updated(members[p.row], p) /\ \A n \in Id : n # p.row => members'[n] = members[n]
        BY <4>1, <4>2 DEF TypeOK
      <4>5. p.row \in Live'
        BY <4>2, <4>3, <4>4, <1>0 DEF Live
      <4> QED BY <3>1, <4>1, <4>2, <4>3, <4>4, <4>5 DEF Changes
    <3> QED BY <3>2, <3>3
  <2>2. RowsSound' /\ Moved \subseteq p.bump /\ AdminsKept
    BY <1>0, <2>1, ChangeKeeps
  <2>3. p.row # None => p.row \in Live'
    BY <1>0, <2>1 DEF PlanSound, RowSound, Changes
  <2>4. p.row = None /\ p.team \in Team => home'[p.team] # None
    BY <1>0, <2>1 DEF PlanSound, Changes, Exists
  <2>5. Committed(w, p.row) /\ stale' = stale \cup Moved
    BY <1>1 DEF CommitWrite
  <2> HIDE DEF p
  <2>6. req[w] = p
    BY DEF p
  <2> QED BY <1>0, <2>1, <2>2, <2>3, <2>4, <2>5, <2>6, CommitSound
<1>2. CASE CommitRemove(w)
  <2>0. p.pc = "remove" /\ p.row \in Id
    BY <1>0, <1>2 DEF CommitRemove, PlanSound
  <2>1. Changes(p)
    <3>1. HandOver(p) /\ UNCHANGED <<depts, home>>
      BY <1>2 DEF CommitRemove
    <3>2. members'[p.row] = None /\ \A n \in Id : n # p.row => members'[n] = members[n]
      BY <1>2, <2>0 DEF CommitRemove, TypeOK
    <3> QED BY <2>0, <3>1, <3>2 DEF Changes, Live
  <2>2. RowsSound' /\ Moved \subseteq p.bump /\ AdminsKept
    BY <1>0, <2>0, <2>1, ChangeKeeps
  <2>3. Committed(w, None) /\ stale' = stale \cup Moved
    BY <1>2 DEF CommitRemove
  <2> QED BY <2>0, <2>2, <2>3, CommitSound
<1>3. CASE CommitDropTeam(w)
  <2>1. Drop(p.led, {}) /\ p.pc = "dropTeam" /\ UNCHANGED <<depts, head>> /\ Committed(w, None) /\ stale' = stale \cup Moved
    BY <1>3 DEF CommitDropTeam
  <2>2. /\ \A t \in p.led : {lead[t]} \ {None} \subseteq p.bump
        /\ \A m \in Live : members[m].team \in p.led => members[m].user \in p.bump
    BY <1>0, <2>1 DEF PlanSound
  <2>3. /\ depts' \subseteq depts /\ \A m \in Live : members[m].dept \in depts'
        /\ \A d \in Dept : head'[d] = IF d \in depts' THEN head[d] ELSE None
    BY <1>0, <2>1 DEF TypeOK, RowsSound, NoGhostLeads
  <2> DEFINE teams == p.led
             told == p.bump
  <2>4. /\ teams \in SUBSET Team /\ Drop(teams, {})
        /\ \A t \in teams : {lead[t]} \ {None} \subseteq told
        /\ \A m \in Live : members[m].team \in teams => members[m].user \in told
    BY <1>0, <2>1, <2>2
  <2> HIDE DEF teams, told
  <2>5. RowsSound' /\ Moved \subseteq told /\ AdminsKept
    BY <1>0, <2>3, <2>4, DropKeeps
  <2> QED BY <2>1, <2>5, CommitSound DEF told
<1>4. CASE CommitDropDepartment(w)
  <2> DEFINE d == p.heads
             teams == Teams(d)
             gone == Of(d)
  <2>1. /\ Drop(teams, gone) /\ p.pc = "dropDept" /\ depts' = depts \ {d} /\ head' = [head EXCEPT ![d] = None]
        /\ Finish(w) /\ stale' = stale \cup Moved
    BY <1>4 DEF CommitDropDepartment
  <2>2. gone = {} /\ teams \in SUBSET Team
    BY <1>0, <2>1 DEF PlanSound, Teams
  <2>3. /\ depts' \subseteq depts /\ \A m \in Live : members[m].dept \in depts'
        /\ \A e \in Dept : head'[e] = IF e \in depts' THEN head[e] ELSE None
    BY <1>0, <2>1, <2>2 DEF TypeOK, RowsSound, NoGhostLeads, Of
  <2>4. \A m \in Live : members[m].team \notin teams
    BY <1>0, <2>2, RowFields DEF RowsSound, OnOwnTeam, Teams, Of
  <2>5. ASSUME NEW t \in teams PROVE lead[t] = None
    <3>1. t \in Team /\ home[t] = d
      BY DEF Teams
    <3>2. CASE Exists(t)
      BY <1>0, <2>2, <3>1, <3>2 DEF RowsSound, LedByOwn, At
    <3>3. CASE ~Exists(t)
      BY <1>0, <3>1, <3>3 DEF RowsSound, NoGhostLeads
    <3> QED BY <3>2, <3>3
  <2> HIDE DEF teams, gone
  <2>6. RowsSound' /\ Moved \subseteq {} /\ AdminsKept
    <3>1. /\ {} \in SUBSET Id /\ Drop(teams, {})
          /\ \A t \in teams : {lead[t]} \ {None} \subseteq {}
          /\ \A m \in Live : members[m].team \in teams => members[m].user \in {}
      BY <2>1, <2>2, <2>4, <2>5
    <3> QED BY <1>0, <2>2, <2>3, <3>1, DropKeeps
  <2>7. Moves(w) /\ req'[w].pc = "idle"
    BY <2>1, FinishMoves, NothingType DEF Finish, TypeOK, Pc
  <2>8. stale' = {}
    BY <2>1, <2>6 DEF Sound, StaleCovered, OthersOff
  <2>9. \A v \in Worker : PlanSound(req[v])'
    BY <2>7 DEF Moves, OthersOff, PlanSound
  <2> QED BY <2>6, <2>8, <2>9 DEF Sound, StaleCovered
<1>5. CASE CommitInsert(w) \/ CommitJoin(w)
  <2>1. PICK m \in FreshId :
          /\ members' = [members EXCEPT ![m] = NewMembership(p)]
          /\ CommitInsert(w) => Committed(w, m)
    BY <1>5 DEF CommitInsert, CommitJoin
  <2>2. /\ p.pc \in {"insert", "join"} /\ CanInsert(p) /\ UNCHANGED <<depts, home, lead, head>>
        /\ CommitInsert(w) => p.pc = "insert" /\ stale' = stale \cup {p.user}
        /\ CommitJoin(w) => stale' = stale \ {p.user} /\ Finish(w)
    BY <1>5 DEF CommitInsert, CommitJoin
  <2>3. /\ p.user \in User /\ p.team \in Team \cup {None} /\ p.role \in Role
        /\ p.user \in p.bump /\ (p.team \in Team => home[p.team] = p.dept)
        /\ p.dept \in Dept
    BY <1>0, <2>2 DEF PlansFit, PlanSound, CanInsert, TypeOK
  <2> DEFINE new == NewMembership(p)
  <2>4. /\ new \in Membership /\ new.user = p.user /\ new.dept = p.dept
        /\ new.team = p.team /\ new.role = p.role
    BY <2>3 DEF NewMembership, Membership
  <2>5. m \in Id /\ m \notin Live
    BY DEF FreshId, Live
  <2> HIDE DEF new
  <2>6. members'[m] = new /\ \A n \in Id \ {m} : members'[n] = members[n]
    BY <2>1, <2>5 DEF TypeOK, new
  <2>7. Live' = Live \cup {m} /\ \A n \in Live : members'[n] = members[n] /\ n # m
    BY <1>0, <2>4, <2>5, <2>6 DEF Live
  <2>8. RowsSound'
    <3>1. LedByOwn' /\ HeadedByAdmin'
      BY <1>0, <2>2, <2>7 DEF RowsSound, LedByOwn, HeadedByAdmin, At, Of, Exists
    <3>2. OnOwnTeam'
      BY <1>0, <2>2, <2>3, <2>4, <2>6, <2>7 DEF RowsSound, OnOwnTeam
    <3>3. NoGhostLeads'
      BY <1>0, <2>2 DEF RowsSound, NoGhostLeads, Exists
    <3> QED BY <3>1, <3>2, <3>3 DEF RowsSound
  <2>9. AdminsKept
    BY <2>7 DEF AdminsKept, Admins, Of
  <2>10. stale = {}
    BY <2>2 DEF Sound, StaleCovered, OthersOff
  <2>11. CASE CommitInsert(w)
    <3>1. Committed(w, m) /\ Moves(w)
      BY <2>1, <2>5, <2>11, CommittedMoves
    <3>2. p.bump # {} /\ stale' = {p.user} /\ p.pc = "insert"
      BY <2>2, <2>3, <2>10, <2>11
    <3>3. req'[w].pc = "bump" /\ req'[w].row = m /\ req'[w].bump = p.bump /\ req'[w].team = Keep
      BY <3>1, <3>2, CommittedFields
    <3>4. StaleCovered'
      BY <2>3, <3>2, <3>3 DEF StaleCovered
    <3>5. Refreshes(req[w])'
      BY <2>7, <3>3, SentinelAssumption DEF Refreshes
    <3>6. \A v \in Worker : PlanSound(req[v])'
      BY <3>1, <3>3, <3>5 DEF Moves, OthersOff, PlanSound
    <3> QED BY <2>8, <2>9, <3>4, <3>6 DEF Sound
  <2>12. CASE CommitJoin(w)
    <3>1. Moves(w) /\ req'[w].pc = "idle"
      BY <2>2, <2>12, FinishMoves, NothingType DEF Finish, TypeOK, Pc
    <3>2. StaleCovered'
      BY <2>2, <2>10, <2>12 DEF StaleCovered
    <3>3. \A v \in Worker : PlanSound(req[v])'
      BY <3>1 DEF Moves, OthersOff, PlanSound
    <3> QED BY <2>8, <2>9, <3>2, <3>3 DEF Sound
  <2> QED BY <1>5, <2>11, <2>12
<1>6. CASE CommitFails(w)
  <2>1. Unchanged /\ Finish(w) /\ p.pc # "bump"
    BY <1>6 DEF CommitFails, CanCommit
  <2>2. Moves(w) /\ req'[w].pc = "idle"
    BY <2>1, FinishMoves, NothingType DEF Finish, TypeOK, Pc
  <2>3. stale' = {}
    BY <2>1 DEF Sound, StaleCovered, OthersOff, Unchanged
  <2>4. \A v \in Worker : PlanSound(req[v])'
    BY <2>2 DEF Moves, OthersOff, PlanSound
  <2>5. RowsSound' /\ AdminsKept
    BY <1>0, <2>1 DEF Unchanged, Rows, RowsSound, LedByOwn, HeadedByAdmin, OnOwnTeam, NoGhostLeads,
                      Exists, At, Of, Live, Admins, AdminsKept
  <2> QED BY <2>3, <2>4, <2>5 DEF Sound, StaleCovered
<1> QED BY <1>1, <1>2, <1>3, <1>4, <1>5, <1>6 DEF Commits

-----------------------------------------------------------------------------
(* The reads and the bumps. *)
LEMMA SoundReads ==
  ASSUME Unique, Sound, NEW w \in Worker, OthersOff(w), Reads(w)
  PROVE  Sound' /\ AdminsKept
<1> USE DEF Unique, Inv
<1>1. CASE Plans(w)
  <2>1. PICK plan : Begin(w, plan) /\ Unchanged /\ PlanSound(plan)
    BY <1>1 DEF Plans
  <2>2. req[w].pc = "idle" /\ req'[w] = plan /\ \A v \in Worker \ {w} : req'[v] = req[v]
    BY <2>1 DEF Begin, TypeOK
  <2>3. UNCHANGED <<depts, home, lead, head, members, stale>>
    BY <2>1 DEF Unchanged, Rows
  <2>4. RowsSound' /\ AdminsKept
    BY <2>3 DEF Sound, RowsSound, LedByOwn, HeadedByAdmin, OnOwnTeam, NoGhostLeads, Exists, At, Of, Live,
                Admins, AdminsKept
  <2>5. StaleCovered'
    BY <2>2, <2>3 DEF Sound, StaleCovered, OthersOff
  <2>6. PlanSound(req[w])'
    BY <2>1, <2>2, <2>3 DEF PlanSound, HandsSound, RowSound, RowStays, Refreshes, Exists, At, Of, Live,
                            Admins, Teams
  <2>7. ASSUME NEW v \in Worker \ {w} PROVE PlanSound(req[v])'
    BY <2>2 DEF OthersOff, PlanSound
  <2> QED BY <2>4, <2>5, <2>6, <2>7 DEF Sound
<1>2. CASE \E d \in Dept : CreateDepartment(w, d)
  <2>1. PICK d \in Dept : CreateDepartment(w, d)
    BY <1>2
  <2>2. /\ req[w].pc = "idle" /\ d \notin depts /\ depts' = depts \cup {d}
        /\ UNCHANGED <<home, lead, head, members, stale, req>>
    BY <2>1 DEF CreateDepartment
  <2>3. RowsSound' /\ AdminsKept
    BY <2>2 DEF Sound, RowsSound, LedByOwn, HeadedByAdmin, OnOwnTeam, NoGhostLeads, Exists, At, Of, Live,
                Admins, AdminsKept
  <2>4. StaleCovered' /\ \A v \in Worker : PlanSound(req[v])'
    BY <2>2 DEF Sound, StaleCovered, OthersOff, PlanSound
  <2> QED BY <2>3, <2>4 DEF Sound
<1>3. CASE \E t \in Team, d \in Dept : CreateTeam(w, t, d)
  <2>1. PICK t \in Team, d \in Dept : CreateTeam(w, t, d)
    BY <1>3
  <2>2. /\ req[w].pc = "idle" /\ home[t] = None /\ home' = [home EXCEPT ![t] = d] /\ d \in depts
        /\ UNCHANGED <<depts, lead, head, members, stale, req>>
    BY <2>1 DEF CreateTeam, Exists
  <2>3. lead[t] = None /\ \A m \in Live : members[m].team # None => members[m].team \in Team \ {t}
    BY <2>2, RowFields DEF Sound, RowsSound, NoGhostLeads, Exists
  <2>4. home'[t] = d /\ \A s \in Team \ {t} : home'[s] = home[s]
    BY <2>2 DEF TypeOK
  <2>5. LedByOwn' /\ HeadedByAdmin' /\ NoGhostLeads' /\ AdminsKept
    BY <2>2, <2>3, <2>4 DEF Sound, RowsSound, LedByOwn, HeadedByAdmin, NoGhostLeads, Exists, At, Of, Live,
                            Admins, AdminsKept
  <2>6. OnOwnTeam'
    BY <2>2, <2>3, <2>4 DEF Sound, RowsSound, OnOwnTeam, Live
  <2>7. StaleCovered' /\ \A v \in Worker : PlanSound(req[v])'
    BY <2>2 DEF Sound, StaleCovered, OthersOff, PlanSound
  <2> QED BY <2>5, <2>6, <2>7 DEF Sound, RowsSound
<1> QED BY <1>1, <1>2, <1>3, RowHandlersPlan, OtherHandlersPlan DEF Reads

LEMMA SoundBumps ==
  ASSUME Unique, Sound, NEW w \in Worker, OthersOff(w), Bump(w) \/ BumpLost(w)
  PROVE  Sound' /\ AdminsKept
<1> USE DEF Unique, Inv
<1>1. Bump(w)
  BY DEF BumpLost, Sound, PlanSound
<1>2. Moves(w) /\ req'[w].pc = "idle"
  BY <1>1, FinishMoves, NothingType DEF Bump, Finish, TypeOK, Pc
<1>3. stale' = {}
  BY <1>1 DEF Bump, Sound, StaleCovered, OthersOff
<1>4. RowsSound' /\ AdminsKept
  BY <1>1 DEF Bump, Rows, Sound, RowsSound, LedByOwn, HeadedByAdmin, OnOwnTeam, NoGhostLeads, Exists, At, Of,
              Live, Admins, AdminsKept
<1>5. \A v \in Worker : PlanSound(req[v])'
  BY <1>2 DEF Moves, OthersOff, PlanSound
<1> QED BY <1>3, <1>4, <1>5 DEF Sound, StaleCovered

(* The worker that acts runs, before and after; so the deployment that has *)
(* one running worker after a step had it before, and it took the step.    *)
LEMMA PlannerRuns ==
  ASSUME Unique, NEW w \in Worker, Reads(w)
  PROVE  /\ req[w].pc # "off" /\ req'[w].pc # "off"
         /\ \A v \in Worker \ {w} : req'[v] = req[v]
<1>1. CASE Plans(w)
  BY <1>1 DEF Plans, Begin, Unique, Inv, TypeOK
<1>2. CASE \E d \in Dept : CreateDepartment(w, d) \/ \E t \in Team : CreateTeam(w, t, d)
  BY <1>2 DEF CreateDepartment, CreateTeam
<1> QED BY <1>1, <1>2, RowHandlersPlan, OtherHandlersPlan DEF Reads

LEMMA CommitterRuns ==
  ASSUME Unique, NEW w \in Worker, Commits(w) \/ Bump(w) \/ BumpLost(w)
  PROVE  req[w].pc # "off" /\ Moves(w)
<1>1. TypeOK /\ req[w].row \in Id \cup {None}
  BY PlanFields DEF Unique, Inv
<1>2. FreshId \subseteq Id
  BY DEF FreshId
<1>3. CASE CommitWrite(w) \/ CommitRemove(w) \/ CommitInsert(w) \/ CommitDropTeam(w)
  <2>1. \E row \in Id \cup {None} : Committed(w, row)
    BY <1>1, <1>2, <1>3 DEF CommitWrite, CommitRemove, CommitInsert, CommitDropTeam
  <2> QED BY <1>1, <1>3, <2>1, CommittedMoves DEF CommitWrite, CommitRemove, CommitInsert, CommitDropTeam
<1>4. CASE CommitJoin(w) \/ CommitDropDepartment(w) \/ CommitFails(w) \/ Bump(w) \/ BumpLost(w)
  BY <1>1, <1>4, FinishMoves DEF CommitJoin, CommitDropDepartment, CommitFails, CanCommit, Bump, BumpLost
<1> QED BY <1>3, <1>4 DEF Commits

LEMMA AloneBefore ==
  ASSUME NEW w \in Worker, req[w].pc # "off", req'[w].pc # "off",
         \A v \in Worker \ {w} : req'[v] = req[v]
  PROVE  /\ Alone => OthersOff(w)
         /\ Alone' => Alone
BY DEF Alone, OthersOff

LEMMA InitSound == Init => Serially
<1> SUFFICES ASSUME Init PROVE Sound
  BY InitUnique DEF Serially
<1>1. Live = {} /\ \A t \in Team : home[t] = None /\ lead[t] = None
  BY DEF Init, Live
<1>2. \A w \in Worker : req[w].pc \in {"idle", "off"}
  BY NothingType DEF Init, Pc
<1>3. RowsSound
  BY <1>1 DEF Init, RowsSound, LedByOwn, HeadedByAdmin, OnOwnTeam, NoGhostLeads, Exists
<1>4. \A w \in Worker : PlanSound(req[w])
  BY <1>2 DEF PlanSound
<1> QED BY <1>3, <1>4 DEF Init, Sound, StaleCovered

LEMMA NextSound ==
  ASSUME Serially, [Next]_vars
  PROVE  Serially' /\ (Alone => AdminsKept)
<1>1. Unique /\ Unique'
  BY NextUnique DEF Serially
<1>2. CASE UNCHANGED vars
  <2>1. AdminsKept /\ (Alone' => Alone)
    BY <1>2 DEF vars, AdminsKept, Admins, Of, Live, Alone
  <2>2. Sound => Sound'
    BY <1>2 DEF vars, Sound, RowsSound, LedByOwn, HeadedByAdmin, OnOwnTeam, NoGhostLeads, StaleCovered, PlanSound,
                HandsSound, RowSound, RowStays, Refreshes, Exists, At, Of, Live, Admins, Teams
  <2> QED BY <1>1, <2>1, <2>2 DEF Serially
<1>3. ASSUME NEW w \in Worker, Reads(w) \/ Commits(w) \/ Bump(w) \/ BumpLost(w)
      PROVE  Serially' /\ (Alone => AdminsKept)
  <2>1. /\ req[w].pc # "off" /\ req'[w].pc # "off"
        /\ \A v \in Worker \ {w} : req'[v] = req[v]
    BY <1>1, <1>3, PlannerRuns, CommitterRuns DEF Moves
  <2>2. (Alone => OthersOff(w)) /\ (Alone' => Alone)
    BY <2>1, AloneBefore
  <2>3. ASSUME Alone PROVE Sound' /\ AdminsKept
    BY <1>1, <1>3, <2>2, <2>3, SoundReads, SoundCommits, SoundBumps DEF Serially
  <2> QED BY <1>1, <2>2, <2>3 DEF Serially
<1> QED BY <1>2, <1>3 DEF Next

LEMMA SpecSound == Spec => []Serially
BY InitSound, NextSound, PTL DEF Spec

(* One request at a time: a team is led by a manager or an admin of its    *)
(* department and a department headed by one of its admins, because        *)
(* _handover makes whoever is demoted, moved or removed pass both on.      *)
THEOREM LeadersStayQualified == Spec => []LeadersQualify
<1>1. Serially => LeadersQualify
  BY DEF Serially, Sound, RowsSound, LedByOwn, HeadedByAdmin, LeadersQualify
<1> QED BY <1>1, SpecSound, PTL

(* One request at a time: transfer_member and remove_member leave nobody   *)
(* on a team of a department they are not in.                              *)
THEOREM TeamsStayHome == Spec => []TeamOfOwnDept
<1>1. Serially => TeamOfOwnDept
  BY DEF Serially, Sound, RowsSound, OnOwnTeam, TeamOfOwnDept
<1> QED BY <1>1, SpecSound, PTL

(* One request at a time: every handler bumps everyone whose claims its    *)
(* commit moved, those included who took over or lost a team.              *)
THEOREM BumpsReachAll == Spec => []TokensCatchUp
<1>1. Serially => TokensCatchUp
  BY DEF Serially, Sound, StaleCovered, TokensCatchUp
<1> QED BY <1>1, SpecSound, PTL

(* One request at a time: _assert_not_last_admin holds for demotions,      *)
(* removals and transfers: no step takes the last admin of a department    *)
(* that keeps members.                                                     *)
THEOREM AdminsRemain == Spec => AdminRemains
<1>1. ASSUME Serially, [Next]_vars
      PROVE  [Alone => \A d \in Dept : Admins(d) # {} /\ Of(d)' # {} => Admins(d)' # {}]_vars
  BY <1>1, NextSound DEF AdminsKept
<1> QED BY <1>1, SpecSound, PTL DEF Spec, AdminRemains
=============================================================================
