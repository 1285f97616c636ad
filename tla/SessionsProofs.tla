--------------------------- MODULE SessionsProofs ---------------------------
(***************************************************************************)
(* Proofs about Sessions, for any set of accounts, rows and concurrent     *)
(* requests.  Requests say what a handler remembers of the row it read;    *)
(* rows only ever gain a mark (revoked, replaced_by).  From these two the  *)
(* rotation chain, the alarm and the end of a family follow.               *)
(* With one request at a time whatever it remembers is the present (the    *)
(* invariant SerialInv); on that rest single use, sign-out, bumps and      *)
(* claims.                                                                 *)
(***************************************************************************)
EXTENDS Sessions, TLAPS

Refreshing == {"stored", "rotate", "burn", "reuse"}

(* What a request in flight remembers is still true of the store. *)
RequestTrue(w) ==
  /\ req[w].pc \notin {"idle", "off"} => req[w].user \in User
  /\ req[w].pc \in Refreshing =>
       /\ req[w].tok \in issued
       /\ req[w].user = row[req[w].tok].user
       /\ presented[req[w].tok] >= 1
  /\ req[w].pc = "reuse" => presented[req[w].tok] = 2

RequestsOK == \A w \in Worker : RequestTrue(w)

(* A row that was replaced exists and had been presented. *)
ReplacedWasPresented ==
  \A t \in Token : next[t] # None => t \in issued /\ presented[t] >= 1

IInv == /\ TypeOK
        /\ RequestsOK
        /\ ReplacedWasPresented
        /\ RotationStaysInFamily
        /\ NoFalseAlarm

-----------------------------------------------------------------------------
(* The invariant holds of the empty store. *)
LEMMA InitIInv == Init => IInv
<1> SUFFICES ASSUME Init PROVE IInv
  OBVIOUS
<1>1. row \in [Token -> Row]
  BY DEF Init, NewRow, Row
<1>2. req \in [Worker -> Request]
  BY DEF Init, Idle, Off, Request, Steps
<1>3. TypeOK
  BY <1>1, <1>2 DEF Init, TypeOK
<1>4. RequestsOK
  BY DEF Init, RequestsOK, RequestTrue, Refreshing, Idle, Off
<1>. QED
  BY <1>3, <1>4 DEF Init, IInv, ReplacedWasPresented, RotationStaysInFamily, NoFalseAlarm

(* A request is typed when it is put together from typed parts. *)
LEMMA RequestTyped ==
  /\ Idle \in Request
  /\ \A pc \in Steps, u \in User, t \in Token \cup {None}, v \in Nat :
       Start(pc, u, t, v) \in Request
BY DEF Idle, Start, Request, Steps

(* What Start builds. *)
LEMMA StartFields ==
  /\ Idle.pc = "idle"
  /\ \A pc, u, t, v :
       /\ Start(pc, u, t, v).pc = pc
       /\ Start(pc, u, t, v).user = u
       /\ Start(pc, u, t, v).tok = t
       /\ Start(pc, u, t, v).tv = v
BY DEF Idle, Start

(* A new row is typed and names its account and its family. *)
LEMMA NewRowFields ==
  ASSUME TypeOK, NEW u \in User, NEW f \in Token, NEW v \in Nat
  PROVE  /\ NewRow(u, f, v) \in Row
         /\ NewRow(u, f, v).user = u
         /\ NewRow(u, f, v).fam = f
BY DEF TypeOK, Row, NewRow

-----------------------------------------------------------------------------
(* The shape every step has: rows are added, never changed; marks are set, *)
(* never cleared; a replacement names a new row of the same session; and a *)
(* request that moves remembers the truth.                                 *)
StoreGrows ==
  /\ issued \subseteq issued'
  /\ revoked \subseteq revoked'
  /\ \A t \in issued : row'[t] = row[t]
  /\ \A t \in Token : presented'[t] >= presented[t]
  /\ \A t \in alarmed' : t \in alarmed \/ presented'[t] = 2

Replaces(t) ==
  /\ t \in issued \cap revoked'
  /\ presented[t] >= 1
  /\ next'[t] \in issued'
  /\ row'[next'[t]].fam = row[t].fam
  /\ row'[next'[t]].user = row[t].user

LEMMA Preserved ==
  ASSUME IInv, TypeOK', StoreGrows,
         \A t \in Token : next'[t] = next[t] \/ Replaces(t),
         \A w \in Worker : req'[w] = req[w] \/ RequestTrue(w)'
  PROVE  IInv'
<1>1. RequestsOK'
  <2> SUFFICES ASSUME NEW w \in Worker
               PROVE  RequestTrue(w)'
    BY DEF RequestsOK
  <2>1. CASE req'[w] = req[w]
    BY <2>1 DEF IInv, TypeOK, StoreGrows, RequestsOK, RequestTrue, Refreshing
  <2>2. CASE RequestTrue(w)'
    BY <2>2
  <2>. QED
    BY <2>1, <2>2
<1>2. ReplacedWasPresented'
  BY DEF IInv, TypeOK, StoreGrows, Replaces, ReplacedWasPresented
<1>3. RotationStaysInFamily'
  BY DEF IInv, TypeOK, StoreGrows, Replaces, ReplacedWasPresented, RotationStaysInFamily
<1>4. NoFalseAlarm'
  BY DEF IInv, TypeOK, StoreGrows, NoFalseAlarm
<1>. QED
  BY <1>1, <1>2, <1>3, <1>4 DEF IInv

(* A step that leaves the rows and the alarm alone and moves one request.  *)
LEMMA RequestMoves ==
  ASSUME IInv, TypeOK', NEW w \in Worker,
         UNCHANGED <<rows, presented, alarmed>>,
         \A x \in Worker \ {w} : req'[x] = req[x],
         req'[w] = req[w] \/ RequestTrue(w)'
  PROVE  IInv' /\ StoreGrows
<1>1. StoreGrows
  BY DEF IInv, TypeOK, StoreGrows, rows
<1>. QED
  BY <1>1, Preserved DEF rows
-----------------------------------------------------------------------------
(* Every step keeps the invariant: first the steps that only remember      *)
(* something, then the ones that write the store.                          *)
LEMMA ReadSteps ==
  ASSUME IInv, NEW w \in Worker, NEW u, NEW t,
         \/ /\ u \in User
            /\ \/ Login(w, u) \/ RevokeAll(w, u) \/ ChangePassword(w, u)
               \/ Deactivate(w, u) \/ Reactivate(w, u) \/ ChangePlatformAdmin(w, u)
               \/ ChangeClaims(w, u) \/ AcceptInvite(w, u)
         \/ t \in Token /\ Refresh(w, t)
         \/ RefreshBurn(w) \/ RefreshRotate(w)
         \/ ReadRevoke(w) \/ ReadBump(w) \/ ReadMint(w) \/ Crash(w)
  PROVE  IInv' /\ StoreGrows
<1>. USE RequestTyped, StartFields

<1>1. CASE u \in User /\ Login(w, u)
  <2>1. TypeOK'
    BY <1>1 DEF Login, Begin, IInv, TypeOK, Steps, rows, history
  <2>. QED
    BY <1>1, <2>1, RequestMoves DEF Login, Begin, IInv, TypeOK, RequestTrue, Refreshing, rows, history
<1>2. CASE u \in User /\ RevokeAll(w, u)
  <2>1. TypeOK'
    BY <1>2 DEF RevokeAll, Begin, IInv, TypeOK, Steps, rows, history
  <2>. QED
    BY <1>2, <2>1, RequestMoves DEF RevokeAll, Begin, IInv, TypeOK, RequestTrue, Refreshing, rows, history
<1>3. CASE u \in User /\ ChangePassword(w, u)
  <2>1. TypeOK'
    BY <1>3 DEF ChangePassword, Begin, IInv, TypeOK, Steps, rows, history
  <2>. QED
    BY <1>3, <2>1, RequestMoves DEF ChangePassword, Begin, IInv, TypeOK, RequestTrue, Refreshing, rows, history
<1>4. CASE u \in User /\ Deactivate(w, u)
  <2>1. TypeOK'
    BY <1>4 DEF Deactivate, Begin, IInv, TypeOK, Steps, rows, history
  <2>. QED
    BY <1>4, <2>1, RequestMoves DEF Deactivate, Begin, IInv, TypeOK, RequestTrue, Refreshing, rows, history
<1>5. CASE u \in User /\ Reactivate(w, u)
  <2>1. TypeOK'
    BY <1>5 DEF Reactivate, Begin, IInv, TypeOK, Steps, rows, history
  <2>. QED
    BY <1>5, <2>1, RequestMoves DEF Reactivate, Begin, IInv, TypeOK, RequestTrue, Refreshing, rows, history
<1>6. CASE u \in User /\ AcceptInvite(w, u)
  <2>1. TypeOK'
    BY <1>6 DEF AcceptInvite, Begin, IInv, TypeOK, Steps, rows, history
  <2>. QED
    BY <1>6, <2>1, RequestMoves DEF AcceptInvite, Begin, IInv, TypeOK, RequestTrue, Refreshing, rows, history
<1>7. CASE u \in User /\ ChangePlatformAdmin(w, u)
  <2>1. claims' \in [User -> Nat]
    BY <1>7 DEF ChangePlatformAdmin, IInv, TypeOK
  <2>2. req' \in [Worker -> Request]
    BY <1>7 DEF ChangePlatformAdmin, Begin, IInv, TypeOK, Steps
  <2>3. TypeOK'
    BY <1>7, <2>1, <2>2 DEF ChangePlatformAdmin, IInv, TypeOK, rows, history
  <2>. QED
    BY <1>7, <2>3, RequestMoves DEF ChangePlatformAdmin, Begin, IInv, TypeOK, RequestTrue, Refreshing, rows, history
<1>8. CASE u \in User /\ ChangeClaims(w, u)
  <2>1. claims' \in [User -> Nat]
    BY <1>8 DEF ChangeClaims, IInv, TypeOK
  <2>2. req' \in [Worker -> Request]
    BY <1>8 DEF ChangeClaims, Begin, IInv, TypeOK, Steps
  <2>3. TypeOK'
    BY <1>8, <2>1, <2>2 DEF ChangeClaims, IInv, TypeOK, rows, history
  <2>. QED
    BY <1>8, <2>3, RequestMoves DEF ChangeClaims, Begin, IInv, TypeOK, RequestTrue, Refreshing, rows, history
<1>9. CASE RefreshBurn(w)
  <2>1. req[w].user \in User /\ req[w].tok \in Token \cup {None}
    BY <1>9 DEF RefreshBurn, IInv, TypeOK, Request, RequestsOK, RequestTrue
  <2>2. Start("burn", req[w].user, req[w].tok, 0) \in Request
    BY <2>1 DEF IInv, TypeOK, Steps
  <2>3. /\ req' \in [Worker -> Request]
        /\ req'[w] = Start("burn", req[w].user, req[w].tok, 0)
        /\ \A x \in Worker \ {w} : req'[x] = req[x]
    BY <1>9, <2>2 DEF RefreshBurn, Continue, IInv, TypeOK
  <2>4. TypeOK'
    BY <1>9, <2>3 DEF RefreshBurn, IInv, TypeOK, rows, history
  <2>5. RequestTrue(w)'
    BY <1>9, <2>1, <2>3 DEF RefreshBurn, IInv, RequestsOK, RequestTrue, Refreshing, rows, history
  <2>. QED
    BY <1>9, <2>3, <2>4, <2>5, RequestMoves DEF RefreshBurn, rows, history
<1>10. CASE RefreshRotate(w)
  <2>1. req[w].user \in User /\ req[w].tok \in Token \cup {None}
    BY <1>10 DEF RefreshRotate, IInv, TypeOK, Request, RequestsOK, RequestTrue
  <2>2. Start("rotate", req[w].user, req[w].tok, tv[req[w].user]) \in Request
    BY <2>1 DEF IInv, TypeOK, Steps
  <2>3. /\ req' \in [Worker -> Request]
        /\ req'[w] = Start("rotate", req[w].user, req[w].tok, tv[req[w].user])
        /\ \A x \in Worker \ {w} : req'[x] = req[x]
    BY <1>10, <2>2 DEF RefreshRotate, Continue, IInv, TypeOK
  <2>4. TypeOK'
    BY <1>10, <2>3 DEF RefreshRotate, IInv, TypeOK, rows, history
  <2>5. RequestTrue(w)'
    BY <1>10, <2>1, <2>3 DEF RefreshRotate, IInv, RequestsOK, RequestTrue, Refreshing, rows, history
  <2>. QED
    BY <1>10, <2>3, <2>4, <2>5, RequestMoves DEF RefreshRotate, rows, history
<1>11. CASE ReadRevoke(w)
  <2>1. req[w].user \in User /\ req[w].tok \in Token \cup {None}
    BY <1>11 DEF ReadRevoke, IInv, TypeOK, Request, RequestsOK, RequestTrue
  <2>2. Start("revokeAll", req[w].user, req[w].tok, tv[req[w].user]) \in Request
    BY <2>1 DEF IInv, TypeOK, Steps
  <2>3. /\ req' \in [Worker -> Request]
        /\ req'[w] = Start("revokeAll", req[w].user, req[w].tok, tv[req[w].user])
        /\ \A x \in Worker \ {w} : req'[x] = req[x]
    BY <1>11, <2>2 DEF ReadRevoke, Continue, IInv, TypeOK
  <2>4. TypeOK'
    BY <1>11, <2>3 DEF ReadRevoke, IInv, TypeOK, rows, history
  <2>5. RequestTrue(w)'
    BY <1>11, <2>1, <2>3 DEF ReadRevoke, IInv, RequestsOK, RequestTrue, Refreshing, rows, history
  <2>. QED
    BY <1>11, <2>3, <2>4, <2>5, RequestMoves DEF ReadRevoke, rows, history
<1>12. CASE ReadBump(w)
  <2>1. req[w].user \in User /\ req[w].tok \in Token \cup {None}
    BY <1>12 DEF ReadBump, IInv, TypeOK, Request, RequestsOK, RequestTrue
  <2>2. Start("bump", req[w].user, req[w].tok, tv[req[w].user]) \in Request
    BY <2>1 DEF IInv, TypeOK, Steps
  <2>3. /\ req' \in [Worker -> Request]
        /\ req'[w] = Start("bump", req[w].user, req[w].tok, tv[req[w].user])
        /\ \A x \in Worker \ {w} : req'[x] = req[x]
    BY <1>12, <2>2 DEF ReadBump, Continue, IInv, TypeOK
  <2>4. TypeOK'
    BY <1>12, <2>3 DEF ReadBump, IInv, TypeOK, rows, history
  <2>5. RequestTrue(w)'
    BY <1>12, <2>1, <2>3 DEF ReadBump, IInv, RequestsOK, RequestTrue, Refreshing, rows, history
  <2>. QED
    BY <1>12, <2>3, <2>4, <2>5, RequestMoves DEF ReadBump, rows, history
<1>13. CASE ReadMint(w)
  <2>1. req[w].user \in User /\ req[w].tok \in Token \cup {None}
    BY <1>13 DEF ReadMint, IInv, TypeOK, Request, RequestsOK, RequestTrue
  <2>2. Start("issue", req[w].user, req[w].tok, tv[req[w].user]) \in Request
    BY <2>1 DEF IInv, TypeOK, Steps
  <2>3. /\ req' \in [Worker -> Request]
        /\ req'[w] = Start("issue", req[w].user, req[w].tok, tv[req[w].user])
        /\ \A x \in Worker \ {w} : req'[x] = req[x]
    BY <1>13, <2>2 DEF ReadMint, Continue, IInv, TypeOK
  <2>4. TypeOK'
    BY <1>13, <2>3 DEF ReadMint, IInv, TypeOK, rows, history
  <2>5. RequestTrue(w)'
    BY <1>13, <2>1, <2>3 DEF ReadMint, IInv, RequestsOK, RequestTrue, Refreshing, rows, history
  <2>. QED
    BY <1>13, <2>3, <2>4, <2>5, RequestMoves DEF ReadMint, rows, history
<1>14. CASE Crash(w)
  <2>1. /\ req' \in [Worker -> Request]
        /\ req'[w] = Idle
        /\ \A x \in Worker \ {w} : req'[x] = req[x]
    BY <1>14 DEF Crash, Finish, IInv, TypeOK
  <2>2. TypeOK'
    BY <1>14, <2>1 DEF Crash, IInv, TypeOK, rows
  <2>3. RequestTrue(w)'
    BY <2>1 DEF RequestTrue, Refreshing
  <2>. QED
    BY <1>14, <2>1, <2>2, <2>3, RequestMoves DEF Crash, rows
<1>15. CASE t \in Token /\ RefreshEnded(w, t)
  <2>1. /\ presented' \in [Token -> 0 .. 2]
        /\ \A x \in Token : presented'[x] >= presented[x]
        /\ presented'[t] >= 1
        /\ presented[t] >= 1 => presented'[t] = 2
    BY <1>15 DEF RefreshEnded, Present, IInv, TypeOK
  <2>2. TypeOK'
    BY <1>15, <2>1 DEF RefreshEnded, IInv, TypeOK, rows, history
  <2>3. StoreGrows
    BY <1>15, <2>1 DEF RefreshEnded, StoreGrows, rows, history
  <2>. QED
    BY <1>15, <2>2, <2>3, Preserved DEF RefreshEnded, rows, history
<1>16. CASE t \in Token /\ RefreshReuse(w, t)
  <2>1. /\ presented' \in [Token -> 0 .. 2]
        /\ \A x \in Token : presented'[x] >= presented[x]
        /\ presented'[t] >= 1
        /\ presented[t] >= 1 => presented'[t] = 2
    BY <1>16 DEF RefreshReuse, Present, IInv, TypeOK
  <2>2. /\ row[t].user \in User
        /\ Start("reuse", row[t].user, t, tv[row[t].user]) \in Request
    BY <1>16 DEF IInv, TypeOK, Row, Steps
  <2>3. /\ req' \in [Worker -> Request]
        /\ req'[w] = Start("reuse", row[t].user, t, tv[row[t].user])
        /\ \A x \in Worker \ {w} : req'[x] = req[x]
    BY <1>16, <2>2 DEF RefreshReuse, Begin, IInv, TypeOK
  <2>4. TypeOK'
    BY <1>16, <2>1, <2>3 DEF RefreshReuse, IInv, TypeOK, rows, history
  <2>5. RequestTrue(w)'
    BY <1>16, <2>1, <2>2, <2>3
    DEF RefreshReuse, Live, IInv, TypeOK, ReplacedWasPresented, RequestTrue, Refreshing, rows, history
  <2>6. StoreGrows
    BY <1>16, <2>1 DEF RefreshReuse, StoreGrows, rows, history
  <2>. QED
    BY <1>16, <2>3, <2>4, <2>5, <2>6, Preserved DEF RefreshReuse, rows, history
<1>17. CASE t \in Token /\ RefreshRead(w, t)
  <2>1. /\ presented' \in [Token -> 0 .. 2]
        /\ \A x \in Token : presented'[x] >= presented[x]
        /\ presented'[t] >= 1
        /\ presented[t] >= 1 => presented'[t] = 2
    BY <1>17 DEF RefreshRead, Present, IInv, TypeOK
  <2>2. /\ row[t].user \in User
        /\ Start("stored", row[t].user, t, 0) \in Request
    BY <1>17 DEF IInv, TypeOK, Row, Steps
  <2>3. /\ req' \in [Worker -> Request]
        /\ req'[w] = Start("stored", row[t].user, t, 0)
        /\ \A x \in Worker \ {w} : req'[x] = req[x]
    BY <1>17, <2>2 DEF RefreshRead, Begin, IInv, TypeOK
  <2>4. TypeOK'
    BY <1>17, <2>1, <2>3 DEF RefreshRead, IInv, TypeOK, rows, history
  <2>5. RequestTrue(w)'
    BY <1>17, <2>1, <2>2, <2>3
    DEF RefreshRead, Live, IInv, TypeOK, ReplacedWasPresented, RequestTrue, Refreshing, rows, history
  <2>6. StoreGrows
    BY <1>17, <2>1 DEF RefreshRead, StoreGrows, rows, history
  <2>. QED
    BY <1>17, <2>3, <2>4, <2>5, <2>6, Preserved DEF RefreshRead, rows, history
<1>. QED
  BY <1>1, <1>2, <1>3, <1>4, <1>5, <1>6, <1>7, <1>8, <1>9, <1>10, <1>11, <1>12, <1>13, <1>14, <1>15, <1>16, <1>17 DEF Refresh


(* The commits.  A commit ends the request, except that of accept_invite.  *)
LEMMA WriteSteps ==
  ASSUME IInv, NEW w \in Worker, NEW u, NEW t, NEW f,
         \/ t \in Token /\ Logout(w, t)
         \/ u \in User /\ f \in Token /\ EndSession(w, u, f)
         \/ Issue(w) \/ CommitReuse(w) \/ CommitBurn(w) \/ CommitRotate(w)
         \/ CommitRevokeAll(w) \/ CommitChange(w) \/ CommitBump(w) \/ CommitAccept(w)
  PROVE  IInv' /\ StoreGrows
<1>. USE RequestTyped, StartFields
<1>. DEFINE Ends == /\ req' \in [Worker -> Request]
                    /\ req'[w] = Idle
                    /\ \A x \in Worker \ {w} : req'[x] = req[x]
<1>1. /\ req[w] \in Request
      /\ req[w].tv \in Nat /\ req[w].tv + 1 \in Nat
      /\ req[w].pc \notin {"idle", "off"} => req[w].user \in User
  <2>1. req[w] \in Request
    BY DEF IInv, TypeOK
  <2>2. req[w].tv \in Nat
    BY <2>1 DEF Request
  <2>3. req[w].pc \notin {"idle", "off"} => req[w].user \in User
    BY DEF IInv, RequestsOK, RequestTrue
  <2>. QED
    BY <2>1, <2>2, <2>3
<1>2. Ends => RequestTrue(w)'
  BY DEF RequestTrue, Refreshing
<1>3. RowsOf(req[w].user) \subseteq Token /\ \A g : Family(g) \subseteq Token
  BY DEF IInv, TypeOK, RowsOf, Family
<1>4. CASE t \in Token /\ Logout(w, t)
  <2>1. TypeOK' /\ StoreGrows
    BY <1>4 DEF Logout, IInv, TypeOK, StoreGrows, history
  <2>. QED
    BY <1>4, <2>1, Preserved DEF Logout
<1>5. CASE u \in User /\ f \in Token /\ EndSession(w, u, f)
  <2>1. TypeOK' /\ StoreGrows
    BY <1>5, <1>3 DEF EndSession, IInv, TypeOK, StoreGrows
  <2>. QED
    BY <1>5, <2>1, Preserved DEF EndSession
<1>6. CASE Issue(w)
  <2>1. PICK n \in Token \ issued :
          /\ issued' = issued \cup {n}
          /\ row' = [row EXCEPT ![n] = NewRow(req[w].user, n, req[w].tv)]
    BY <1>6 DEF Issue
  <2>2. NewRow(req[w].user, n, req[w].tv) \in Row
    BY <1>6, <1>1, NewRowFields DEF Issue, IInv
  <2>3. Ends
    BY <1>6 DEF Issue, Finish, IInv, TypeOK
  <2>4. TypeOK' /\ StoreGrows
    BY <1>6, <2>1, <2>2, <2>3 DEF Issue, IInv, TypeOK, StoreGrows, history
  <2>. QED
    BY <1>6, <1>2, <2>3, <2>4, Preserved DEF Issue
<1>7. CASE CommitReuse(w)
  <2>1. Ends
    BY <1>7 DEF CommitReuse, Finish, IInv, TypeOK
  <2>2. req[w].tok \in Token /\ presented[req[w].tok] = 2
    BY <1>7 DEF CommitReuse, IInv, TypeOK, RequestsOK, RequestTrue, Refreshing
  <2>3. TypeOK'
    BY <1>7, <1>1, <1>3, <2>1, <2>2 DEF CommitReuse, IInv, TypeOK
  <2>4. StoreGrows
    BY <1>7, <2>2 DEF CommitReuse, IInv, TypeOK, StoreGrows
  <2>. QED
    BY <1>7, <1>2, <2>1, <2>3, <2>4, Preserved DEF CommitReuse
<1>8. CASE CommitBurn(w)
  <2>1. Ends
    BY <1>8 DEF CommitBurn, Finish, IInv, TypeOK
  <2>2. req[w].tok \in Token
    BY <1>8 DEF CommitBurn, IInv, TypeOK, RequestsOK, RequestTrue, Refreshing
  <2>3. TypeOK' /\ StoreGrows
    BY <1>8, <2>1, <2>2 DEF CommitBurn, IInv, TypeOK, StoreGrows, history
  <2>. QED
    BY <1>8, <1>2, <2>1, <2>3, Preserved DEF CommitBurn
<1>9. CASE CommitRotate(w)
  <2>. DEFINE s == req[w].tok
  <2>1. PICK n \in Token \ issued :
          /\ issued' = issued \cup {n}
          /\ row' = [row EXCEPT ![n] = NewRow(req[w].user, row[s].fam, req[w].tv)]
          /\ next' = [next EXCEPT ![s] = n]
    BY <1>9 DEF CommitRotate
  <2>2. /\ s \in issued /\ s \in Token
        /\ req[w].user = row[s].user
        /\ presented[s] >= 1
        /\ row[s].fam \in Token
    BY <1>9 DEF CommitRotate, IInv, TypeOK, Row, RequestsOK, RequestTrue, Refreshing
  <2>3. /\ NewRow(req[w].user, row[s].fam, req[w].tv) \in Row
        /\ NewRow(req[w].user, row[s].fam, req[w].tv).user = row[s].user
        /\ NewRow(req[w].user, row[s].fam, req[w].tv).fam = row[s].fam
    BY <1>9, <1>1, <2>2, NewRowFields DEF CommitRotate, IInv
  <2>4. Ends
    BY <1>9 DEF CommitRotate, Finish, IInv, TypeOK
  <2>5. TypeOK'
    BY <1>9, <2>1, <2>2, <2>3, <2>4 DEF CommitRotate, IInv, TypeOK, history
  <2>6. StoreGrows
    BY <1>9, <2>1, <2>2 DEF CommitRotate, IInv, TypeOK, StoreGrows, history
  <2>7. Replaces(s) /\ \A x \in Token \ {s} : next'[x] = next[x]
    BY <1>9, <2>1, <2>2, <2>3 DEF CommitRotate, IInv, TypeOK, Replaces
  <2>. QED
    BY <1>2, <2>4, <2>5, <2>6, <2>7, Preserved
<1>10. CASE CommitRevokeAll(w)
  <2>1. Ends
    BY <1>10 DEF CommitRevokeAll, Finish, IInv, TypeOK
  <2>2. TypeOK' /\ StoreGrows
    BY <1>10, <1>1, <1>3, <2>1 DEF CommitRevokeAll, IInv, TypeOK, StoreGrows
  <2>. QED
    BY <1>10, <1>2, <2>1, <2>2, Preserved DEF CommitRevokeAll
<1>11. CASE CommitChange(w)
  <2>1. PICK n \in Token \ issued :
          /\ issued' = issued \cup {n}
          /\ row' = [row EXCEPT ![n] = NewRow(req[w].user, n, req[w].tv + 1)]
    BY <1>11 DEF CommitChange
  <2>2. NewRow(req[w].user, n, req[w].tv + 1) \in Row
    BY <1>11, <1>1, NewRowFields DEF CommitChange, IInv
  <2>3. Ends
    BY <1>11 DEF CommitChange, Finish, IInv, TypeOK
  <2>4. TypeOK' /\ StoreGrows
    BY <1>11, <1>1, <1>3, <2>1, <2>2, <2>3 DEF CommitChange, IInv, TypeOK, StoreGrows
  <2>. QED
    BY <1>11, <1>2, <2>3, <2>4, Preserved DEF CommitChange
<1>12. CASE CommitBump(w)
  <2>1. Ends
    BY <1>12 DEF CommitBump, Finish, IInv, TypeOK
  <2>2. TypeOK' /\ StoreGrows
    BY <1>12, <1>1, <1>3, <2>1 DEF CommitBump, IInv, TypeOK, StoreGrows, rows
  <2>. QED
    BY <1>12, <1>2, <2>1, <2>2, Preserved DEF CommitBump, rows
<1>13. CASE CommitAccept(w)
  <2>1. req[w].user \in User /\ req[w].tok \in Token \cup {None}
    BY <1>13, <1>1 DEF CommitAccept, Request
  <2>2. Start("mint", req[w].user, req[w].tok, 0) \in Request
    BY <2>1 DEF Steps
  <2>3. /\ req' \in [Worker -> Request]
        /\ req'[w] = Start("mint", req[w].user, req[w].tok, 0)
        /\ \A x \in Worker \ {w} : req'[x] = req[x]
    BY <1>13, <2>2 DEF CommitAccept, Continue, IInv, TypeOK
  <2>4. claims' \in [User -> Nat]
    BY <1>13, <2>1 DEF CommitAccept, IInv, TypeOK
  <2>5. TypeOK' /\ StoreGrows
    BY <1>13, <1>1, <1>3, <2>3, <2>4 DEF CommitAccept, IInv, TypeOK, StoreGrows, rows
  <2>6. RequestTrue(w)'
    BY <2>1, <2>3 DEF RequestTrue, Refreshing
  <2>. QED
    BY <1>13, <2>3, <2>5, <2>6, Preserved DEF CommitAccept, rows
<1>. QED
  BY <1>4, <1>5, <1>6, <1>7, <1>8, <1>9, <1>10, <1>11, <1>12, <1>13

LEMMA StutterStep == ASSUME IInv, UNCHANGED vars PROVE IInv' /\ StoreGrows
BY DEF vars, rows, StoreGrows, IInv, TypeOK, RequestsOK, RequestTrue, ReplacedWasPresented,
       RotationStaysInFamily, NoFalseAlarm

LEMMA NextIInv == IInv /\ [Next]_vars => IInv' /\ StoreGrows
<1> SUFFICES ASSUME IInv, Next PROVE IInv' /\ StoreGrows
  BY StutterStep
<1>1. PICK w \in Worker :
        \/ \E u \in User :
             \/ Login(w, u) \/ RevokeAll(w, u) \/ ChangePassword(w, u)
             \/ Deactivate(w, u) \/ Reactivate(w, u) \/ ChangePlatformAdmin(w, u)
             \/ ChangeClaims(w, u) \/ AcceptInvite(w, u)
             \/ \E f \in Token : EndSession(w, u, f)
        \/ \E t \in Token : Refresh(w, t) \/ Logout(w, t)
        \/ Commit(w)
        \/ Crash(w)
  BY Zenon DEF Next
<1>. QED
  BY <1>1, ReadSteps, WriteSteps DEF Commit

-----------------------------------------------------------------------------
(* The theorems.                                                           *)

LEMMA SpecIInv == Spec => []IInv
<1>1. Init => IInv
  BY InitIInv
<1>2. IInv /\ [Next]_vars => IInv'
  BY NextIInv
<1>. QED
  BY <1>1, <1>2, PTL DEF Spec

(* The store and the requests stay well typed. *)
THEOREM TypeCorrect == Spec => []TypeOK
<1>1. IInv => TypeOK
  BY DEF IInv
<1>. QED
  BY <1>1, SpecIInv, PTL

(* However many requests rotate, revoke and burn at once, a rotation never *)
(* links a row to a row of another family or account, nor leaves the       *)
(* replaced row usable (rotate_refresh_token).                             *)
THEOREM RotationNeverLeaves == Spec => []RotationStaysInFamily
<1>1. IInv => RotationStaysInFamily
  BY DEF IInv
<1>. QED
  BY <1>1, SpecIInv, PTL

(* However many requests are in flight, the theft alarm of                 *)
(* rotate_refresh_token is never raised for a row presented only once.     *)
THEOREM AlarmNeedsReplay == Spec => []NoFalseAlarm
<1>1. IInv => NoFalseAlarm
  BY DEF IInv
<1>. QED
  BY <1>1, SpecIInv, PTL

(* What a step may do to a family: a new row starts a family of its own or *)
(* follows a rotation in flight, and a rotation starts from a live row.    *)
Rotating(w) == req[w].pc \in {"stored", "rotate"}

Breeds ==
  \A x \in issued' \ issued :
    \/ row'[x].fam = x
    \/ \E w \in Worker : Rotating(w) /\ row'[x].fam = row[req[w].tok].fam

StartsLive ==
  \A w \in Worker : Rotating(w)' =>
    \/ Rotating(w) /\ req'[w].tok = req[w].tok
    \/ Live(req'[w].tok)

LEMMA EndedKept ==
  ASSUME IInv, IInv', StoreGrows, Breeds, StartsLive, NEW f \in Token, Ended(f)
  PROVE  Ended(f)'
<1>1. f \in issued'
  BY DEF Ended, StoreGrows
<1>2. ~RotationInFlight(f)'
  <2> SUFFICES ASSUME NEW w \in Worker, Rotating(w)', row'[req'[w].tok].fam = f
               PROVE  FALSE
    BY DEF RotationInFlight, Rotating
  <2>1. CASE Rotating(w) /\ req'[w].tok = req[w].tok
    BY <2>1 DEF Rotating, Ended, RotationInFlight, IInv, RequestsOK, RequestTrue, Refreshing,
                StoreGrows
  <2>2. CASE Live(req'[w].tok)
    BY <2>2 DEF Live, Ended, Family, StoreGrows
  <2>. QED
    BY <2>1, <2>2 DEF StartsLive
<1>3. ASSUME NEW x \in Family(f)'
      PROVE  x \in revoked'
  <2>1. CASE x \in issued
    BY <2>1, <1>3 DEF Family, Ended, StoreGrows
  <2>2. CASE x \notin issued
    BY <2>2, <1>3 DEF Family, Breeds, Rotating, Ended, RotationInFlight
  <2>. QED
    BY <2>1, <2>2
<1>. QED
  BY <1>1, <1>2, <1>3 DEF Ended

(* A step that issues nothing, and moves one request w to a step that is   *)
(* not a rotation, a rotation it already was, or one of a live row.        *)
LEMMA QuietStep ==
  ASSUME IInv, NEW w \in Worker, UNCHANGED <<issued, row>>,
         \A x \in Worker \ {w} : req'[x] = req[x],
         \/ ~Rotating(w)'
         \/ Rotating(w) /\ req'[w].tok = req[w].tok
         \/ Live(req'[w].tok)
  PROVE  Breeds /\ StartsLive
BY DEF Breeds, StartsLive, Rotating

LEMMA NextBreeds ==
  ASSUME IInv, Next
  PROVE  Breeds /\ StartsLive
<1>1. PICK w \in Worker :
        \/ \E u \in User :
             \/ Login(w, u) \/ RevokeAll(w, u) \/ ChangePassword(w, u)
             \/ Deactivate(w, u) \/ Reactivate(w, u) \/ ChangePlatformAdmin(w, u)
             \/ ChangeClaims(w, u) \/ AcceptInvite(w, u)
             \/ \E f \in Token : EndSession(w, u, f)
        \/ \E t \in Token : Refresh(w, t) \/ Logout(w, t)
        \/ Commit(w)
        \/ Crash(w)
  BY Zenon DEF Next
<1>2. \A r : req' = [req EXCEPT ![w] = r] =>
        req'[w] = r /\ \A x \in Worker \ {w} : req'[x] = req[x]
  BY DEF IInv, TypeOK
<1>. USE StartFields
<1>3. CASE \E u \in User : Login(w, u) \/ RevokeAll(w, u) \/ ChangePassword(w, u)
  <2>1. /\ ~Rotating(w)'
        /\ \A x \in Worker \ {w} : req'[x] = req[x]
    BY <1>3 DEF Login, RevokeAll, ChangePassword, Begin, Rotating, Start, IInv, TypeOK
  <2>2. UNCHANGED <<issued, row>>
    BY <1>3 DEF Login, RevokeAll, ChangePassword, rows, history
  <2>. QED
    BY <2>1, <2>2, QuietStep
<1>4. CASE \E u \in User : Deactivate(w, u) \/ ChangePlatformAdmin(w, u)
                               \/ ChangeClaims(w, u) \/ AcceptInvite(w, u)
  <2>1. /\ ~Rotating(w)'
        /\ \A x \in Worker \ {w} : req'[x] = req[x]
    BY <1>4 DEF Deactivate, ChangePlatformAdmin, ChangeClaims, AcceptInvite, Begin, Rotating, Start, IInv, TypeOK
  <2>2. UNCHANGED <<issued, row>>
    BY <1>4 DEF Deactivate, ChangePlatformAdmin, ChangeClaims, AcceptInvite, rows, history
  <2>. QED
    BY <2>1, <2>2, QuietStep
<1>5. CASE \E u \in User : Reactivate(w, u) \/ \E f \in Token : EndSession(w, u, f)
  BY <1>5, <1>2, QuietStep
  DEF Reactivate, EndSession, Rotating, rows, history
<1>6. CASE \E t \in Token : RefreshEnded(w, t) \/ Logout(w, t)
  BY <1>6, <1>2, QuietStep
  DEF RefreshEnded, Logout, Rotating, rows, history
<1>7. CASE \E t \in Token : RefreshReuse(w, t) \/ RefreshRead(w, t)
  <2>1. /\ ~Rotating(w)' \/ Live(req'[w].tok)
        /\ \A x \in Worker \ {w} : req'[x] = req[x]
    BY <1>7 DEF RefreshReuse, RefreshRead, Begin, Live, Rotating, Start, IInv, TypeOK
  <2>2. UNCHANGED <<issued, row>>
    BY <1>7 DEF RefreshReuse, RefreshRead, rows, history
  <2>. QED
    BY <2>1, <2>2, QuietStep
<1>8. CASE RefreshBurn(w) \/ RefreshRotate(w) \/ ReadRevoke(w) \/ ReadBump(w) \/ ReadMint(w)
  <2>1. /\ ~Rotating(w)' \/ (Rotating(w) /\ req'[w].tok = req[w].tok)
        /\ \A x \in Worker \ {w} : req'[x] = req[x]
    BY <1>8 DEF RefreshBurn, RefreshRotate, ReadRevoke, ReadBump, ReadMint, Continue, Rotating, Start, IInv, TypeOK
  <2>2. UNCHANGED <<issued, row>>
    BY <1>8 DEF RefreshBurn, RefreshRotate, ReadRevoke, ReadBump, ReadMint, rows, history
  <2>. QED
    BY <2>1, <2>2, QuietStep
<1>9. CASE CommitReuse(w) \/ CommitBurn(w) \/ CommitRevokeAll(w) \/ CommitBump(w) \/ Crash(w)
  BY <1>9, <1>2, QuietStep
  DEF CommitReuse, CommitBurn, CommitRevokeAll, CommitBump, Crash, Finish,
      Rotating, rows, history
<1>10. CASE CommitAccept(w)
  BY <1>10, <1>2, QuietStep
  DEF CommitAccept, Continue, Rotating, rows
<1>11. CASE Issue(w)
  <2>1. PICK n \in Token \ issued :
          issued' = issued \cup {n} /\ row' = [row EXCEPT ![n] = NewRow(req[w].user, n, req[w].tv)]
    BY <1>11 DEF Issue
  <2>2. row'[n].fam = n
    BY <2>1 DEF NewRow, IInv, TypeOK
  <2>. QED
    BY <1>11, <1>2, <2>1, <2>2 DEF Issue, Finish, Breeds, StartsLive, Rotating
<1>12. CASE CommitChange(w)
  <2>1. PICK n \in Token \ issued :
          issued' = issued \cup {n} /\ row' = [row EXCEPT ![n] = NewRow(req[w].user, n, req[w].tv + 1)]
    BY <1>12 DEF CommitChange
  <2>2. row'[n].fam = n
    BY <2>1 DEF NewRow, IInv, TypeOK
  <2>. QED
    BY <1>12, <1>2, <2>1, <2>2 DEF CommitChange, Finish, Breeds, StartsLive, Rotating
<1>13. CASE CommitRotate(w)
  <2>1. PICK n \in Token \ issued :
          /\ issued' = issued \cup {n}
          /\ row' = [row EXCEPT ![n] = NewRow(req[w].user, row[req[w].tok].fam, req[w].tv)]
    BY <1>13 DEF CommitRotate
  <2>2. row'[n].fam = row[req[w].tok].fam
    BY <2>1 DEF NewRow, IInv, TypeOK
  <2>. QED
    BY <1>13, <1>2, <2>1, <2>2 DEF CommitRotate, Finish, Breeds, StartsLive, Rotating
<1>. QED
  BY <1>1, <1>3, <1>4, <1>5, <1>6, <1>7, <1>8, <1>9, <1>10, <1>11, <1>12, <1>13 DEF Refresh, Commit

(* A family with no live row and no rotation in flight never mints again:  *)
(* no handler, in any order, brings it back.                               *)
THEOREM EndedForGood == Spec => EndedStaysEnded
<1>1. ASSUME IInv, IInv', [Next]_vars
      PROVE  [\A f \in Token : Ended(f) => Ended(f)']_vars
  <2> SUFFICES ASSUME Next, NEW f \in Token, Ended(f)
               PROVE  Ended(f)'
    BY <1>1
  <2>. QED
    BY <1>1, NextIInv, NextBreeds, EndedKept
<1>. QED
  BY <1>1, SpecIInv, PTL DEF Spec, EndedStaysEnded
-----------------------------------------------------------------------------
(* One request at a time.  While the other workers are off, what a request *)
(* read is still so when it commits, and from that follows what            *)
(* rotate_refresh_token, revoke_session and bump_token_version say of      *)
(* themselves.                                                             *)
OnlyOn(w) == \A v \in Worker \ {w} : req[v] = Off

Versioned == {"issue", "rotate", "reuse", "revokeAll", "bump", "accept", "change"}
Bumping   == {"readRevoke", "revokeAll", "readBump", "bump"}

(* The request's row is live and the version it read is the account's. *)
ReadsCurrent(w) ==
  /\ req[w].pc \in {"stored", "rotate"} => Live(req[w].tok)
  /\ req[w].pc \in Versioned => req[w].tv = tv[req[w].user]

(* No row carries a version its account has not reached, and a condemned   *)
(* row one that the account has left behind.                               *)
RowsNotAhead ==
  /\ \A t \in issued : row[t].tv <= tv[row[t].user]
  /\ \A t \in condemned : t \in issued /\ row[t].tv < tv[row[t].user]

(* A family is named by a row of its own and of the same account. *)
FamilyHasHead ==
  \A t \in issued :
    /\ row[t].fam \in issued
    /\ row[row[t].fam].fam = row[t].fam
    /\ row[row[t].fam].user = row[t].user

SignedOutRevoked ==
  /\ signedOut \subseteq issued
  /\ \A t \in issued : row[t].fam \in signedOut => t \in revoked

(* A pair of the present version says what the account may do, unless the  *)
(* request that changed that is still to bump the version.                 *)
BumpPending(w, u) == req[w].pc \in Bumping /\ req[w].user = u

ClaimsOrBump(w) ==
  crashes = 0 =>
    \A t \in issued : row[t].tv = tv[row[t].user] =>
      \/ row[t].claims = claims[row[t].user]
      \/ BumpPending(w, row[t].user)

SerialInv(w) ==
  /\ OneLivePerFamily
  /\ ReadsCurrent(w)
  /\ RowsNotAhead
  /\ FamilyHasHead
  /\ SignedOutRevoked
  /\ ClaimsOrBump(w)

Serial == \A w \in Worker : OnlyOn(w) => SerialInv(w)

(* What worker w may do. *)
Acts(w) ==
  \/ \E u \in User :
       \/ Login(w, u) \/ RevokeAll(w, u) \/ ChangePassword(w, u)
       \/ Deactivate(w, u) \/ Reactivate(w, u) \/ ChangePlatformAdmin(w, u)
       \/ ChangeClaims(w, u) \/ AcceptInvite(w, u)
       \/ \E f \in Token : EndSession(w, u, f)
  \/ \E t \in Token : Refresh(w, t) \/ Logout(w, t)
  \/ Commit(w)
  \/ Crash(w)

LEMMA NextActs == Next => \E w \in Worker : Acts(w)
BY Zenon DEF Next, Acts

(* The worker that acts runs, before and after, and no other moves. *)
LEMMA ActorIsOn ==
  ASSUME IInv, NEW w \in Worker, Acts(w)
  PROVE  /\ req[w] # Off /\ req'[w] # Off
         /\ \A v \in Worker \ {w} : req'[v] = req[v]
<1>1. Off.pc = "off" /\ Idle # Off /\ \A pc, u, t, v : pc # "off" => Start(pc, u, t, v) # Off
  BY DEF Off, Idle, Start
<1>2. \A r : req' = [req EXCEPT ![w] = r] => req'[w] = r /\ \A v \in Worker \ {w} : req'[v] = req[v]
  BY DEF IInv, TypeOK
<1>3. CASE \E u \in User : Login(w, u) \/ RevokeAll(w, u) \/ ChangePassword(w, u) \/ AcceptInvite(w, u)
                          \/ Deactivate(w, u) \/ ChangePlatformAdmin(w, u) \/ ChangeClaims(w, u)
  <2>1. req[w] = Idle /\ \E pc, u, t, v : pc # "off" /\ req' = [req EXCEPT ![w] = Start(pc, u, t, v)]
    BY <1>3 DEF Login, RevokeAll, ChangePassword, AcceptInvite, Deactivate, ChangePlatformAdmin,
                ChangeClaims, Begin
  <2>. QED
    BY <2>1, <1>1, <1>2
<1>4. CASE \E t \in Token : RefreshReuse(w, t) \/ RefreshRead(w, t)
  <2>1. req[w] = Idle /\ \E pc, u, t, v : pc # "off" /\ req' = [req EXCEPT ![w] = Start(pc, u, t, v)]
    BY <1>4 DEF RefreshReuse, RefreshRead, Begin
  <2>. QED
    BY <2>1, <1>1, <1>2
<1>5. CASE \/ \E u \in User : Reactivate(w, u) \/ \E f \in Token : EndSession(w, u, f)
           \/ \E t \in Token : RefreshEnded(w, t) \/ Logout(w, t)
  BY <1>5, <1>1 DEF Reactivate, EndSession, RefreshEnded, Logout, history
<1>6. CASE RefreshBurn(w) \/ RefreshRotate(w) \/ ReadRevoke(w) \/ ReadBump(w) \/ CommitAccept(w) \/ ReadMint(w)
  <2>1. req[w].pc # "off" /\ \E pc, u, t, v : pc # "off" /\ req' = [req EXCEPT ![w] = Start(pc, u, t, v)]
    BY <1>6 DEF RefreshBurn, RefreshRotate, ReadRevoke, ReadBump, CommitAccept, ReadMint, Continue
  <2>. QED
    BY <2>1, <1>1, <1>2
<1>7. CASE Issue(w) \/ CommitReuse(w) \/ CommitBurn(w) \/ CommitRotate(w) \/ CommitRevokeAll(w)
           \/ CommitChange(w) \/ CommitBump(w) \/ Crash(w)
  <2>1. req[w] # Off /\ req' = [req EXCEPT ![w] = Idle]
    BY <1>7, <1>1 DEF Issue, CommitReuse, CommitBurn, CommitRotate, CommitRevokeAll, CommitChange,
                CommitBump, Crash, Finish
  <2>. QED
    BY <2>1, <1>1, <1>2
<1>. QED
  BY <1>3, <1>4, <1>5, <1>6, <1>7 DEF Acts, Refresh, Commit

(* Nobody is issued a row, no version and no claim moves: the request only *)
(* has to remember the truth, and may forget a bump only by crashing.      *)
LEMMA QuietSerial ==
  ASSUME IInv, IInv', NEW w \in Worker, SerialInv(w),
         UNCHANGED <<issued, row, tv, claims, signedOut, condemned>>,
         revoked \subseteq revoked', ReadsCurrent(w)',
         crashes' = 0 => crashes = 0 /\ (req[w].pc \in Bumping => req'[w].pc \in Bumping /\ req'[w].user = req[w].user)
  PROVE  SerialInv(w)'
<1>1. OneLivePerFamily'
  BY DEF SerialInv, OneLivePerFamily, Live
<1>2. RowsNotAhead' /\ FamilyHasHead' /\ SignedOutRevoked'
  BY DEF SerialInv, RowsNotAhead, FamilyHasHead, SignedOutRevoked
<1>3. ClaimsOrBump(w)'
  BY DEF SerialInv, ClaimsOrBump, BumpPending
<1>. QED
  BY <1>1, <1>2, <1>3 DEF SerialInv

(* An authorisation change is committed: the bump is pending. *)
LEMMA ChangeSerial ==
  ASSUME IInv, IInv', NEW w \in Worker, SerialInv(w), NEW u \in User,
         UNCHANGED <<issued, row, tv, revoked, signedOut, condemned, crashes>>,
         \A x \in User \ {u} : claims'[x] = claims[x],
         req[w] = Idle, req'[w].pc \in Bumping \ Versioned, req'[w].user = u
  PROVE  SerialInv(w)'
<1>1. OneLivePerFamily' /\ RowsNotAhead' /\ FamilyHasHead' /\ SignedOutRevoked'
  BY DEF SerialInv, OneLivePerFamily, Live, RowsNotAhead, FamilyHasHead, SignedOutRevoked
<1>2. ReadsCurrent(w)'
  BY DEF ReadsCurrent, Bumping, Versioned
<1>3. ~\E x : BumpPending(w, x)
  BY DEF BumpPending, Bumping, Idle
<1>4. ClaimsOrBump(w)'
  <2> SUFFICES ASSUME crashes = 0, NEW t \in issued, row[t].tv = tv[row[t].user]
               PROVE  row[t].claims = claims'[row[t].user] \/ BumpPending(w, row[t].user)'
    BY DEF ClaimsOrBump
  <2>1. row[t].user \in User
    BY DEF IInv, TypeOK, Row
  <2>. QED
    BY <2>1, <1>3 DEF SerialInv, ClaimsOrBump, BumpPending
<1>. QED
  BY <1>1, <1>2, <1>4 DEF SerialInv

(* The version of account u is bumped: every row it has is left behind. *)
LEMMA BumpSerial ==
  ASSUME IInv, IInv', NEW w \in Worker, SerialInv(w), NEW u \in User,
         UNCHANGED <<issued, row, signedOut, crashes>>,
         revoked \subseteq revoked',
         tv' = [tv EXCEPT ![u] = tv[u] + 1],
         condemned' = condemned \cup RowsOf(u),
         \A x \in User \ {u} : claims'[x] = claims[x],
         req[w].pc \in Bumping => req[w].user = u,
         req'[w].pc \notin Versioned \cup {"stored"}
  PROVE  SerialInv(w)'
<1>1. \A t \in issued : row[t].user \in User /\ row[t].tv \in Nat
  BY DEF IInv, TypeOK, Row
<1>2. tv'[u] = tv[u] + 1 /\ tv[u] \in Nat /\ \A x \in User \ {u} : tv'[x] = tv[x] /\ tv[x] \in Nat
  BY DEF IInv, TypeOK
<1>3. OneLivePerFamily' /\ FamilyHasHead' /\ SignedOutRevoked'
  BY DEF SerialInv, OneLivePerFamily, Live, FamilyHasHead, SignedOutRevoked
<1>4. ReadsCurrent(w)'
  BY DEF ReadsCurrent, Versioned
<1>5. \A t \in RowsOf(u) : row[t].tv < tv'[row[t].user]
  BY <1>1, <1>2 DEF SerialInv, RowsNotAhead, RowsOf
<1>6. RowsNotAhead'
  <2>1. \A t \in issued : row[t].tv <= tv'[row[t].user]
    BY <1>1, <1>2 DEF SerialInv, RowsNotAhead
  <2>2. \A t \in condemned : t \in issued /\ row[t].tv < tv'[row[t].user]
    BY <1>1, <1>2 DEF SerialInv, RowsNotAhead
  <2>. QED
    BY <2>1, <2>2, <1>5 DEF RowsNotAhead, RowsOf
<1>7. ClaimsOrBump(w)'
  <2> SUFFICES ASSUME crashes = 0, NEW t \in issued, row[t].tv = tv'[row[t].user]
               PROVE  row[t].claims = claims'[row[t].user]
    BY DEF ClaimsOrBump
  <2>1. row[t].user # u
    BY <1>1, <1>2, <1>5 DEF RowsOf
  <2>. QED
    BY <2>1, <1>1, <1>2 DEF SerialInv, ClaimsOrBump, BumpPending
<1>. QED
  BY <1>3, <1>4, <1>6, <1>7 DEF SerialInv

(* The reads, the burn, the sign-out of one row, and the crash. *)
LEMMA SerialReads ==
  ASSUME IInv, IInv', NEW w \in Worker, SerialInv(w), NEW u, NEW t,
         \/ /\ u \in User
            /\ \/ Login(w, u) \/ RevokeAll(w, u) \/ ChangePassword(w, u) \/ AcceptInvite(w, u)
               \/ Deactivate(w, u) \/ Reactivate(w, u)
         \/ t \in Token /\ (Refresh(w, t) \/ Logout(w, t))
         \/ RefreshBurn(w) \/ CommitBurn(w) \/ RefreshRotate(w)
         \/ ReadRevoke(w) \/ ReadBump(w) \/ ReadMint(w) \/ Crash(w)
  PROVE  SerialInv(w)'
<1>. USE StartFields
<1>1. \A r : req' = [req EXCEPT ![w] = r] => req'[w] = r
  BY DEF IInv, TypeOK
<1>2. revoked' = revoked => revoked \subseteq revoked'
  OBVIOUS
<1>3. CASE u \in User /\ (Login(w, u) \/ RevokeAll(w, u) \/ ChangePassword(w, u) \/ AcceptInvite(w, u))
  <2>1. \E pc \in {"issue", "revokeAll", "change", "accept"} : Begin(w, Start(pc, u, None, tv[u]))
    BY <1>3 DEF Login, RevokeAll, ChangePassword, AcceptInvite
  <2>2. UNCHANGED <<active, tv, claims, rows, history>>
    BY <1>3 DEF Login, RevokeAll, ChangePassword, AcceptInvite
  <2>3. ReadsCurrent(w)'
    BY <2>1, <2>2, <1>1 DEF Begin, ReadsCurrent, Versioned
  <2>4. req[w].pc \notin Bumping
    BY <2>1 DEF Begin, Bumping
  <2>. QED
    BY <2>2, <2>3, <2>4, <1>2, QuietSerial DEF rows, history
<1>4. CASE u \in User /\ (Deactivate(w, u) \/ Reactivate(w, u))
  <2>1. UNCHANGED <<tv, claims, rows, history>> /\ req[w] = Idle
    BY <1>4 DEF Deactivate, Reactivate, Begin
  <2>2. req'[w] = Idle \/ req'[w].pc = "readRevoke"
    <3>1. CASE Deactivate(w, u)
      BY <3>1, <1>1 DEF Deactivate, Begin
    <3>2. CASE Reactivate(w, u)
      BY <3>2 DEF Reactivate
    <3>. QED
      BY <1>4, <3>1, <3>2
  <2>3. ReadsCurrent(w)' /\ req[w].pc \notin Bumping
    BY <2>1, <2>2 DEF ReadsCurrent, Versioned, Bumping
  <2>. QED
    BY <2>1, <2>3, <1>2, QuietSerial DEF rows, history
<1>5. CASE t \in Token /\ (RefreshEnded(w, t) \/ Logout(w, t))
  <2>1. /\ UNCHANGED <<issued, row, tv, claims, req, signedOut, condemned, crashes>>
        /\ revoked \subseteq revoked' /\ req[w] = Idle
    BY <1>5 DEF RefreshEnded, Logout, rows, history
  <2>2. ReadsCurrent(w)' /\ req[w].pc \notin Bumping
    BY <2>1 DEF ReadsCurrent, Versioned, Bumping
  <2>. QED
    BY <2>1, <2>2, QuietSerial
<1>6. CASE t \in Token /\ (RefreshReuse(w, t) \/ RefreshRead(w, t))
  <2>1. /\ UNCHANGED <<tv, claims, rows, signedOut, condemned, crashes>> /\ req[w] = Idle
        /\ \/ req'[w] = Start("reuse", row[t].user, t, tv[row[t].user])
           \/ req'[w] = Start("stored", row[t].user, t, 0) /\ Live(t)
    BY <1>6, <1>1 DEF RefreshReuse, RefreshRead, Begin
  <2>2. ReadsCurrent(w)' /\ req[w].pc \notin Bumping
    BY <2>1 DEF ReadsCurrent, Versioned, Bumping, Live, rows
  <2>. QED
    BY <2>1, <2>2, <1>2, QuietSerial DEF rows
<1>7. CASE RefreshBurn(w) \/ RefreshRotate(w) \/ ReadRevoke(w) \/ ReadBump(w) \/ ReadMint(w)
  <2>1. UNCHANGED <<active, tv, claims, rows, history>>
    BY <1>7 DEF RefreshBurn, RefreshRotate, ReadRevoke, ReadBump, ReadMint
  <2>2. \/ req[w].pc = "stored" /\ req'[w] = Start("burn", req[w].user, req[w].tok, 0)
        \/ req[w].pc = "stored" /\ req'[w] = Start("rotate", req[w].user, req[w].tok, tv[req[w].user])
        \/ req[w].pc = "readRevoke" /\ req'[w] = Start("revokeAll", req[w].user, req[w].tok, tv[req[w].user])
        \/ req[w].pc = "readBump" /\ req'[w] = Start("bump", req[w].user, req[w].tok, tv[req[w].user])
        \/ req[w].pc = "mint" /\ req'[w] = Start("issue", req[w].user, req[w].tok, tv[req[w].user])
    BY <1>7, <1>1 DEF RefreshBurn, RefreshRotate, ReadRevoke, ReadBump, ReadMint, Continue
  <2>3. ReadsCurrent(w)'
    BY <2>1, <2>2 DEF SerialInv, ReadsCurrent, Versioned, Live, rows
  <2>4. req[w].pc \in Bumping => req'[w].pc \in Bumping /\ req'[w].user = req[w].user
    BY <2>2 DEF Bumping
  <2>. QED
    BY <2>1, <2>3, <2>4, <1>2, QuietSerial DEF rows, history
<1>8. CASE CommitBurn(w)
  <2>1. req'[w] = Idle /\ req[w].pc \notin Bumping
    BY <1>8, <1>1 DEF CommitBurn, Finish, Bumping
  <2>2. ReadsCurrent(w)'
    BY <2>1 DEF ReadsCurrent, Versioned
  <2>3. /\ UNCHANGED <<issued, row, tv, claims, signedOut, condemned, crashes>>
        /\ revoked \subseteq revoked'
    BY <1>8 DEF CommitBurn, history
  <2>. QED
    BY <2>1, <2>2, <2>3, QuietSerial
<1>9. CASE Crash(w)
  <2>1. req'[w] = Idle /\ crashes' # 0
    BY <1>9, <1>1 DEF Crash, Finish, IInv, TypeOK
  <2>2. ReadsCurrent(w)'
    BY <2>1 DEF ReadsCurrent, Versioned
  <2>. QED
    BY <1>9, <2>1, <2>2, <1>2, QuietSerial DEF Crash, rows
<1>. QED
  BY <1>3, <1>4, <1>5, <1>6, <1>7, <1>8, <1>9 DEF Refresh

(* The commits that move a version or a claim. *)
LEMMA SerialBumps ==
  ASSUME IInv, IInv', NEW w \in Worker, SerialInv(w), NEW u,
         \/ u \in User /\ (ChangePlatformAdmin(w, u) \/ ChangeClaims(w, u))
         \/ CommitReuse(w) \/ CommitRevokeAll(w) \/ CommitBump(w) \/ CommitAccept(w)
  PROVE  SerialInv(w)'
<1>. USE StartFields
<1>1. \A r : req' = [req EXCEPT ![w] = r] => req'[w] = r
  BY DEF IInv, TypeOK
<1>2. CASE u \in User /\ (ChangePlatformAdmin(w, u) \/ ChangeClaims(w, u))
  <2>1. /\ req[w] = Idle /\ req'[w].pc \in {"readRevoke", "readBump"} /\ req'[w].user = u
        /\ \A x \in User \ {u} : claims'[x] = claims[x]
    BY <1>2, <1>1 DEF ChangePlatformAdmin, ChangeClaims, Begin, IInv, TypeOK
  <2>2. UNCHANGED <<tv, rows, history>>
    BY <1>2 DEF ChangePlatformAdmin, ChangeClaims
  <2>3. req'[w].pc \in Bumping \ Versioned
    BY <2>1 DEF Bumping, Versioned
  <2>. QED
    BY <1>2, <2>1, <2>2, <2>3, ChangeSerial DEF rows, history
<1>3. CASE CommitReuse(w) \/ CommitRevokeAll(w) \/ CommitBump(w) \/ CommitAccept(w)
  <2>. DEFINE a == req[w].user
  <2>1. req[w].pc \in Versioned /\ a \in User
    BY <1>3 DEF CommitReuse, CommitRevokeAll, CommitBump, CommitAccept, Versioned, IInv, RequestsOK, RequestTrue
  <2>2. tv' = [tv EXCEPT ![a] = req[w].tv + 1] /\ condemned' = condemned \cup RowsOf(a)
    BY <1>3 DEF CommitReuse, CommitRevokeAll, CommitBump, CommitAccept
  <2>3. req[w].tv = tv[a]
    BY <2>1 DEF SerialInv, ReadsCurrent
  <2>4. tv' = [tv EXCEPT ![a] = tv[a] + 1]
    BY <2>2, <2>3
  <2>5. UNCHANGED <<issued, row, signedOut, crashes>> /\ revoked \subseteq revoked'
    BY <1>3 DEF CommitReuse, CommitRevokeAll, CommitBump, CommitAccept, rows
  <2>6. req'[w] = Idle \/ req'[w].pc = "mint"
    <3>1. CASE CommitReuse(w) \/ CommitRevokeAll(w) \/ CommitBump(w)
      BY <3>1, <1>1 DEF CommitReuse, CommitRevokeAll, CommitBump, Finish
    <3>2. CASE CommitAccept(w)
      <4>1. req' = [req EXCEPT ![w] = Start("mint", req[w].user, req[w].tok, 0)]
        BY <3>2 DEF CommitAccept, Continue
      <4>2. req'[w] = Start("mint", req[w].user, req[w].tok, 0)
        BY <4>1, <1>1
      <4>. QED
        BY <4>2
    <3>. QED
      BY <1>3, <3>1, <3>2
  <2>7. \A x \in User \ {a} : claims'[x] = claims[x]
    BY <1>3 DEF CommitReuse, CommitRevokeAll, CommitBump, CommitAccept, IInv, TypeOK
  <2>8. req'[w].pc \notin Versioned \cup {"stored"}
    BY <2>6 DEF Versioned
  <2>. HIDE DEF a
  <2>9. req[w].pc \in Bumping => req[w].user = a
    BY DEF a
  <2>. QED
    BY <2>1, <2>2, <2>4, <2>5, <2>7, <2>8, <2>9, BumpSerial
<1>. QED
  BY <1>2, <1>3

(* A family of the caller's own is signed out: it is revoked whole. *)
LEMMA SerialEndSession ==
  ASSUME IInv, IInv', NEW w \in Worker, SerialInv(w), NEW u \in User, NEW f \in Token,
         EndSession(w, u, f)
  PROVE  SerialInv(w)'
<1>1. /\ UNCHANGED <<tv, claims, issued, row, req, condemned, crashes>>
      /\ req[w] = Idle /\ revoked \subseteq revoked' /\ signedOut' = signedOut \cup {f}
      /\ f \in issued /\ row[f].fam = f /\ row[f].user = u
      /\ Family(f) \cap RowsOf(u) \subseteq revoked'
  BY DEF EndSession, RowsOf
<1>2. OneLivePerFamily' /\ RowsNotAhead' /\ FamilyHasHead' /\ ClaimsOrBump(w)'
  BY <1>1 DEF SerialInv, OneLivePerFamily, Live, RowsNotAhead, FamilyHasHead, ClaimsOrBump, BumpPending
<1>3. ReadsCurrent(w)'
  BY <1>1, StartFields DEF ReadsCurrent, Versioned
<1>4. Family(f) \subseteq RowsOf(u)
  BY <1>1 DEF SerialInv, FamilyHasHead, Family, RowsOf
<1>5. SignedOutRevoked'
  BY <1>1, <1>4 DEF SerialInv, SignedOutRevoked, Family
<1>. QED
  BY <1>2, <1>3, <1>5 DEF SerialInv

(* A row of a family of its own or of one whose only live row it replaces, *)
(* with the version and the claims of its account.                         *)
LEMMA NewRowSerial ==
  ASSUME IInv, IInv', NEW w \in Worker, SerialInv(w), NEW u \in User,
         NEW n \in Token \ issued, NEW f \in Token,
         issued' = issued \cup {n}, \A t \in issued : row'[t] = row[t],
         row'[n].user = u, row'[n].fam = f, row'[n].tv = tv'[u], row'[n].claims = claims'[u],
         revoked \subseteq revoked', req'[w] = Idle, UNCHANGED <<claims, signedOut, crashes>>,
         req[w].pc \notin Bumping,
         \/ f = n
         \/ f \in issued /\ row[f].fam = f /\ row[f].user = u /\ f \notin signedOut
            /\ \A t \in issued : row[t].fam = f => t \in revoked',
         \/ UNCHANGED <<tv, condemned>>
         \/ tv' = [tv EXCEPT ![u] = tv[u] + 1] /\ condemned' = condemned \cup RowsOf(u)
  PROVE  SerialInv(w)'
<1>0. \A t \in issued : row[t].user \in User /\ row[t].tv \in Nat /\ row[t].fam \in issued
  BY DEF IInv, TypeOK, Row, SerialInv, FamilyHasHead
<1>1. \A x \in User : tv[x] \in Nat /\ tv'[x] \in Nat /\ tv'[x] >= tv[x] /\ (x # u => tv'[x] = tv[x])
  BY DEF IInv, TypeOK
<1>2. OneLivePerFamily'
  BY <1>0 DEF SerialInv, OneLivePerFamily, Live
<1>3. ReadsCurrent(w)'
  BY StartFields DEF ReadsCurrent, Versioned
<1>4. RowsNotAhead'
  <2>1. \A t \in issued : row[t].tv <= tv'[row[t].user]
    BY <1>0, <1>1 DEF SerialInv, RowsNotAhead
  <2>2. \A t \in condemned : t \in issued /\ row[t].tv < tv'[row[t].user]
    BY <1>0, <1>1 DEF SerialInv, RowsNotAhead
  <2>3. CASE UNCHANGED <<tv, condemned>>
    BY <2>1, <2>2, <2>3, <1>1 DEF RowsNotAhead
  <2>4. CASE tv' = [tv EXCEPT ![u] = tv[u] + 1] /\ condemned' = condemned \cup RowsOf(u)
    <3>1. tv'[u] = tv[u] + 1
      BY <2>4 DEF IInv, TypeOK
    <3>2. \A t \in RowsOf(u) : t \in issued /\ row[t].tv < tv'[row[t].user]
      BY <1>0, <1>1, <3>1 DEF RowsOf, SerialInv, RowsNotAhead
    <3>. QED
      BY <2>1, <2>2, <2>4, <3>2, <1>1 DEF RowsNotAhead
  <2>. QED
    BY <2>3, <2>4
<1>5. FamilyHasHead' /\ SignedOutRevoked'
  BY <1>0 DEF SerialInv, FamilyHasHead, SignedOutRevoked
<1>6. ClaimsOrBump(w)'
  <2> SUFFICES ASSUME crashes = 0, NEW t \in issued, row[t].tv = tv'[row[t].user]
               PROVE  row[t].claims = claims[row[t].user]
    BY DEF ClaimsOrBump
  <2>1. row[t].tv = tv[row[t].user]
    BY <1>0, <1>1 DEF SerialInv, RowsNotAhead
  <2>. QED
    BY <2>1 DEF SerialInv, ClaimsOrBump, BumpPending
<1>. QED
  BY <1>2, <1>3, <1>4, <1>5, <1>6 DEF SerialInv

(* The three commits that issue a pair. *)
LEMMA SerialMints ==
  ASSUME IInv, IInv', NEW w \in Worker, SerialInv(w),
         Issue(w) \/ CommitRotate(w) \/ CommitChange(w)
  PROVE  SerialInv(w)'
<1>. DEFINE u == req[w].user
            s == req[w].tok
<1>1. req'[w] = Idle
  BY DEF Issue, CommitRotate, CommitChange, Finish, IInv, TypeOK
<1>2. req[w].pc \in Versioned /\ u \in User /\ req[w].pc \notin Bumping
  BY DEF Issue, CommitRotate, CommitChange, Versioned, Bumping, IInv, RequestsOK, RequestTrue
<1>3. req[w].tv = tv[u]
  BY <1>2 DEF SerialInv, ReadsCurrent
<1>4. UNCHANGED <<claims, signedOut, crashes>>
  BY DEF Issue, CommitRotate, CommitChange, history
<1>5. CASE Issue(w)
  <2>1. PICK n \in Token \ issued :
          /\ issued' = issued \cup {n}
          /\ row' = [row EXCEPT ![n] = NewRow(u, n, req[w].tv)]
    BY <1>5 DEF Issue
  <2>2. row'[n] = NewRow(u, n, tv[u]) /\ \A t \in issued : row'[t] = row[t]
    BY <2>1, <1>3 DEF IInv, TypeOK
  <2>3. UNCHANGED <<tv, condemned, revoked>>
    BY <1>5 DEF Issue, history
  <2>4. row'[n].user = u /\ row'[n].fam = n /\ row'[n].tv = tv'[u] /\ row'[n].claims = claims'[u]
    BY <2>2, <2>3, <1>4 DEF NewRow
  <2>5. revoked \subseteq revoked'
    BY <2>3
  <2>. QED
    BY <1>1, <1>2, <1>4, <2>1, <2>2, <2>3, <2>4, <2>5, NewRowSerial
<1>6. CASE CommitRotate(w)
  <2>. DEFINE f == row[s].fam
  <2>1. PICK n \in Token \ issued :
          /\ issued' = issued \cup {n}
          /\ row' = [row EXCEPT ![n] = NewRow(u, f, req[w].tv)]
    BY <1>6 DEF CommitRotate
  <2>2. row'[n] = NewRow(u, f, tv[u]) /\ \A t \in issued : row'[t] = row[t]
    BY <2>1, <1>3 DEF IInv, TypeOK
  <2>3. UNCHANGED <<tv, condemned>> /\ revoked' = revoked \cup {s}
    BY <1>6 DEF CommitRotate, history
  <2>4. row'[n].user = u /\ row'[n].fam = f /\ row'[n].tv = tv'[u] /\ row'[n].claims = claims'[u]
    BY <2>2, <2>3, <1>4 DEF NewRow
  <2>5. Live(s) /\ u = row[s].user
    BY <1>6 DEF CommitRotate, SerialInv, ReadsCurrent, IInv, RequestsOK, RequestTrue, Refreshing
  <2>6. /\ f \in issued /\ f \in Token /\ row[f].fam = f /\ row[f].user = u
        /\ f \notin signedOut
    BY <2>5 DEF Live, SerialInv, FamilyHasHead, SignedOutRevoked, IInv, TypeOK
  <2>7. \A t \in issued : row[t].fam = f => t \in revoked'
    BY <2>3, <2>5 DEF SerialInv, OneLivePerFamily, Live
  <2>8. revoked \subseteq revoked'
    BY <2>3
  <2>. HIDE DEF u, s, f
  <2>. QED
    BY <1>1, <1>2, <1>4, <2>1, <2>2, <2>3, <2>4, <2>6, <2>7, <2>8, NewRowSerial
<1>7. CASE CommitChange(w)
  <2>1. PICK n \in Token \ issued :
          /\ issued' = issued \cup {n}
          /\ row' = [row EXCEPT ![n] = NewRow(u, n, req[w].tv + 1)]
    BY <1>7 DEF CommitChange
  <2>2. row'[n] = NewRow(u, n, tv[u] + 1) /\ \A t \in issued : row'[t] = row[t]
    BY <2>1, <1>3 DEF IInv, TypeOK
  <2>3. /\ tv' = [tv EXCEPT ![u] = tv[u] + 1] /\ condemned' = condemned \cup RowsOf(u)
        /\ revoked \subseteq revoked'
    BY <1>7, <1>3 DEF CommitChange
  <2>4. tv'[u] = tv[u] + 1
    BY <2>3, <1>2 DEF IInv, TypeOK
  <2>5. row'[n].user = u /\ row'[n].fam = n /\ row'[n].tv = tv'[u] /\ row'[n].claims = claims'[u]
    BY <2>2, <2>4, <1>4 DEF NewRow
  <2>. HIDE DEF u, s
  <2>. QED
    BY <1>1, <1>2, <1>4, <2>1, <2>2, <2>3, <2>5, NewRowSerial
<1>. QED
  BY <1>5, <1>6, <1>7

LEMMA SerialActs ==
  ASSUME IInv, IInv', NEW w \in Worker, SerialInv(w), Acts(w)
  PROVE  SerialInv(w)'
BY SerialReads, SerialBumps, SerialEndSession, SerialMints DEF Acts, Commit

LEMMA InitSerial == Init => Serial
<1> SUFFICES ASSUME Init, NEW w \in Worker PROVE SerialInv(w)
  BY DEF Serial
<1>1. req[w].pc \in {"idle", "off"}
  BY DEF Init, Idle, Off
<1>. QED
  BY <1>1 DEF Init, SerialInv, OneLivePerFamily, ReadsCurrent, Versioned, RowsNotAhead, FamilyHasHead,
              SignedOutRevoked, ClaimsOrBump

(* Alone after a step, alone before it, and it was that worker's step. *)
LEMMA NextSerial == IInv /\ IInv' /\ Serial /\ [Next]_vars => Serial'
<1> SUFFICES ASSUME IInv, IInv', Serial, [Next]_vars, NEW w \in Worker, OnlyOn(w)'
             PROVE  SerialInv(w)'
  BY DEF Serial
<1>1. CASE UNCHANGED vars
  <2>1. SerialInv(w)
    BY <1>1 DEF vars, Serial, OnlyOn
  <2>. QED
    BY <1>1, <2>1 DEF vars, SerialInv, OneLivePerFamily, Live, ReadsCurrent, RowsNotAhead,
                      FamilyHasHead, SignedOutRevoked, ClaimsOrBump, BumpPending
<1>2. CASE Next
  <2>1. PICK x \in Worker : Acts(x)
    BY <1>2, NextActs
  <2>2. x = w
    BY <2>1, ActorIsOn DEF OnlyOn
  <2>3. OnlyOn(w)
    BY <2>1, <2>2, ActorIsOn DEF OnlyOn
  <2>. QED
    BY <2>1, <2>2, <2>3, SerialActs DEF Serial
<1>. QED
  BY <1>1, <1>2

LEMMA SpecSerial == Spec => [](IInv /\ Serial)
<1>1. Init => IInv /\ Serial
  BY InitIInv, InitSerial
<1>2. IInv /\ Serial /\ [Next]_vars => (IInv /\ Serial)'
  BY NextIInv, NextSerial
<1>. QED
  BY <1>1, <1>2, PTL DEF Spec

LEMMA AloneSerial == Serial /\ Alone => \E w \in Worker : OnlyOn(w) /\ SerialInv(w)
BY DEF Serial, Alone, OnlyOn

(* One request at a time: rotate_refresh_token leaves a family one live    *)
(* row, whatever logs out, revokes, burns or crashes in between.           *)
THEOREM HonouredOnce == Spec => []OneLiveWhenAlone
<1>1. IInv /\ Serial => OneLiveWhenAlone
  BY AloneSerial DEF OneLiveWhenAlone, SerialInv
<1>. QED
  BY <1>1, SpecSerial, PTL

(* One request at a time: a family ended by DELETE /me/sessions/{sid}      *)
(* (revoke_session) has no live row again.                                 *)
THEOREM SignOutLasts == Spec => []SignedOutStaysOut
<1>1. IInv /\ Serial => SignedOutStaysOut
  BY AloneSerial DEF SignedOutStaysOut, SerialInv, SignedOutRevoked, Family
<1>. QED
  BY <1>1, SpecSerial, PTL

(* One request at a time: a pair that existed when token_version was       *)
(* bumped is never accepted again, since versions only rise.               *)
THEOREM BumpIsFinal == Spec => []BumpKills
<1>1. IInv /\ Serial => BumpKills
  <2> SUFFICES ASSUME IInv, Serial, Alone, NEW t \in condemned, Accepted(t)
               PROVE  FALSE
    BY DEF BumpKills
  <2>1. t \in issued /\ row[t].tv < tv[row[t].user] /\ row[t].tv = tv[row[t].user]
    BY AloneSerial DEF SerialInv, RowsNotAhead, Accepted
  <2>2. tv[row[t].user] \in Nat
    BY <2>1 DEF IInv, TypeOK, Row
  <2>. QED
    BY <2>1, <2>2
<1>. QED
  BY <1>1, SpecSerial, PTL

(* One request at a time and none lost half way: every handler that        *)
(* changes what an account may do has bumped its version by the time it    *)
(* answers, so no accepted access token carries what was true before.      *)
THEOREM ClaimsFollow == Spec => []ClaimsCurrent
<1>1. IInv /\ Serial => ClaimsCurrent
  <2> SUFFICES ASSUME Serial, Alone, crashes = 0, \A w \in Worker : req[w] \in {Idle, Off},
                      NEW t \in issued, Accepted(t)
               PROVE  row[t].claims = claims[row[t].user]
    BY DEF ClaimsCurrent
  <2>1. PICK w \in Worker : SerialInv(w)
    BY AloneSerial
  <2>2. ~BumpPending(w, row[t].user)
    BY DEF BumpPending, Bumping, Idle, Off
  <2>. QED
    BY <2>1, <2>2 DEF SerialInv, ClaimsOrBump, Accepted
<1>. QED
  BY <1>1, SpecSerial, PTL
=============================================================================
