------------------------------ MODULE Accounts ------------------------------
(***************************************************************************)
(* Accounts of identity: how they come about (the bootstrap, signing up,   *)
(* accepting an invite), what an emailed link may do to them (reset the    *)
(* password, move the address, admit to the department) and what platform  *)
(* administrators do (services/auth.py, invites.py and platform.py).       *)
(*                                                                         *)
(* A handler that decides on what it read and writes later is two steps;   *)
(* the row of a link is read once.  There is one department, nobody leads  *)
(* or heads anything, passwords are right, and a link that has expired is  *)
(* one that nobody presents.                                               *)
(***************************************************************************)
EXTENDS Naturals, FiniteSets

CONSTANTS
  User,      \* accounts that may exist (a bound)
  Address,   \* email addresses
  Link,      \* links that may be sent (a bound)
  Worker,    \* requests in flight
  None,
  MaxLeaves, \* bound on departures from the department
  MaxVersion \* bound on token versions raised by hand

VARIABLES
  account,   \* users, None for an id not in use
  link,      \* password_reset_tokens, email_change_tokens and invites; dead is history
  req,       \* what each request has read
  done,      \* history: how often each link took effect
  leaves,    \* history: departures from the department, from an address, from identity
  past,      \* history: accounts that have been in the department
  gone,      \* history: accounts deleted
  crowded,   \* history: something happened while a request was in flight
  founded    \* history: there has been a platform administrator

vars == <<account, link, req, done, leaves, past, gone, crowded, founded>>
history == <<leaves, past, gone, founded>>

Idle == [pc |-> "idle"]

(* None is nobody, no link and no row. *)
Settings ==
  None \notin User \cup Link
    \cup [address: Address, active: BOOLEAN, admin: BOOLEAN, verified: BOOLEAN, onboarded: BOOLEAN,
          member: BOOLEAN, tv: Nat]
    \cup [kind: {"reset", "move", "invite"}, user: User \cup {None}, to: Address, tv: Nat,
          used: BOOLEAN, dead: BOOLEAN]

Init ==
  /\ account = [u \in User |-> None] /\ link = [l \in Link |-> None]
  /\ req = [w \in Worker |-> Idle] /\ done = [l \in Link |-> 0]
  /\ leaves = 0 /\ past = {} /\ gone = {} /\ crowded = FALSE /\ founded = FALSE

-----------------------------------------------------------------------------
Exists == {u \in User : account[u] # None}
Free   == {u \in User \ gone : account[u] = None /\ \A w \in Worker : req[w].pc = "idle" \/ req[w].user # u}
Admins == {u \in Exists : account[u].admin}
Holder(a) == {u \in Exists : account[u].address = a}
Sent   == {l \in Link : link[l] # None}
Unsent == {l \in Link : link[l] = None /\ done[l] = 0 /\ \A w \in Worker : req[w].pc = "idle" \/ req[w].link # l}

NewAccount(a, admin, proven) ==
  [address |-> a, active |-> TRUE, admin |-> admin, verified |-> proven, onboarded |-> FALSE,
   member |-> FALSE, tv |-> 0]

(* A bump kills the links that were sent for the account before it. *)
Killed(u) == [l \in Link |-> IF l \in Sent /\ link[l].user = u THEN [link[l] EXCEPT !.dead = TRUE] ELSE link[l]]

Bumped(u) == [account EXCEPT ![u].tv = @ + 1]

Busy   == \E w \in Worker : req[w] # Idle
Crowds == crowded' = (crowded \/ Busy)

-----------------------------------------------------------------------------
(* request_password_reset, request_email_change and create_invite: what is *)
(* pending for the same account or address is replaced.                    *)
Send(l, row) ==
  /\ l \in Unsent
  /\ link' = [k \in Link |->
       IF k = l THEN row
       ELSE IF k \in Sent /\ link[k].kind = row.kind /\ link[k].user = row.user /\ ~link[k].used
                 /\ (row.kind = "invite" => link[k].to = row.to)
            THEN None ELSE link[k]]
  /\ Crowds /\ UNCHANGED <<account, req, done, history>>

Row(kind, u, to, tv) == [kind |-> kind, user |-> u, to |-> to, tv |-> tv, used |-> FALSE, dead |-> FALSE]

RequestReset(u, l) ==
  /\ u \in Exists /\ account[u].active
  /\ Send(l, Row("reset", u, account[u].address, 0))

RequestMove(u, l, a) ==
  /\ u \in Exists /\ account[u].active /\ Holder(a) = {}
  /\ Send(l, Row("move", u, a, account[u].tv))

(* Somebody has that address: what was pending is gone all the same. *)
MoveTaken(u, a) ==
  /\ u \in Exists /\ account[u].active /\ Holder(a) \ {u} # {}
  /\ link' = [k \in Link |-> IF k \in Sent /\ link[k].kind = "move" /\ link[k].user = u /\ ~link[k].used
                             THEN None ELSE link[k]]
  /\ Crowds /\ UNCHANGED <<account, req, done, history>>

CreateInvite(a, l) ==
  /\ \A u \in Holder(a) : ~account[u].member
  /\ Send(l, Row("invite", None, a, 0))

(* The same when something else happened between its reads and its commit, *)
(* the mail in between: what it knew of members and of pending invites is  *)
(* of an earlier moment.                                                   *)
CreateInviteLate(a, l) ==
  /\ l \in Unsent
  /\ \E old \in SUBSET {k \in Sent : link[k].kind = "invite" /\ link[k].to = a} :
       link' = [k \in Link |-> IF k = l THEN Row("invite", None, a, 0) ELSE IF k \in old THEN None ELSE link[k]]
  /\ crowded' = TRUE /\ UNCHANGED <<account, req, done, history>>

-----------------------------------------------------------------------------
(* A request that has decided, on what it read of l and u. *)
Read(w, pc, l, u) ==
  /\ req[w] = Idle
  /\ req' = [req EXCEPT ![w] = [pc |-> pc, link |-> l, user |-> u,
                                tv |-> IF u \in Exists THEN account[u].tv ELSE 0, had |-> u \in Exists]]
  /\ Crowds /\ UNCHANGED <<account, link, done, history>>

Presentable(l, kind) == l \in Sent /\ link[l].kind = kind /\ ~link[l].used

ReadReset(w, l) ==
  /\ Presentable(l, "reset") /\ link[l].user \in Exists /\ account[link[l].user].active
  /\ Read(w, "reset", l, link[l].user)

(* Fault: the link outlives a password change. *)
ReadMoveAnyway(w, l) ==
  /\ Presentable(l, "move") /\ link[l].user \in Exists /\ account[link[l].user].active
  /\ Holder(link[l].to) \subseteq {link[l].user}
  /\ Read(w, "move", l, link[l].user)

ReadMove(w, l) ==
  /\ Presentable(l, "move") /\ link[l].user \in Exists /\ account[link[l].user].active
  /\ account[link[l].user].tv = link[l].tv /\ Holder(link[l].to) \subseteq {link[l].user}
  /\ Read(w, "move", l, link[l].user)

(* The address has been taken since: the link is used up. *)
MoveRefused(l) ==
  /\ Presentable(l, "move") /\ link[l].user \in Exists /\ account[link[l].user].active
  /\ account[link[l].user].tv = link[l].tv /\ ~Holder(link[l].to) \subseteq {link[l].user}
  /\ link' = [link EXCEPT ![l].used = TRUE]
  /\ Crowds /\ UNCHANGED <<account, req, done, history>>

(* accept_invite: of the account with that address, or of a new one. *)
ReadAccept(w, l, u) ==
  /\ Presentable(l, "invite")
  /\ IF Holder(link[l].to) = {} THEN u \in Free
     ELSE u \in Holder(link[l].to) /\ account[u].active /\ ~account[u].member
  /\ Read(w, "accept", l, u)

ReadRevoke(w, l) == Presentable(l, "invite") /\ Read(w, "revoke", l, None)

ReadRegister(w, u) == Admins = {} /\ u \in Free /\ Read(w, "register", None, u)

ReadDemote(w, u) == u \in Exists /\ Admins \ {u} # {} /\ account[u].tv <= MaxVersion /\ Read(w, "demote", None, u)

(* Fault: only who is in the department now is kept. *)
ReadDeleteMembersOnly(w, by, u) ==
  /\ u \in Exists /\ u # by /\ ~account[u].admin /\ ~account[u].member
  /\ Read(w, "delete", None, u)

(* delete_user and _history_reason *)
ReadDelete(w, by, u) ==
  /\ u \in Exists /\ u # by /\ ~account[u].admin /\ ~account[u].member
  /\ ~account[u].onboarded /\ ~account[u].verified
  /\ ~\E l \in Sent : link[l].kind = "invite" /\ link[l].to = account[u].address /\ link[l].used
  /\ Read(w, "delete", None, u)

-----------------------------------------------------------------------------
(* The commits.  An update of a row that is gone fails, and so does a      *)
(* second account with an address or a second membership.                  *)
Ends(w, pc) == req[w].pc = pc /\ req' = [req EXCEPT ![w] = Idle]

TookEffect(l) == done' = [done EXCEPT ![l] = @ + 1]

(* Fault: the link is not marked. *)
Unmarked(l, rows) == link' = rows

Marked(l, rows) == link' = [rows EXCEPT ![l].used = TRUE]

CommitReset(w) ==
  LET l == req[w].link  u == req[w].user IN
  /\ Ends(w, "reset") /\ l \in Sent /\ u \in Exists
  /\ account' = [account EXCEPT ![u].tv = req[w].tv + 1]
  /\ Marked(l, Killed(u)) /\ TookEffect(l)
  /\ UNCHANGED <<history, crowded>>

CommitMove(w) ==
  LET l == req[w].link  u == req[w].user IN
  /\ Ends(w, "move") /\ l \in Sent /\ u \in Exists /\ Holder(link[l].to) \subseteq {u}
  /\ account' = [account EXCEPT ![u].address = link[l].to, ![u].verified = TRUE, ![u].tv = req[w].tv + 1]
  /\ Marked(l, Killed(u)) /\ TookEffect(l)
  /\ leaves' = leaves + 1
  /\ UNCHANGED <<past, gone, founded, crowded>>

CommitAccept(w) ==
  LET l == req[w].link  u == req[w].user IN
  /\ Ends(w, "accept") /\ l \in Sent
  /\ IF req[w].had THEN u \in Exists /\ ~account[u].member ELSE Holder(link[l].to) = {}
  /\ account' = [account EXCEPT ![u] =
       [(IF req[w].had THEN account[u] ELSE NewAccount(link[l].to, FALSE, TRUE)) EXCEPT
          !.member = TRUE, !.onboarded = TRUE, !.tv = IF req[w].had THEN req[w].tv + 1 ELSE @]]
  /\ Marked(l, Killed(u)) /\ TookEffect(l)
  /\ past' = past \cup {u}
  /\ UNCHANGED <<leaves, gone, founded, crowded>>

CommitRevoke(w) ==
  /\ Ends(w, "revoke") /\ req[w].link \in Sent
  /\ link' = [link EXCEPT ![req[w].link] = None]
  /\ UNCHANGED <<account, done, history, crowded>>

CommitRegister(w, a) ==
  /\ Ends(w, "register") /\ Holder(a) = {}
  /\ account' = [account EXCEPT ![req[w].user] =
       [NewAccount(a, TRUE, FALSE) EXCEPT !.member = TRUE, !.onboarded = TRUE]]
  /\ past' = past \cup {req[w].user} /\ founded' = TRUE
  /\ UNCHANGED <<link, done, leaves, gone, crowded>>

CommitDemote(w) ==
  LET u == req[w].user IN
  /\ Ends(w, "demote") /\ u \in Exists
  /\ account' = [Bumped(u) EXCEPT ![u].admin = FALSE] /\ link' = Killed(u)
  /\ UNCHANGED <<done, history, crowded>>

(* Its links go with it. *)
CommitDelete(w) ==
  LET u == req[w].user IN
  /\ Ends(w, "delete") /\ u \in Exists
  /\ account' = [account EXCEPT ![u] = None]
  /\ link' = [l \in Link |-> IF l \in Sent /\ link[l].user = u THEN None ELSE link[l]]
  /\ gone' = gone \cup {u} /\ leaves' = leaves + 1
  /\ UNCHANGED <<done, past, founded, crowded>>

(* The commit fails, or the process dies before it. *)
Fails(w) ==
  /\ req[w] # Idle /\ req' = [req EXCEPT ![w] = Idle]
  /\ UNCHANGED <<account, link, done, history, crowded>>

-----------------------------------------------------------------------------
(* Handlers whose decision a commit in between cannot spoil. *)
Quiet == Crowds /\ UNCHANGED <<req, done, leaves, past, gone>>

SignUp(u, a) ==
  /\ u \in Free /\ Holder(a) = {}
  /\ account' = [account EXCEPT ![u] = NewAccount(a, FALSE, FALSE)]
  /\ Quiet /\ UNCHANGED <<link, founded>>

(* change_password and signing out everywhere *)
Revoke(u) ==
  /\ u \in Exists /\ account[u].active /\ account[u].tv < MaxVersion
  /\ account' = Bumped(u) /\ link' = Killed(u)
  /\ Quiet /\ UNCHANGED founded

Deactivate(by, u) ==
  /\ by \in Admins /\ account[by].active /\ u \in Exists \ {by} /\ account[u].tv < MaxVersion
  /\ account' = [Bumped(u) EXCEPT ![u].active = FALSE] /\ link' = Killed(u)
  /\ Quiet /\ UNCHANGED founded

Reactivate(u) ==
  /\ u \in Exists
  /\ account' = [account EXCEPT ![u].active = TRUE]
  /\ Quiet /\ UNCHANGED <<link, founded>>

Grant(u) ==
  /\ u \in Exists /\ account[u].active /\ account[u].tv < MaxVersion
  /\ account' = [Bumped(u) EXCEPT ![u].admin = TRUE] /\ link' = Killed(u)
  /\ Quiet /\ UNCHANGED founded

(* remove_member *)
Leave(u) ==
  /\ u \in Exists /\ account[u].member /\ leaves < MaxLeaves
  /\ account' = [Bumped(u) EXCEPT ![u].member = FALSE] /\ link' = Killed(u)
  /\ leaves' = leaves + 1
  /\ Crowds /\ UNCHANGED <<req, done, past, gone, founded>>

-----------------------------------------------------------------------------
Requests(w) ==
  \/ \E l \in Link : ReadReset(w, l) \/ ReadMove(w, l) \/ ReadRevoke(w, l)
  \/ \E u \in User :
       \/ ReadRegister(w, u)
       \/ \E l \in Link : ReadAccept(w, l, u)
       \/ \E by \in Admins : account[by].active /\ (ReadDemote(w, u) \/ ReadDelete(w, by, u))
  \/ CommitReset(w) \/ CommitMove(w) \/ CommitAccept(w) \/ CommitRevoke(w) \/ CommitDemote(w) \/ CommitDelete(w)
  \/ \E a \in Address : CommitRegister(w, a)
  \/ Fails(w)

Next ==
  \/ \E w \in Worker : Requests(w)
  \/ \E u \in User :
       \/ Revoke(u) \/ Leave(u)
       \/ \E by \in Admins : account[by].active /\ (Deactivate(by, u) \/ Reactivate(u) \/ Grant(u))
       \/ \E l \in Link : RequestReset(u, l) \/ \E a \in Address : RequestMove(u, l, a)
       \/ \E a \in Address : SignUp(u, a) \/ MoveTaken(u, a)
  \/ \E l \in Link : MoveRefused(l) \/ \E a \in Address : CreateInvite(a, l) \/ CreateInviteLate(a, l)

Spec == Init /\ [][Next]_vars

-----------------------------------------------------------------------------
(* However many requests present it at once, an invite admits one person,  *)
(* once, as long as nobody leaves, moves or is deleted (accept_invite, and *)
(* the unique memberships and addresses behind it).  Requests that do not  *)
(* overlap use a reset or a confirmation link once.                        *)
LinksWorkOnce ==
  \A l \in Sent :
    /\ link[l].kind = "invite" => done[l] <= 1 + leaves
    /\ ~crowded => done[l] <= 1

(* Where requests do not overlap, an account that was ever in a department *)
(* is never deleted, also after it left and moved its address (delete_user *)
(* and _history_reason, of the one of many facts they read).               *)
DeletedNeverBelonged == ~crowded => gone \cap past = {}

(* A confirmation link that was sent before a password change, a sign-out  *)
(* everywhere or any other bump moves no address any more, where requests  *)
(* do not overlap (confirm_email_change).                                  *)
DeadMovesNothing == \A l \in Sent : ~crowded /\ link[l].kind = "move" /\ done'[l] # done[l] => ~link[l].dead
DeadLinksMoveNothing == [][DeadMovesNothing]_vars
=============================================================================
