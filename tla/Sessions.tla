------------------------------ MODULE Sessions ------------------------------
(***************************************************************************)
(* The session store of services/identity: refresh-token rows, rotation    *)
(* families, the per-user token_version and the access tokens minted with  *)
(* each row, under requests that run concurrently.                         *)
(*                                                                         *)
(* A request runs in a worker thread with a database session of its own at *)
(* READ COMMITTED, autoflush off, so a handler is a read step and a commit *)
(* step that writes what it computed from the read; a commit expires the   *)
(* ORM objects, so what follows it reads again.  A handler that computes   *)
(* nothing from what it read is one step.  What is published to Redis      *)
(* after a commit is the business of RevocationGate.                       *)
(*                                                                         *)
(* A pair is named by its refresh row: Token t stands for the row and for  *)
(* the access token minted with it.  A family is named by its first row.   *)
(* Access tokens do not expire here: every property below says that some   *)
(* access token is refused, and expiry only refuses more.                  *)
(***************************************************************************)
EXTENDS Integers

CONSTANTS
  User,         \* accounts
  Token,        \* refresh-token rows that may ever be issued (a bound)
  Worker,       \* requests that may be in flight at once (a bound)
  None,         \* SQL NULL
  MaxVersion,   \* bound on token_version
  MaxClaims,    \* bound on authorisation changes of one account
  MaxCrashes    \* bound on requests that die half way

ASSUME NoneAssumption ==
  /\ None \notin User
  /\ None \notin Token
ASSUME BoundsAssumption == MaxVersion \in Nat /\ MaxClaims \in Nat /\ MaxCrashes \in Nat

VARIABLES
  active,       \* users.is_active
  tv,           \* users.token_version
  claims,       \* version of what the account's memberships and roles say
  issued,       \* refresh rows that exist
  row,          \* what is fixed in them and in the access token beside them
  revoked,      \* rows with is_revoked
  next,         \* replaced_by
  req,          \* what each worker is doing
  presented,    \* history: refresh calls that named the row, up to two
  alarmed,      \* history: rows whose replay was treated as theft
  signedOut,    \* history: families ended by DELETE /me/sessions
  condemned,    \* history: pairs that existed when token_version was bumped
  crashes       \* history: requests that died half way

vars == <<active, tv, claims, issued, row, revoked, next, req,
          presented, alarmed, signedOut, condemned, crashes>>
rows    == <<issued, row, revoked, next>>
history == <<presented, alarmed, signedOut, condemned, crashes>>

-----------------------------------------------------------------------------
Version == 0 .. MaxVersion

Row == [user: User, fam: Token, tv: Nat, claims: Nat]

Steps == {"idle", "off", "issue", "stored", "rotate", "burn", "reuse", "change", "readRevoke",
          "revokeAll", "readBump", "bump", "accept", "mint"}

Request == [pc: Steps, user: User \cup {None}, tok: Token \cup {None}, tv: Nat]

Idle == [pc |-> "idle", user |-> None, tok |-> None, tv |-> 0]

(* A worker this deployment does not run. *)
Off  == [pc |-> "off", user |-> None, tok |-> None, tv |-> 0]

Start(pc, u, t, v) == [pc |-> pc, user |-> u, tok |-> t, tv |-> v]

Family(f) == {t \in issued : row[t].fam = f}
RowsOf(u) == {t \in issued : row[t].user = u}
Live(t)   == t \in issued \ revoked

(* get_current_user: the account exists, is active, and tv is its version. *)
Accepted(t) ==
  /\ t \in issued
  /\ active[row[t].user]
  /\ row[t].tv = tv[row[t].user]

(* The caller of a Bearer route of its own account. *)
SignedIn(u) == \E t \in RowsOf(u) : Accepted(t)

(* A rotation of this family that has read a live row and not committed.   *)
RotationInFlight(f) ==
  \E w \in Worker : req[w].pc \in {"stored", "rotate"} /\ row[req[w].tok].fam = f

NewRow(u, f, v) == [user |-> u, fam |-> f, tv |-> v, claims |-> claims[u]]

Finish(w)         == req' = [req EXCEPT ![w] = Idle]
Begin(w, r)       == req[w] = Idle /\ req' = [req EXCEPT ![w] = r]
Continue(w, pc, v) == req' = [req EXCEPT ![w] = Start(pc, req[w].user, req[w].tok, v)]

-----------------------------------------------------------------------------
Init ==
  /\ active = [u \in User |-> TRUE]
  /\ tv = [u \in User |-> 0]
  /\ claims = [u \in User |-> 0]
  /\ issued = {}
  /\ \E u \in User : row = [t \in Token |-> NewRow(u, t, 0)]
  /\ revoked = {}
  /\ next = [t \in Token |-> None]
  /\ \E running \in SUBSET Worker :
       req = [w \in Worker |-> IF w \in running THEN Idle ELSE Off]
  /\ presented = [t \in Token |-> 0]
  /\ alarmed = {} /\ signedOut = {} /\ condemned = {} /\ crashes = 0

-----------------------------------------------------------------------------
(* Minting.                                                                *)

(* POST /auth/login after the password matched. *)
Login(w, u) ==
  /\ active[u]
  /\ Begin(w, Start("issue", u, None, tv[u]))
  /\ UNCHANGED <<active, tv, claims, rows, history>>

(* _issue_token_pair with a fresh family, and the commit. Claims are read  *)
(* after the account was, here at the commit.                              *)
Issue(w) ==
  /\ req[w].pc = "issue"
  /\ \E t \in Token \ issued :
       /\ issued' = issued \cup {t}
       /\ row' = [row EXCEPT ![t] = NewRow(req[w].user, t, req[w].tv)]
  /\ Finish(w)
  /\ UNCHANGED <<active, tv, claims, revoked, next, history>>

-----------------------------------------------------------------------------
(* POST /auth/refresh: rotate_refresh_token.                               *)

Present(t) == presented' = [presented EXCEPT ![t] = IF @ < 2 THEN @ + 1 ELSE @]

(* Revoked and never rotated away: "Session ended", nothing changes. *)
RefreshEnded(w, t) ==
  /\ req[w] = Idle
  /\ t \in issued /\ t \in revoked /\ next[t] = None
  /\ Present(t)
  /\ UNCHANGED <<active, tv, claims, rows, req, alarmed, signedOut,
                 condemned, crashes>>

(* Fault: every revoked row counts as stolen, logouts included. *)
RefreshReuseAnyRevoked(w, t) ==
  /\ t \in issued \cap revoked
  /\ tv[row[t].user] < MaxVersion
  /\ Begin(w, Start("reuse", row[t].user, t, tv[row[t].user]))
  /\ Present(t)
  /\ UNCHANGED <<active, tv, claims, rows, alarmed, signedOut, condemned, crashes>>

(* Rotated away and presented again: the family and token_version go. *)
RefreshReuse(w, t) ==
  /\ t \in issued /\ t \in revoked /\ next[t] # None
  /\ tv[row[t].user] < MaxVersion
  /\ Begin(w, Start("reuse", row[t].user, t, tv[row[t].user]))
  /\ Present(t)
  /\ UNCHANGED <<active, tv, claims, rows, alarmed, signedOut, condemned,
                 crashes>>

CommitReuse(w) ==
  LET t == req[w].tok
      u == req[w].user
  IN
  /\ req[w].pc = "reuse"
  /\ revoked' = revoked \cup Family(row[t].fam)
  /\ tv' = [tv EXCEPT ![u] = req[w].tv + 1]
  /\ Finish(w)
  /\ alarmed' = alarmed \cup {t}
  /\ condemned' = condemned \cup RowsOf(u)
  /\ UNCHANGED <<active, claims, issued, row, next, presented, signedOut,
                 crashes>>

(* Fault: is_revoked is not looked at. *)
RefreshReadAnyRow(w, t) ==
  /\ t \in issued
  /\ Begin(w, Start("stored", row[t].user, t, 0))
  /\ Present(t)
  /\ UNCHANGED <<active, tv, claims, rows, alarmed, signedOut, condemned, crashes>>

(* A live row was read; the account is read next. *)
RefreshRead(w, t) ==
  /\ Live(t)
  /\ Begin(w, Start("stored", row[t].user, t, 0))
  /\ Present(t)
  /\ UNCHANGED <<active, tv, claims, rows, alarmed, signedOut, condemned,
                 crashes>>

(* The row is burned: its expires_at has passed, which is the clock's      *)
(* choice at any time, or the account is not available.                    *)
RefreshBurn(w) ==
  /\ req[w].pc = "stored"
  /\ Continue(w, "burn", 0)
  /\ UNCHANGED <<active, tv, claims, rows, history>>

CommitBurn(w) ==
  /\ req[w].pc = "burn"
  /\ revoked' = revoked \cup {req[w].tok}
  /\ Finish(w)
  /\ UNCHANGED <<active, tv, claims, issued, row, next, history>>

RefreshRotate(w) ==
  /\ req[w].pc = "stored"
  /\ active[req[w].user]
  /\ Continue(w, "rotate", tv[req[w].user])
  /\ UNCHANGED <<active, tv, claims, rows, history>>

(* Fault: the new pair is issued without family_id. *)
CommitRotateFreshFamily(w) ==
  /\ req[w].pc = "rotate"
  /\ \E n \in Token \ issued :
       /\ issued' = issued \cup {n}
       /\ row' = [row EXCEPT ![n] = NewRow(req[w].user, n, req[w].tv)]
       /\ next' = [next EXCEPT ![req[w].tok] = n]
  /\ revoked' = revoked \cup {req[w].tok}
  /\ Finish(w)
  /\ UNCHANGED <<active, tv, claims, history>>

(* Fault: the old row stays live. *)
CommitRotateKeepOld(w) ==
  /\ req[w].pc = "rotate"
  /\ \E n \in Token \ issued :
       /\ issued' = issued \cup {n}
       /\ row' = [row EXCEPT ![n] = NewRow(req[w].user, row[req[w].tok].fam, req[w].tv)]
       /\ next' = [next EXCEPT ![req[w].tok] = n]
  /\ Finish(w)
  /\ UNCHANGED <<active, tv, claims, revoked, history>>

(* Nothing is re-read: the row is revoked and replaced whatever happened   *)
(* to it since.                                                            *)
CommitRotate(w) ==
  LET t == req[w].tok
  IN
  /\ req[w].pc = "rotate"
  /\ \E n \in Token \ issued :
       /\ issued' = issued \cup {n}
       /\ row' = [row EXCEPT ![n] = NewRow(req[w].user, row[t].fam, req[w].tv)]
       /\ next' = [next EXCEPT ![t] = n]
  /\ revoked' = revoked \cup {t}
  /\ Finish(w)
  /\ UNCHANGED <<active, tv, claims, history>>

-----------------------------------------------------------------------------
(* Ending one session.                                                     *)

(* POST /auth/logout: the presented row only, whatever its state. *)
Logout(w, t) ==
  /\ req[w] = Idle
  /\ t \in issued
  /\ revoked' = revoked \cup {t}
  /\ UNCHANGED <<active, tv, claims, issued, row, next, req, history>>

(* Fault: one row is revoked, not the family. *)
EndSessionOneRow(w, u, f) ==
  /\ req[w] = Idle
  /\ SignedIn(u)
  /\ f \in RowsOf(u) /\ row[f].fam = f
  /\ revoked' = revoked \cup {f}
  /\ signedOut' = signedOut \cup {f}
  /\ UNCHANGED <<active, tv, claims, issued, row, next, req, presented, alarmed,
                 condemned, crashes>>

(* DELETE /me/sessions/{sid}: every live row of one of the caller's own    *)
(* families; f is the family's first row.                                  *)
EndSession(w, u, f) ==
  /\ req[w] = Idle
  /\ SignedIn(u)
  /\ f \in RowsOf(u) /\ row[f].fam = f
  /\ revoked' = revoked \cup (Family(f) \cap RowsOf(u))
  /\ signedOut' = signedOut \cup {f}
  /\ UNCHANGED <<active, tv, claims, issued, row, next, req, presented,
                 alarmed, condemned, crashes>>

-----------------------------------------------------------------------------
(* Account-wide revocation.                                                *)

(* POST /auth/logout-all: get_current_user loads the account, and          *)
(* revoke_all_for_user writes token_version from that load.                *)
RevokeAll(w, u) ==
  /\ SignedIn(u)
  /\ tv[u] < MaxVersion
  /\ Begin(w, Start("revokeAll", u, None, tv[u]))
  /\ UNCHANGED <<active, tv, claims, rows, history>>

(* deactivate_user: one commit for is_active, then revoke_all_for_user. *)
Deactivate(w, u) ==
  /\ Begin(w, Start("readRevoke", u, None, 0))
  /\ active' = [active EXCEPT ![u] = FALSE]
  /\ UNCHANGED <<tv, claims, rows, history>>

Reactivate(w, u) ==
  /\ req[w] = Idle
  /\ ~active[u]
  /\ active' = [active EXCEPT ![u] = TRUE]
  /\ UNCHANGED <<tv, claims, rows, req, history>>

(* grant_platform_admin and revoke_platform_admin: the flag is committed,  *)
(* then revoke_all_for_user.                                               *)
ChangePlatformAdmin(w, u) ==
  /\ claims[u] < MaxClaims
  /\ Begin(w, Start("readRevoke", u, None, 0))
  /\ claims' = [claims EXCEPT ![u] = @ + 1]
  /\ UNCHANGED <<active, tv, rows, history>>

(* The commit before it expired the account: it is read again. *)
ReadRevoke(w) ==
  /\ req[w].pc = "readRevoke"
  /\ tv[req[w].user] < MaxVersion
  /\ Continue(w, "revokeAll", tv[req[w].user])
  /\ UNCHANGED <<active, tv, claims, rows, history>>

(* Fault: the refresh rows go, token_version stays. *)
CommitRevokeAllRowsOnly(w) ==
  LET u == req[w].user
  IN
  /\ req[w].pc = "revokeAll"
  /\ revoked' = revoked \cup RowsOf(u)
  /\ condemned' = condemned \cup RowsOf(u)
  /\ Finish(w)
  /\ UNCHANGED <<active, tv, claims, issued, row, next, presented, alarmed, signedOut,
                 crashes>>

CommitRevokeAll(w) ==
  LET u == req[w].user
  IN
  /\ req[w].pc = "revokeAll"
  /\ revoked' = revoked \cup RowsOf(u)
  /\ tv' = [tv EXCEPT ![u] = req[w].tv + 1]
  /\ Finish(w)
  /\ condemned' = condemned \cup RowsOf(u)
  /\ UNCHANGED <<active, claims, issued, row, next, presented, alarmed,
                 signedOut, crashes>>

(* POST /auth/change-password: the password checks run between the load of *)
(* the account and the commit; the caller gets a pair of a new family.     *)
ChangePassword(w, u) ==
  /\ SignedIn(u)
  /\ tv[u] < MaxVersion
  /\ Begin(w, Start("change", u, None, tv[u]))
  /\ UNCHANGED <<active, tv, claims, rows, history>>

CommitChange(w) ==
  LET u == req[w].user
  IN
  /\ req[w].pc = "change"
  /\ tv' = [tv EXCEPT ![u] = req[w].tv + 1]
  /\ \E t \in Token \ issued :
       /\ issued' = issued \cup {t}
       /\ row' = [row EXCEPT ![t] = NewRow(u, t, req[w].tv + 1)]
  /\ revoked' = revoked \cup RowsOf(u)
  /\ Finish(w)
  /\ condemned' = condemned \cup RowsOf(u)
  /\ UNCHANGED <<active, claims, next, presented, alarmed, signedOut,
                 crashes>>

-----------------------------------------------------------------------------
(* Authorisation changes: token_version only, sessions survive.            *)

(* Fault: an authorisation change that forgets bump_token_version. *)
ChangeClaimsNoBump(w, u) ==
  /\ claims[u] < MaxClaims
  /\ req[w] = Idle
  /\ claims' = [claims EXCEPT ![u] = @ + 1]
  /\ UNCHANGED <<active, tv, rows, req, history>>

(* add_member, update_member, transfer_member, remove_member, set_manager, *)
(* delete_team, add_team_member, remove_team_member: the change is         *)
(* committed, then bump_token_version reads the account and commits.       *)
ChangeClaims(w, u) ==
  /\ claims[u] < MaxClaims
  /\ Begin(w, Start("readBump", u, None, 0))
  /\ claims' = [claims EXCEPT ![u] = @ + 1]
  /\ UNCHANGED <<active, tv, rows, history>>

ReadBump(w) ==
  /\ req[w].pc = "readBump"
  /\ tv[req[w].user] < MaxVersion
  /\ Continue(w, "bump", tv[req[w].user])
  /\ UNCHANGED <<active, tv, claims, rows, history>>

CommitBump(w) ==
  LET u == req[w].user
  IN
  /\ req[w].pc = "bump"
  /\ tv' = [tv EXCEPT ![u] = req[w].tv + 1]
  /\ Finish(w)
  /\ condemned' = condemned \cup RowsOf(u)
  /\ UNCHANGED <<active, claims, rows, presented, alarmed, signedOut,
                 crashes>>

(* accept_invite by an existing account: the membership and the bump are   *)
(* one commit, after which the account is read again for the new pair.     *)
AcceptInvite(w, u) ==
  /\ active[u]
  /\ claims[u] < MaxClaims /\ tv[u] < MaxVersion
  /\ Begin(w, Start("accept", u, None, tv[u]))
  /\ UNCHANGED <<active, tv, claims, rows, history>>

CommitAccept(w) ==
  LET u == req[w].user
  IN
  /\ req[w].pc = "accept"
  /\ claims[u] < MaxClaims
  /\ claims' = [claims EXCEPT ![u] = @ + 1]
  /\ tv' = [tv EXCEPT ![u] = req[w].tv + 1]
  /\ Continue(w, "mint", 0)
  /\ condemned' = condemned \cup RowsOf(u)
  /\ UNCHANGED <<active, rows, presented, alarmed, signedOut, crashes>>

ReadMint(w) ==
  /\ req[w].pc = "mint"
  /\ Continue(w, "issue", tv[req[w].user])
  /\ UNCHANGED <<active, tv, claims, rows, history>>

-----------------------------------------------------------------------------
(* The environment.                                                        *)

(* The process dies: what was not committed never happened. *)
Crash(w) ==
  /\ req[w] \notin {Idle, Off}
  /\ crashes < MaxCrashes
  /\ crashes' = crashes + 1
  /\ Finish(w)
  /\ UNCHANGED <<active, tv, claims, rows, presented, alarmed, signedOut,
                 condemned>>

-----------------------------------------------------------------------------
Refresh(w, t) ==
  RefreshEnded(w, t) \/ RefreshReuse(w, t) \/ RefreshRead(w, t)

Commit(w) ==
  \/ Issue(w) \/ CommitReuse(w)
  \/ RefreshBurn(w) \/ CommitBurn(w) \/ RefreshRotate(w) \/ CommitRotate(w)
  \/ ReadRevoke(w) \/ CommitRevokeAll(w) \/ CommitChange(w)
  \/ ReadBump(w) \/ CommitBump(w) \/ CommitAccept(w) \/ ReadMint(w)

Next ==
  \/ \E w \in Worker :
       \/ \E u \in User :
            \/ Login(w, u) \/ RevokeAll(w, u) \/ ChangePassword(w, u)
            \/ Deactivate(w, u) \/ Reactivate(w, u) \/ ChangePlatformAdmin(w, u)
            \/ ChangeClaims(w, u) \/ AcceptInvite(w, u)
            \/ \E f \in Token : EndSession(w, u, f)
       \/ \E t \in Token : Refresh(w, t) \/ Logout(w, t)
       \/ Commit(w)
       \/ Crash(w)

Spec == Init /\ [][Next]_vars

-----------------------------------------------------------------------------
TypeOK ==
  /\ active \in [User -> BOOLEAN]
  /\ tv \in [User -> Nat]
  /\ claims \in [User -> Nat]
  /\ issued \in SUBSET Token
  /\ row \in [Token -> Row]
  /\ revoked \in SUBSET Token
  /\ next \in [Token -> Token \cup {None}]
  /\ req \in [Worker -> Request]
  /\ presented \in [Token -> 0 .. 2]
  /\ alarmed \in SUBSET Token
  /\ signedOut \in SUBSET Token
  /\ condemned \in SUBSET Token
  /\ crashes \in Nat

(* A rotation never leaves its family or its account: the row a row was    *)
(* replaced by exists, belongs to the same account and the same family,    *)
(* and the replaced row is revoked -- under any interleaving of            *)
(* rotate_refresh_token with itself and with every revocation.             *)
RotationStaysInFamily ==
  \A t \in issued : next[t] # None =>
    /\ t \in revoked
    /\ next[t] \in issued
    /\ row[next[t]].fam = row[t].fam
    /\ row[next[t]].user = row[t].user

(* A sign-out is never read as theft: the account-wide alarm of            *)
(* rotate_refresh_token is raised for a row only if that row was itself    *)
(* presented to /auth/refresh at least twice, however it was revoked.      *)
NoFalseAlarm == \A t \in alarmed : presented[t] = 2

(* A family is ended when it has rows, none is live, and no rotation that  *)
(* read a live row of it is still to commit.                               *)
Ended(f) ==
  /\ f \in issued
  /\ Family(f) \subseteq revoked
  /\ ~RotationInFlight(f)

(* A family that is ended, by whatever handler and in whatever order, can  *)
(* never mint another pair.                                                *)
EndedStaysEnded == [][\A f \in Token : Ended(f) => Ended(f)']_vars

(* Each refresh token is honoured once, so a family has one live row.      *)
OneLivePerFamily ==
  \A t, s \in issued : row[t].fam = row[s].fam /\ Live(t) /\ Live(s) => t = s

-----------------------------------------------------------------------------
(* What the code says of itself and keeps while one request runs at a time. *)

Alone == \E w \in Worker : \A v \in Worker \ {w} : req[v] = Off

(* One request at a time honours a refresh token once: rotation and reuse  *)
(* detection leave a family one live row.                                  *)
OneLiveWhenAlone == Alone => OneLivePerFamily

(* revoke_session ends "the ability to mint more": once the family was     *)
(* signed out it has no live row.                                          *)
SignedOutStaysOut == Alone => \A f \in signedOut : Family(f) \subseteq revoked

(* Bumping token_version kills every access token the account held, for    *)
(* good, at identity.                                                      *)
BumpKills == Alone => \A t \in condemned : ~Accepted(t)

(* With no request in flight and none lost half way, an access token that  *)
(* identity accepts carries the account's present memberships and roles.   *)
ClaimsCurrent ==
  (Alone /\ crashes = 0 /\ \A w \in Worker : req[w] \in {Idle, Off})
    => \A t \in issued : Accepted(t) => row[t].claims = claims[row[t].user]
=============================================================================
