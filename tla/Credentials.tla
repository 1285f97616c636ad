----------------------------- MODULE Credentials -----------------------------
(***************************************************************************)
(* Whose key pays for a model call of services/pulse, and how many tokens  *)
(* a day it may cost: the keys people and departments install, the         *)
(* allowances at three levels, and the check in front of every call.       *)
(*                                                                         *)
(* An upsert reads, decides and (for a key) probes the provider before it  *)
(* writes, so two may overlap.  The unique constraint on scope, owner and  *)
(* department holds a NULL in every row and so refuses none; a lookup that *)
(* finds two rows takes either.  Keys of the two providers are not told    *)
(* apart.  A call is one step: calls that overlap are in Reports.          *)
(* An allowance of 0 is none at all: unlimited.                            *)
(***************************************************************************)
EXTENDS Integers, Sequences, FiniteSetsExt

CONSTANTS
  User, Dept,
  Boss,          \* a platform admin
  DeptHead,      \* the admin of each department
  DeptsOf,       \* the departments of each person, in their token's order
  None,
  Worker,        \* upserts in flight (a bound)
  Allowance,     \* the allowances anyone may ask for
  DefaultCap,    \* LLM_DAILY_TOKEN_CAP_PER_USER
  KeyRows, CapRows,   \* rows there may be, as pairs of their subject and a number (a bound)
  MaxUsed             \* bound on one person's tokens

VARIABLES
  key,       \* api_credentials: bypass_token_cap of each row that is there, or None
  cap,       \* token_budgets: daily_token_cap of each row that is there, or None
  req,       \* what each worker is about to write, or None
  used,      \* each person's llm_usage today
  onUs,      \* history: what of it went to the platform's key
  peak,      \* history: the most permissive platform allowance there has been
  backed     \* history: who ever had a key ("key"), or an allowance from a platform admin
             \* ("grant"); "no" before either

vars == <<key, cap, req, used, onUs, peak, backed>>

-----------------------------------------------------------------------------
(* A row is for a person, a department or, None, the platform. *)
Subject == User \cup Dept \cup {None}

Init ==
  /\ key = [i \in KeyRows |-> None] /\ cap = [i \in CapRows |-> None]
  /\ req = [w \in Worker |-> None]
  /\ used = [u \in User |-> 0] /\ onUs = [u \in User |-> 0]
  /\ peak = DefaultCap /\ backed = [s \in User \cup Dept |-> "no"]

(* Subjects are told apart, and rows are pairs of their subject and a      *)
(* number.                                                                 *)
Settings ==
  /\ User \cap Dept = {} /\ None \notin User \cup Dept
  /\ DeptsOf \in [User -> Seq(Dept)]
  /\ None \notin Int /\ Allowance \subseteq Int /\ DefaultCap \in Int
  /\ KeyRows \subseteq Subject \X Nat /\ CapRows \subseteq Subject \X Nat
  /\ None \notin KeyRows /\ None \notin CapRows

KeysOf(s) == {i \in KeyRows : i[1] = s /\ key[i] # None}
CapsOf(s) == {i \in CapRows : i[1] = s /\ cap[i] # None}

(* _require_may_write; the platform's allowance is for platform admins. *)
MayWrite(by, s) == by = Boss \/ (s \in User /\ by = s) \/ (s \in Dept /\ by = DeptHead[s])

(* resolve_for_user_id: the person's key, the first department's that has  *)
(* one, the platform's; and the rows it may find.                          *)
FirstWith(depts, Rows(_)) ==
  LET have == {i \in DOMAIN depts : Rows(depts[i]) # {}}
  IN  IF have = {} THEN {} ELSE Rows(depts[Min(have)])

KeysFor(u, depts) == IF KeysOf(u) # {} THEN KeysOf(u) ELSE FirstWith(depts, KeysOf)

(* resolve_cap, and _inherited_cap with the person's own row left out. *)
PlatformCaps == IF CapsOf(None) # {} THEN {cap[i] : i \in CapsOf(None)} ELSE {DefaultCap}

Inherited(depts) ==
  IF FirstWith(depts, CapsOf) # {} THEN {cap[i] : i \in FirstWith(depts, CapsOf)} ELSE PlatformCaps

CapsFor(u, depts) == IF CapsOf(u) # {} THEN {cap[i] : i \in CapsOf(u)} ELSE Inherited(depts)

(* What a row for s would override. *)
Ceiling(s) ==
  CASE s = None -> {DefaultCap}
    [] s \in Dept -> PlatformCaps
    [] s \in User -> Inherited(DeptsOf[s])

(* Fault: unlimited counts as the least of allowances. *)
LargerNumber(requested, inherited) == requested > inherited

(* is_more_permissive *)
MorePermissive(requested, inherited) ==
  inherited > 0 /\ (requested <= 0 \/ requested > inherited)

(* _require_may_raise: a platform admin may; others with a key of their own.*)
MayRaise(by, s) == by = Boss \/ KeysOf(s) # {}

-----------------------------------------------------------------------------
(* What a lookup comes back with: one of the rows, or None. *)
Found(rows) == IF rows = {} THEN {None} ELSE rows

(* upsert_credential up to its commit: the row found, and the probe.       *)
ReadKey(w, by, s, bypass) ==
  /\ req[w] = None
  /\ s # None /\ MayWrite(by, s)
  /\ \E i \in Found(KeysOf(s)) :
       req' = [req EXCEPT ![w] = [table |-> "key", of |-> s, row |-> i, bypass |-> bypass, to |-> 0, by |-> by]]
  /\ UNCHANGED <<key, cap, used, onUs, peak, backed>>

(* upsert_budget up to its commit. *)
ReadCap(w, by, s, n) ==
  /\ req[w] = None
  /\ MayWrite(by, s)
  /\ \E inherited \in Ceiling(s) : MorePermissive(n, inherited) => MayRaise(by, s)
  /\ \E i \in Found(CapsOf(s)) :
       req' = [req EXCEPT ![w] = [table |-> "cap", of |-> s, row |-> i, bypass |-> FALSE, to |-> n, by |-> by]]
  /\ UNCHANGED <<key, cap, used, onUs, peak, backed>>

(* The row that was read, unless it was deleted since, or a new one.       *)
Writes(w, table, rows) ==
  {i \in DOMAIN rows :
     /\ req[w] # None /\ req[w].table = table
     /\ IF req[w].row = None THEN i[1] = req[w].of /\ rows[i] = None
        ELSE i = req[w].row /\ rows[i] # None}

WriteKey(w) ==
  /\ \E i \in Writes(w, "key", key) : key' = [key EXCEPT ![i] = req[w].bypass]
  /\ backed' = IF backed[req[w].of] = "no" THEN [backed EXCEPT ![req[w].of] = "key"] ELSE backed
  /\ req' = [req EXCEPT ![w] = None]
  /\ UNCHANGED <<cap, used, onUs, peak>>

WriteCap(w) ==
  /\ \E i \in Writes(w, "cap", cap) : cap' = [cap EXCEPT ![i] = req[w].to]
  /\ peak' = IF req[w].of = None /\ MorePermissive(req[w].to, peak) THEN req[w].to ELSE peak
  /\ backed' = IF req[w].by = Boss /\ req[w].of # None
                 THEN [backed EXCEPT ![req[w].of] = "grant"] ELSE backed
  /\ req' = [req EXCEPT ![w] = None]
  /\ UNCHANGED <<key, used, onUs>>

(* The request dies, or its row was deleted and the UPDATE fails. *)
Abandon(w) ==
  /\ req[w] # None
  /\ req' = [req EXCEPT ![w] = None]
  /\ UNCHANGED <<key, cap, used, onUs, peak, backed>>

(* delete_credential and delete_budget, by those who may write the row. *)
DropKey(i, by) ==
  /\ key[i] # None /\ MayWrite(by, i[1])
  /\ key' = [key EXCEPT ![i] = None]
  /\ UNCHANGED <<cap, req, used, onUs, peak, backed>>

DropCap(i, by) ==
  /\ cap[i] # None /\ MayWrite(by, i[1])
  /\ cap' = [cap EXCEPT ![i] = None]
  /\ UNCHANGED <<key, req, used, onUs, peak, backed>>

(* check_budget, the call and its ledger row, for a request with the       *)
(* departments of its token or a task that knows none.                     *)
Fits(u, cost, n) == n <= 0 \/ (used[u] < n /\ used[u] + cost <= n)

Call(u, depts, cost) ==
  /\ used[u] + cost <= MaxUsed
  /\ LET paying == KeysFor(u, depts)
     IN  /\ \/ \E i \in paying : key[i] = TRUE
            \/ \E n \in CapsFor(u, depts) : Fits(u, cost, n)
         /\ onUs' = IF paying = {} THEN [onUs EXCEPT ![u] = @ + cost] ELSE onUs
  /\ used' = [used EXCEPT ![u] = @ + cost]
  /\ UNCHANGED <<key, cap, req, peak, backed>>

Next ==
  \/ \E w \in Worker :
       \/ \E by \in User \cup {Boss} \cup {DeptHead[d] : d \in Dept}, s \in Subject :
            \/ \E bypass \in BOOLEAN : ReadKey(w, by, s, bypass)
            \/ \E n \in Allowance : ReadCap(w, by, s, n)
       \/ WriteKey(w) \/ WriteCap(w) \/ Abandon(w)
  \/ \E by \in User \cup {Boss} \cup {DeptHead[d] : d \in Dept} :
       \/ \E i \in KeyRows : DropKey(i, by)
       \/ \E i \in CapRows : DropCap(i, by)
  \/ \E u \in User, depts \in {<< >>} \cup {DeptsOf[v] : v \in User}, cost \in 1 .. MaxUsed :
       (depts # << >> => depts = DeptsOf[u]) /\ Call(u, depts, cost)

Spec == Init /\ [][Next]_vars

-----------------------------------------------------------------------------
Behind(u) == {u} \cup {DeptsOf[u][i] : i \in DOMAIN DeptsOf[u]}

(* Who never had a key, nor was in a department that had one or was given  *)
(* an allowance, cannot spend more of the platform's money than the        *)
(* platform ever allowed, in whatever order allowances are set, overlap,   *)
(* are dropped and are inherited.                                          *)
PlatformMoneyCapped ==
  \A u \in User : (\A s \in Behind(u) : backed[s] = "no") /\ peak > 0 => onUs[u] <= peak

(* You may only relax a limit on spend you are paying for: the platform    *)
(* pays for no more than it allows, unless it gave more itself.            *)
OnlyPayersRelax ==
  \A u \in User : (\A s \in Behind(u) : backed[s] # "grant") /\ peak > 0 => onUs[u] <= peak
=============================================================================
