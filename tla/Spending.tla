------------------------------ MODULE Spending ------------------------------
(***************************************************************************)
(* What one person's requests of services/pulse spend in a day: a chat     *)
(* answer (the question's embedding, then the reply), a journal rollup     *)
(* (one call) and an ad-hoc report (one call for each contributor with     *)
(* something to tell).  Each call is checked against the ledger first; the *)
(* ledger is written once, with the result.                                *)
(*                                                                         *)
(* The day, the allowance and the key stay the same; no estimate is below  *)
(* what is billed, as llm_budget means it to be.                           *)
(***************************************************************************)
EXTENDS Naturals, FiniteSetsExt

CONSTANTS
  Request,       \* requests of one person (a bound)
  None,
  Cap,           \* the daily allowance
  Estimates,     \* what a call may be estimated at
  Waits, MaxWait, MaxRetries,   \* what a provider asks to wait, and provider_limits' two bounds
  MaxSections,   \* contributors of an ad-hoc report (a bound)
  MaxBilled      \* bound on the tokens billed

VARIABLES
  req,      \* each request under way, or None
  ledger,   \* llm_usage today
  billed,   \* what the providers have charged
  lost,     \* what of it went with calls and requests that failed
  crowded   \* history: two requests were under way at once

vars == <<req, ledger, billed, lost, crowded>>

(* Estimates are some numbers of tokens, of which one is the largest. *)
Settings ==
  /\ IsFiniteSet(Request)
  /\ Cap \in Nat /\ MaxSections \in Nat /\ MaxRetries \in Nat /\ Waits \subseteq Nat
  /\ Estimates \subseteq Nat \ {0}
  /\ \E most \in Estimates : \A e \in Estimates : e <= most
  /\ None \notin [kind : {"chat", "rollup", "adhoc"}, calls : Nat, spent : Nat, asked : Nat, failed : Nat,
                  waited : Nat, tries : Nat]

Init ==
  req = [q \in Request |-> None] /\ ledger = 0 /\ billed = 0 /\ lost = 0 /\ crowded = FALSE

Under == {q \in Request : req[q] # None}
Pending == SumFunction([q \in Request |-> IF req[q] = None THEN 0 ELSE req[q].spent])

(* Fault: what the call is about to cost is not counted. *)
AdmitsUnestimated(estimate) == ledger < Cap

(* check_budget *)
Admits(estimate) == ledger < Cap /\ ledger + estimate <= Cap

Begin(q, kind, calls) ==
  /\ req[q] = None
  /\ req' = [req EXCEPT ![q] = [kind |-> kind, calls |-> calls, spent |-> 0, asked |-> 0, failed |-> 0,
                                waited |-> 0, tries |-> 0]]
  /\ crowded' = (crowded \/ Under # {})
  /\ UNCHANGED <<ledger, billed, lost>>

(* chat.answer, generate_rollup and generate_adhoc_report up to their      *)
(* first call; the check of an ad-hoc report asks for nothing.             *)
Ask(q) == Begin(q, "chat", 2)
RollUp(q) == Begin(q, "rollup", 1)
Report(q, sections) == Admits(0) /\ Begin(q, "adhoc", sections)

(* A check with the text of the next call in hand. *)
Check(q, estimate) ==
  /\ req[q] # None /\ req[q].calls > 0 /\ req[q].asked = 0
  /\ Admits(estimate)
  /\ req' = [req EXCEPT ![q].asked = estimate, ![q].failed = 0, ![q].waited = 0, ![q].tries = 0]
  /\ UNCHANGED <<ledger, billed, lost, crowded>>

(* A call that has been admitted and may still be tried: twice. *)
Asking(q) == req[q] # None /\ req[q].asked > 0 /\ req[q].failed < 2

(* call_with_retry: a 429 is waited out while the waits add up to no more  *)
(* than the bound and there are tries left.                                *)
Throttle(q, wait) ==
  /\ Asking(q)
  /\ wait <= MaxWait /\ req[q].waited + wait <= MaxWait /\ req[q].tries < MaxRetries
  /\ req' = [req EXCEPT ![q].waited = @ + wait, ![q].tries = @ + 1]
  /\ UNCHANGED <<ledger, billed, lost, crowded>>

(* A failure of any other kind, billed for or not (a reply without text    *)
(* is): once more from the start.                                          *)
Retry(q, cost) ==
  /\ Asking(q) /\ cost <= req[q].asked /\ billed + cost <= MaxBilled
  /\ billed' = billed + cost /\ lost' = lost + cost
  /\ req' = [req EXCEPT ![q].failed = @ + 1, ![q].waited = 0, ![q].tries = 0]
  /\ UNCHANGED <<ledger, crowded>>

(* The answer, and what it cost. *)
Call(q, cost) ==
  /\ Asking(q) /\ cost <= req[q].asked /\ billed + cost <= MaxBilled
  /\ billed' = billed + cost
  /\ req' = [req EXCEPT ![q].spent = @ + cost, ![q].calls = @ - 1, ![q].asked = 0]
  /\ UNCHANGED <<ledger, lost, crowded>>

(* The result and the ledger row, in one commit. *)
Store(q) ==
  /\ req[q] # None /\ req[q].calls = 0
  /\ ledger' = ledger + req[q].spent
  /\ req' = [req EXCEPT ![q] = None]
  /\ UNCHANGED <<billed, lost, crowded>>

(* Refused by a check, given up on a provider, or the commit fails: what   *)
(* the calls before it cost is in no ledger.                               *)
Fail(q) ==
  /\ req[q] # None
  /\ lost' = lost + req[q].spent
  /\ req' = [req EXCEPT ![q] = None]
  /\ UNCHANGED <<ledger, billed, crowded>>

Next ==
  \E q \in Request :
    \/ Ask(q) \/ RollUp(q) \/ Store(q) \/ Fail(q)
    \/ \E n \in 0 .. MaxSections : Report(q, n)
    \/ \E n \in Estimates : Check(q, n)
    \/ \E n \in Waits : Throttle(q, n)
    \/ \E n \in 1 .. Max(Estimates) : Call(q, n)
    \/ \E n \in {0} \cup Estimates : Retry(q, n)

Spec == Init /\ [][Next]_vars

-----------------------------------------------------------------------------
(* What a request may add after a check that let it through. *)
MostCalls == Max({2, MaxSections})
MostAdded(n) == (n * MostCalls - 1) * Max(Estimates)

(* Every token billed is in the ledger, in a request under way or lost     *)
(* with a call or a request that failed; and what was checked call by call *)
(* against a ledger that is written once per request goes over the         *)
(* allowance by the other calls of one request at most, or of as many as   *)
(* overlap -- however checks, retries and ledger rows interleave.          *)
SpendIsBounded ==
  /\ billed = ledger + Pending + lost
  /\ ledger + Pending <= Cap + MostAdded(IF crowded THEN Cardinality(Request) ELSE 1)

(* A report that starts inside the allowance, and is the only request,     *)
(* does not finish outside of it.                                          *)
ReportWithinAllowance ==
  \A q \in Under : req[q].kind = "adhoc" /\ req[q].spent > 0 /\ ~crowded => ledger + req[q].spent <= Cap
=============================================================================
