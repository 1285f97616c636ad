------------------------------- MODULE People -------------------------------
(***************************************************************************)
(* What Pulse believes of the people identity knows (identity_client.py),  *)
(* and the pass that drops the stored GitHub credentials of those who have *)
(* left (leavers.py).                                                      *)
(*                                                                         *)
(* Profiles are asked for in batches and cached; a name on a page and the  *)
(* pass share the cache, each in a thread of its own.  Identity's silence  *)
(* stands for every way a batch goes unanswered: no service token to be    *)
(* had, a second 401, an error, no connection, no secret configured.       *)
(* Only a call to identity takes time.                                     *)
(***************************************************************************)
EXTENDS Naturals, FiniteSets

CONSTANTS
  User, None,
  Beat,       \* the thread of the pass
  Page,       \* threads that draw names
  Batch,      \* MAX_LOOKUP_IDS
  TTL,        \* PROFILE_CACHE_TTL_SECONDS
  Latency,    \* of one batch, with its token
  MaxMoves    \* bound on what people do

VARIABLES
  person,     \* identity's answer on each person: "active", "inactive" or "unknown"
  since,      \* history: age of their last departure or return
  account,    \* people with a github_accounts row
  cache,      \* _profile_cache: active, and what is left of its time; or None
  call,       \* what each thread is finding out
  moves       \* bound

Thread == Page \cup {Beat}

vars == <<person, since, account, cache, call, moves>>

(* An answer may be stored one Latency after identity gave it, be read     *)
(* until its time is over, and wait for the batches of everyone else.      *)
Batches == (Cardinality(User) - 1 + Batch - 1) \div Batch
Long    == TTL + Latency * (1 + Batches)

Idle == [pc |-> "idle", kind |-> None, asked |-> {}, misses |-> {}, batch |-> {}, said |-> [u \in User |-> None],
         silence |-> FALSE, age |-> 0]

(* A batch and a cached answer are of some size, and the words of identity *)
(* are not None.                                                           *)
Settings ==
  /\ None \notin {"active", "inactive", "unknown"}
  /\ IsFiniteSet(User) /\ Batch \in Nat \ {0}
  /\ TTL \in Nat \ {0} /\ Latency \in Nat

Init ==
  /\ person = [u \in User |-> "active"] /\ since = [u \in User |-> Long]
  /\ account = User
  /\ cache = [u \in User |-> None]
  /\ call = [t \in Thread |-> Idle]
  /\ moves = 0

-----------------------------------------------------------------------------
(* People come and go. *)
Moves == moves < MaxMoves /\ moves' = moves + 1

Become(u, what) ==
  /\ Moves
  /\ person' = [person EXCEPT ![u] = what]
  /\ since' = IF (person[u] = "active") # (what = "active") THEN [since EXCEPT ![u] = 0] ELSE since
  /\ UNCHANGED <<account, cache, call>>

Leave(u)  == person[u] = "active" /\ Become(u, "inactive")
Return(u) == person[u] = "inactive" /\ Become(u, "active")
Remove(u) == person[u] # "unknown" /\ Become(u, "unknown")

Connect(u) ==
  /\ Moves /\ person[u] = "active" /\ u \notin account
  /\ account' = account \cup {u}
  /\ UNCHANGED <<person, since, cache, call>>

-----------------------------------------------------------------------------
(* _cached_profiles *)
Hits(S)  == {u \in S : cache[u] # None}
Known(S) == [u \in User |-> IF u \in Hits(S) THEN IF cache[u].active THEN "active" ELSE "inactive" ELSE None]

Start(t, kind, S) ==
  /\ call[t] = Idle /\ S # {}
  /\ call' = [call EXCEPT ![t] = [Idle EXCEPT !.pc = "next", !.kind = kind, !.asked = S, !.misses = S \ Hits(S),
                                              !.said = Known(S)]]
  /\ UNCHANGED <<person, since, account, cache, moves>>

(* resolve_profiles_answer for everyone with an account, and               *)
(* resolve_profiles for the names on a page.                               *)
BeginPass        == Start(Beat, "pass", account)
BeginNames(t, S) == Start(t, "names", S)

(* A batch: identity answers for all of it. *)
Ask(t, S) ==
  /\ call[t].pc = "next" /\ S # {} /\ S \subseteq call[t].misses
  /\ Cardinality(S) = Batch \/ (S = call[t].misses /\ Cardinality(S) < Batch)
  /\ call' = [call EXCEPT ![t] =
       [@ EXCEPT !.pc = "answer", !.batch = S, !.age = 0,
                 !.said = [u \in User |-> IF u \in S THEN person[u] ELSE call[t].said[u]]]]
  /\ UNCHANGED <<person, since, account, cache, moves>>

(* _store_profiles: who identity has no row for is not remembered. *)
Remembered(said) == IF said = "unknown" THEN None ELSE [active |-> said = "active", left |-> TTL]

(* The batch is done with. *)
Past(t, said, silence) ==
  [call[t] EXCEPT !.pc = "next", !.misses = @ \ call[t].batch, !.batch = {}, !.age = 0, !.said = said, !.silence = silence]

Store(t) ==
  /\ call[t].pc = "answer"
  /\ cache' = [u \in User |-> IF u \in call[t].batch /\ Remembered(call[t].said[u]) # None
                              THEN Remembered(call[t].said[u]) ELSE cache[u]]
  /\ call' = [call EXCEPT ![t] = Past(t, call[t].said, call[t].silence)]
  /\ UNCHANGED <<person, since, account, moves>>

(* The pass goes on with the next batch, a page without names. *)
Silence(t) ==
  /\ call[t].pc = "answer"
  /\ call' = [call EXCEPT ![t] =
       IF call[t].kind = "names" THEN Idle
       ELSE Past(t, [u \in User |-> IF u \in call[t].batch THEN None ELSE call[t].said[u]], TRUE)]
  /\ UNCHANGED <<person, since, account, cache, moves>>

Ends(t) == call[t].pc = "next" /\ call[t].misses = {} /\ call' = [call EXCEPT ![t] = Idle]

EndNames(t) ==
  /\ call[t].kind = "names" /\ Ends(t)
  /\ UNCHANGED <<person, since, account, cache, moves>>

(* Fault: who is in no answer has left. *)
DepartedUnlessActive(t) == {u \in call[t].asked : call[t].said[u] # "active"}

Departed(t) == {u \in call[t].asked : call[t].said[u] \in {"inactive", "unknown"}}

(* revoke_departed_credentials, and the end of the pass. *)
Drop(t) ==
  /\ call[t].kind = "pass" /\ Ends(t)
  /\ account' = account \ Departed(t)
  /\ UNCHANGED <<person, since, cache, moves>>

-----------------------------------------------------------------------------
Tick ==
  /\ \A t \in Thread : call[t] = Idle \/ (call[t].pc = "answer" /\ call[t].age < Latency)
  /\ since' = [u \in User |-> IF since[u] < Long THEN since[u] + 1 ELSE Long]
  /\ cache' = [u \in User |-> IF cache[u] = None \/ cache[u].left = 1 THEN None ELSE [cache[u] EXCEPT !.left = @ - 1]]
  /\ call' = [t \in Thread |-> IF call[t] = Idle THEN Idle ELSE [call[t] EXCEPT !.age = @ + 1]]
  /\ UNCHANGED <<person, account, moves>>

(* clear_profile_cache, and a process that starts again. *)
Clear ==
  /\ cache' = [u \in User |-> None] /\ call' = [t \in Thread |-> Idle]
  /\ UNCHANGED <<person, since, account, moves>>

Next ==
  \/ \E u \in User : Leave(u) \/ Return(u) \/ Remove(u) \/ Connect(u)
  \/ BeginPass
  \/ \E t \in Page, S \in SUBSET User : BeginNames(t, S)
  \/ \E t \in Thread :
       \/ EndNames(t) \/ Drop(t) \/ Store(t) \/ Silence(t)
       \/ \E S \in SUBSET User : Ask(t, S)
  \/ Tick \/ Clear

Spec == Init /\ [][Next]_vars

-----------------------------------------------------------------------------
(* A pass drops who has left, and nobody else.  Whoever loses the stored   *)
(* credential is away, or came back less than Long ago, whatever identity  *)
(* leaves unanswered and whichever answers are stored late or by another   *)
(* thread; and a pass that was answered leaves nobody who went away Long   *)
(* ago (leavers.py: an outage cannot delete a row).                        *)
DropIsDue ==
  \A t \in Thread : Drop(t) =>
    /\ \A u \in account \ account' : person[u] = "active" => since[u] < Long
    /\ ~call[t].silence =>
         \A u \in account' \cap call[t].asked : person[u] # "active" => since[u] < Long
DropsWhoLeft == [][DropIsDue]_vars
=============================================================================
