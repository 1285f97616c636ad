----------------------------- MODULE SigningKeys -----------------------------
(***************************************************************************)
(* Rotating the key identity signs with: scripts/rotate-identity-keys.sh   *)
(* moves the files, every identity process reads them once, mints, and     *)
(* publishes what it has read (security/keys.py), and a product verifies   *)
(* with the document it has cached (crescent_core's JWKSClient).           *)
(*                                                                         *)
(* The operator follows the printed steps: restart every instance, then    *)
(* wait.  A command of the script is one step.  --force, rotate-now and    *)
(* prune are left out.  Times are ages, counted to the longest wait that   *)
(* is asked of them.  A kid is the hash of its key, so it is the key.      *)
(***************************************************************************)
EXTENDS Naturals, FiniteSetsExt

CONSTANTS
  Instance,      \* identity processes
  None,
  MaxKeys,       \* bound on the keys ever made
  Publication,   \* PREPUBLISH_WAIT_SECONDS
  Retirement,    \* RETIRE_WAIT_MINUTES
  Floor,         \* min_refresh_interval_seconds
  TTL,           \* of the cached document
  Life,          \* of an access token
  Latency        \* the fetch timeout

VARIABLES
  disk,      \* the key directory
  made,      \* keys made so far
  since,     \* age of PREPARED_AT or promoted-*.at
  settled,   \* age of the last restart of the instances that restarted since
  restarted, \* instances that restarted since the files moved
  proc,      \* what each instance has read; boot is history
  tokens,    \* tokens in use, with what is left of their life
  client,    \* the product's JWKSClient
  waiting,   \* tokens whose verification waits for the fetch
  refused,   \* history: a genuine token was turned away without an outage
  late       \* history: an instance first read the pair after it had changed

operation == <<disk, made, since, settled, restarted>>
vars == <<operation, proc, tokens, client, waiting, refused, late>>

Longest == Max({Publication, Retirement, Floor})
Older(age) == IF age < Longest THEN age + 1 ELSE age

Booted == [private |-> None, public |-> None, retired |-> disk.retired, boot |-> disk.signing]
Cold   == [keys |-> {}, fresh |-> 0, quiet |-> Longest, error |-> FALSE, fetch |-> None]
MadeUp == [kid |-> 0, by |-> 0]

(* The operator waits for what he is told to, in this order: a product asks *)
(* again, and gets its answer, before a prepared key is promoted; and a     *)
(* token's life is over before the key it was signed with is retired.       *)
Settings ==
  /\ None \notin Nat /\ \A keys \in SUBSET (1 .. MaxKeys) : keys # None
  /\ MaxKeys \in Nat \ {0} /\ Publication \in Nat /\ Retirement \in Nat /\ Floor \in Nat
  /\ TTL \in Nat /\ Life \in Nat \ {0} /\ Latency \in Nat
  /\ Floor <= Publication /\ Latency < Publication /\ Life <= Retirement

Init ==
  /\ disk = [signing |-> 1, next |-> None, archive |-> None, retired |-> {}]
  /\ made = 1 /\ since = 0 /\ settled = 0 /\ restarted = {}
  /\ proc = [i \in Instance |-> Booted]
  /\ tokens = {} /\ client = Cold /\ waiting = {} /\ refused = FALSE /\ late = FALSE

-----------------------------------------------------------------------------
(* The script. *)
Phase ==
  CASE disk.next # None    -> "prepared"
    [] disk.archive # None -> "promoted"
    [] OTHER               -> "idle"

MoveFiles(files) ==
  /\ disk' = files
  /\ since' = 0 /\ settled' = 0 /\ restarted' = {}
  /\ UNCHANGED <<proc, tokens, client, waiting, refused, late>>

(* remaining_seconds, which counts from the files; and the printed advice, *)
(* which counts from the last restart.                                     *)
Waited(wait) == since >= wait /\ restarted = Instance /\ settled >= wait

Prepare ==
  /\ Phase = "idle" /\ made < MaxKeys
  /\ made' = made + 1
  /\ MoveFiles([disk EXCEPT !.next = made + 1, !.retired = @ \cup {made + 1}])

(* Fault: the superseded key is not retired. *)
PromoteForgetting ==
  /\ Phase = "prepared" /\ Waited(Publication)
  /\ MoveFiles([signing |-> disk.next, next |-> None, archive |-> disk.signing,
                retired |-> disk.retired \ {disk.next}])
  /\ UNCHANGED made

Promote ==
  /\ Phase = "prepared" /\ Waited(Publication)
  /\ MoveFiles([signing |-> disk.next, next |-> None, archive |-> disk.signing,
                retired |-> (disk.retired \cup {disk.signing}) \ {disk.next}])
  /\ UNCHANGED made

Finish ==
  /\ Phase = "promoted" /\ Waited(Retirement)
  /\ MoveFiles([disk EXCEPT !.archive = None, !.retired = @ \ {disk.archive}])
  /\ UNCHANGED made

Abort ==
  /\ Phase = "prepared"
  /\ MoveFiles([disk EXCEPT !.next = None, !.retired = @ \ {disk.next}])
  /\ UNCHANGED made

Rollback ==
  /\ Phase = "promoted"
  /\ MoveFiles([disk EXCEPT !.signing = disk.archive, !.archive = disk.signing,
                            !.retired = (@ \cup {disk.signing}) \ {disk.archive}])
  /\ UNCHANGED made

-----------------------------------------------------------------------------
(* An identity process: the retired keys are read at startup, the pair     *)
(* when it is first needed.                                                *)
Restart(i) ==
  /\ proc' = [proc EXCEPT ![i] = Booted]
  /\ restarted' = restarted \cup {i} /\ settled' = 0
  /\ UNCHANGED <<disk, made, since, tokens, client, waiting, refused, late>>

Private(i) == IF proc[i].private = None THEN disk.signing ELSE proc[i].private
Public(i)  == IF proc[i].public = None THEN disk.signing ELSE proc[i].public

(* get_public_jwks, and the keys the process verifies with itself. *)
Document(i) == {Public(i)} \cup proc[i].retired

(* i is about to read the files it has not read yet. *)
Reads(i, files) == late' = (late \/ (disk.signing # proc[i].boot /\ \E f \in files : proc[i][f] = None))

Mint(i) ==
  /\ proc' = [proc EXCEPT ![i].private = Private(i), ![i].public = Public(i)]
  /\ Reads(i, {"private", "public"})
  /\ tokens' = tokens \cup {[kid |-> Public(i), by |-> Private(i), left |-> Life]}
  /\ UNCHANGED <<operation, client, waiting, refused>>

-----------------------------------------------------------------------------
(* The product. *)
Stale(kid) == client.fresh = 0 \/ kid \notin client.keys

(* verify_access_token: with keys cached, an unknown key or a signature    *)
(* that does not match is the token's fault.                               *)
TurnsAway(t, c) == t # MadeUp /\ ~c.error /\ (t.kid \notin c.keys \/ t.by # t.kid)

FloorNow == IF client.keys = {} THEN 0 ELSE Floor

(* get_key without a fetch: the key is there, or the floor is not past.    *)
Judge(t) ==
  /\ Stale(t.kid) => client.fetch = None /\ client.quiet < FloorNow
  /\ refused' = (refused \/ TurnsAway(t, client))
  /\ UNCHANGED <<operation, proc, tokens, client, waiting, late>>

Wait(t) ==
  /\ Stale(t.kid) /\ client.fetch # None
  /\ waiting' = waiting \cup {t}
  /\ UNCHANGED <<operation, proc, tokens, client, refused, late>>

(* _maybe_refresh: one fetch at a time, of any instance. *)
Fetch(t, i) ==
  /\ Stale(t.kid) /\ client.fetch = None /\ client.quiet >= FloorNow
  /\ client' = [client EXCEPT !.fetch = Document(i), !.quiet = 0]
  /\ waiting' = {t}
  /\ proc' = [proc EXCEPT ![i].public = Public(i)] /\ Reads(i, {"public"})
  /\ UNCHANGED <<operation, tokens, refused>>

(* _fetch_into_cache, and the verifications that waited for it. *)
Answered(c) ==
  /\ client.fetch # None
  /\ client' = c
  /\ refused' = (refused \/ \E t \in waiting : TurnsAway(t, c))
  /\ waiting' = {}
  /\ UNCHANGED <<operation, proc, tokens, late>>

Arrive == Answered([client EXCEPT !.keys = client.fetch, !.fresh = TTL, !.error = FALSE, !.fetch = None])
Break  == Answered([client EXCEPT !.error = TRUE, !.fetch = None])

ProductRestart ==
  /\ client' = Cold /\ waiting' = {}
  /\ UNCHANGED <<operation, proc, tokens, refused, late>>

Tick ==
  /\ client.fetch # None => client.quiet < Latency
  /\ since' = Older(since) /\ settled' = Older(settled)
  /\ client' = [client EXCEPT !.fresh = IF @ = 0 THEN 0 ELSE @ - 1, !.quiet = Older(@)]
  /\ tokens' = {[t EXCEPT !.left = @ - 1] : t \in {s \in tokens : s.left > 1}}
  /\ UNCHANGED <<disk, made, restarted, proc, waiting, refused, late>>

Presented == {MadeUp} \cup {[kid |-> t.kid, by |-> t.by] : t \in tokens}

Next ==
  \/ Prepare \/ Promote \/ Finish \/ Abort \/ Rollback
  \/ \E i \in Instance : Restart(i) \/ Mint(i)
  \/ \E t \in Presented : Judge(t) \/ Wait(t) \/ \E i \in Instance : Fetch(t, i)
  \/ Arrive \/ Break \/ ProductRestart
  \/ Tick

Spec == Init /\ [][Next]_vars

-----------------------------------------------------------------------------
(* With every step waited for, no token that has not expired is turned     *)
(* away in any phase, by a product that reached identity when it last      *)
(* asked or by an instance of identity -- provided no instance first reads *)
(* the pair after it has changed.                                          *)
GoodTokensPass ==
  ~late => /\ ~refused
           /\ \A t \in tokens, i \in Instance : proc[i].public # None => t.kid \in Document(i)
=============================================================================
