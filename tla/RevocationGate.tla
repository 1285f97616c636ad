--------------------------- MODULE RevocationGate ---------------------------
(***************************************************************************)
(* How a killed access token stops working at a product: identity's        *)
(* token_version and ended sessions, what identity publishes to Redis      *)
(* after a commit, and the gate of crescent_core in one product process:   *)
(* Redis first, then a cached token-version lookup.                        *)
(*                                                                         *)
(* One account: every key and every cache entry belongs to one account and *)
(* nothing relates two.  Token-version bumps are one step here; what two   *)
(* overlapping bumps do to the column is the subject of Sessions.          *)
(*                                                                         *)
(* Time is a counter.  A lookup takes at most Latency; a product's clock   *)
(* runs at most Skew behind identity's.                                    *)
(***************************************************************************)
EXTENDS Integers

CONSTANTS
  Token,           \* access tokens that may be minted (a bound)
  Session,         \* rotation families of the account
  Request,         \* requests in flight at the product
  Publisher,       \* requests in flight at identity that revoke something
  None,
  Life,            \* ACCESS_TOKEN_EXPIRE_MINUTES
  Skew,            \* CLOCK_SKEW_SECONDS
  TTL,             \* TOKEN_VERSION_TTL_SECONDS
  Backoff,         \* failure_backoff_seconds
  Latency,         \* longest lookup, failed or answered
  RedisFails,      \* may a SET or an MGET fail?
  IdentityFails,   \* may a lookup fail?
  MaxVersion,      \* bound on token_version
  MaxTime          \* bound on the clock

ASSUME GateAssumption ==
  /\ {Life, Skew, TTL, Backoff, Latency, MaxVersion, MaxTime} \subseteq Nat
  /\ TTL > 0
  /\ {RedisFails, IdentityFails} \subseteq BOOLEAN
  /\ None \notin Token \cup Session \cup Int

VARIABLES
  now,
  lag,        \* how far the product's clock is behind, fixed
  tv,         \* users.token_version
  bumpedAt,   \* when token_version became v
  exists,     \* the users row
  endedAt,    \* when a session's refresh rows were revoked, or None
  token,      \* minted access tokens: tv, sid, exp; or None
  pub,        \* what each publisher still has to do
  keyUser,    \* revoked:user:{uid}: value and expiry
  keySid,     \* revoked:sid:{sid}: expiry
  cache,      \* RevocationChecker._cache entry: value or None, expiry
  req,        \* requests at the product
  last,       \* the decision the last step made, or None
  failedAt,   \* history: when a lookup last failed
  disturbed   \* history: has Redis failed, or a publication been overtaken?

vars == <<now, lag, tv, bumpedAt, exists, endedAt, token, pub, keyUser, keySid,
          cache, req, last, failedAt, disturbed>>
identity == <<tv, bumpedAt, exists, endedAt, token>>
redis    == <<keyUser, keySid>>

-----------------------------------------------------------------------------
Version == 0 .. MaxVersion

TokenRecord == [tv: Nat, sid: Session, exp: Nat]
Publication == [do: {"idle", "reload", "user", "sid"}, val: Nat, sid: Session \cup {None}]
Waiting     == [pc: {"idle", "cache", "lookup", "version", "unknown", "failed"},
                tok: Token \cup {None}, since: Nat, answer: Nat, due: BOOLEAN]
Decision    == [tok: Token, ok: BOOLEAN, due: BOOLEAN,
                by: {"redis", "cache", "identity", "unavailable"}]

Todo(do, val, sid) == [do |-> do, val |-> val, sid |-> sid]
NothingTodo        == Todo("idle", 0, None)

At(pc, t, since, answer, due) ==
  [pc |-> pc, tok |-> t, since |-> since, answer |-> answer, due |-> due]
Idle == At("idle", None, 0, 0, FALSE)

(* Fault: no margin for clock drift. *)
KeyLifeNoMargin == Life

(* ttl_seconds(): the access-token lifetime plus the skew margin. *)
KeyLife == Life + Skew

Minted(t) == token[t] # None

(* verify_access_token at the product: not expired by its own clock. *)
Verifies(t) == Minted(t) /\ now - lag < token[t].exp

(* Identity has revoked the token: its version, its session or its account. *)
Outdated(t) == token[t].tv < tv
Ended(t)    == endedAt[token[t].sid] # None
Dead(t)     == Minted(t) /\ (Outdated(t) \/ Ended(t))

Published == \A p \in Publisher : pub[p].do = "idle"

-----------------------------------------------------------------------------
Init ==
  /\ now = 0 /\ lag \in 0 .. Skew
  /\ tv = 0 /\ bumpedAt = [v \in Version |-> 0] /\ exists = TRUE
  /\ endedAt = [s \in Session |-> None]
  /\ token = [t \in Token |-> None]
  /\ pub = [p \in Publisher |-> NothingTodo]
  /\ keyUser = [val |-> 0, until |-> 0]
  /\ keySid = [s \in Session |-> 0]
  /\ cache = [val |-> None, until |-> 0]
  /\ req = [r \in Request |-> Idle]
  /\ last = None /\ failedAt = 0 /\ disturbed = FALSE

-----------------------------------------------------------------------------
(* Identity.                                                               *)

(* _issue_token_pair for a session that is not ended. *)
Mint(t, s) ==
  /\ ~Minted(t) /\ exists /\ endedAt[s] = None
  /\ now < MaxTime
  /\ token' = [token EXCEPT ![t] = [tv |-> tv, sid |-> s, exp |-> now + Life]]
  /\ last' = None
  /\ UNCHANGED <<now, lag, tv, bumpedAt, exists, endedAt, pub, redis, cache, req, failedAt, disturbed>>

(* The commit of anything that bumps token_version.  It overtakes a        *)
(* publication that has read the version and not yet written it.           *)
Bump(p) ==
  /\ pub[p].do = "idle" /\ exists /\ tv < MaxVersion
  /\ tv' = tv + 1
  /\ bumpedAt' = [bumpedAt EXCEPT ![tv + 1] = now]
  /\ pub' = [pub EXCEPT ![p] = Todo("reload", 0, None)]
  /\ disturbed' = (disturbed \/ \E q \in Publisher : pub[q].do = "user")
  /\ last' = None
  /\ UNCHANGED <<now, lag, exists, endedAt, token, redis, cache, req, failedAt>>

(* user.token_version after the commit expired it: read again. *)
Reload(p) ==
  /\ pub[p].do = "reload" /\ exists
  /\ pub' = [pub EXCEPT ![p] = Todo("user", tv, None)]
  /\ last' = None
  /\ UNCHANGED <<now, lag, identity, redis, cache, req, failedAt, disturbed>>

(* The row was deleted since: the request fails and publishes nothing. *)
ReloadFails(p) ==
  /\ pub[p].do = "reload" /\ ~exists
  /\ pub' = [pub EXCEPT ![p] = NothingTodo]
  /\ disturbed' = TRUE
  /\ last' = None
  /\ UNCHANGED <<now, lag, identity, redis, cache, req, failedAt>>

(* revoke_session and revoke_refresh_token: rows first, then the key. *)
EndSession(p, s) ==
  /\ pub[p].do = "idle" /\ exists /\ endedAt[s] = None
  /\ endedAt' = [endedAt EXCEPT ![s] = now]
  /\ pub' = [pub EXCEPT ![p] = Todo("sid", 0, s)]
  /\ last' = None
  /\ UNCHANGED <<now, lag, tv, bumpedAt, exists, token, redis, cache, req, failedAt, disturbed>>

(* delete_user: the row goes, nothing is published. *)
DeleteUser ==
  /\ exists
  /\ exists' = FALSE
  /\ last' = None
  /\ UNCHANGED <<now, lag, tv, bumpedAt, endedAt, token, pub, redis, cache, req, failedAt, disturbed>>

(* _publish: SET with an expiry, whatever the key held. *)
Publish(p) ==
  /\ pub[p].do \in {"user", "sid"}
  /\ IF pub[p].do = "user"
       THEN /\ keyUser' = [val |-> pub[p].val, until |-> now + KeyLife]
            /\ UNCHANGED keySid
       ELSE /\ keySid' = [keySid EXCEPT ![pub[p].sid] = now + KeyLife]
            /\ UNCHANGED keyUser
  /\ pub' = [pub EXCEPT ![p] = NothingTodo]
  /\ last' = None
  /\ UNCHANGED <<now, lag, identity, cache, req, failedAt, disturbed>>

(* The SET failed, or the process died after the commit: no key. *)
PublishLost(p) ==
  /\ RedisFails
  /\ pub[p].do # "idle"
  /\ pub' = [pub EXCEPT ![p] = NothingTodo]
  /\ disturbed' = TRUE
  /\ last' = None
  /\ UNCHANGED <<now, lag, identity, redis, cache, req, failedAt>>

-----------------------------------------------------------------------------
(* The gate: current_user_dep at the product.                              *)

Decide(r, t, ok, by) ==
  /\ last' = [tok |-> t, ok |-> ok, by |-> by, due |-> req[r].due]
  /\ req' = [req EXCEPT ![r] = Idle]

(* PublishedRevocations.check: the session key exists, or the token is     *)
(* below the published version.                                            *)
CoveredBySid(t)  == now < keySid[token[t].sid]
CoveredByUser(t) == now < keyUser.until /\ token[t].tv < keyUser.val

RedisSaysRevoked(r, t) ==
  /\ req[r] = Idle /\ Verifies(t)
  /\ CoveredBySid(t) \/ CoveredByUser(t)
  /\ last' = [tok |-> t, ok |-> FALSE, by |-> "redis", due |-> FALSE]
  /\ UNCHANGED <<now, lag, identity, pub, redis, cache, req, failedAt, disturbed>>

(* NOT_REVOKED or UNAVAILABLE: neither decides anything.  A refusal is due *)
(* when identity had revoked the token and published everything.           *)
RedisSaysNothing(r, t) ==
  /\ req[r] = Idle /\ Verifies(t)
  /\ RedisFails \/ ~(CoveredBySid(t) \/ CoveredByUser(t))
  /\ req' = [req EXCEPT ![r] = At("cache", t, 0, 0, Dead(t) /\ Published)]
  /\ disturbed' = (disturbed \/ CoveredBySid(t) \/ CoveredByUser(t))
  /\ last' = None
  /\ UNCHANGED <<now, lag, identity, pub, redis, cache, failedAt>>

(* _compare: only a version below identity's is stale. *)
AtLeast(t, current) == token[t].tv >= current

(* Fault: the entry's expiry is not looked at. *)
CacheHitAnyAge(r) ==
  /\ req[r].pc = "cache"
  /\ cache.until > 0
  /\ IF cache.val = None
       THEN Decide(r, req[r].tok, TRUE, "unavailable")
       ELSE Decide(r, req[r].tok, AtLeast(req[r].tok, cache.val), "cache")
  /\ UNCHANGED <<now, lag, identity, pub, redis, cache, failedAt, disturbed>>

(* _cached: an entry that has not expired decides. *)
CacheHit(r) ==
  /\ req[r].pc = "cache"
  /\ now < cache.until
  /\ IF cache.val = None
       THEN Decide(r, req[r].tok, TRUE, "unavailable")
       ELSE Decide(r, req[r].tok, AtLeast(req[r].tok, cache.val), "cache")
  /\ UNCHANGED <<now, lag, identity, pub, redis, cache, failedAt, disturbed>>

CacheMiss(r) ==
  /\ req[r].pc = "cache"
  /\ now >= cache.until
  /\ req' = [req EXCEPT ![r] = At("lookup", req[r].tok, now, 0, req[r].due)]
  /\ last' = None
  /\ UNCHANGED <<now, lag, identity, pub, redis, cache, failedAt, disturbed>>

(* POST /internal/users/token-versions: the row as it is, or unknown. *)
Answer(r) ==
  /\ req[r].pc = "lookup"
  /\ req' = [req EXCEPT ![r] = At(IF exists THEN "version" ELSE "unknown",
                                  req[r].tok, req[r].since, tv, req[r].due)]
  /\ last' = None
  /\ UNCHANGED <<now, lag, identity, pub, redis, cache, failedAt, disturbed>>

(* Timeout, error, unreadable answer, or one without this id. *)
Unanswered(r) ==
  /\ IdentityFails
  /\ req[r].pc = "lookup"
  /\ req' = [req EXCEPT ![r] = At("failed", req[r].tok, req[r].since, 0, req[r].due)]
  /\ failedAt' = now
  /\ last' = None
  /\ UNCHANGED <<now, lag, identity, pub, redis, cache, disturbed>>

(* _fetch: the version is stored, over whatever another request stored. *)
StoreVersion(r) ==
  /\ req[r].pc = "version"
  /\ cache' = [val |-> req[r].answer, until |-> now + TTL]
  /\ Decide(r, req[r].tok, AtLeast(req[r].tok, req[r].answer), "identity")
  /\ UNCHANGED <<now, lag, identity, pub, redis, failedAt, disturbed>>

(* An unknown account is refused and not stored. *)
RefuseUnknown(r) ==
  /\ req[r].pc = "unknown"
  /\ Decide(r, req[r].tok, FALSE, "identity")
  /\ UNCHANGED <<now, lag, identity, pub, redis, cache, failedAt, disturbed>>

(* Fault: a failed lookup is read as a deleted account. *)
RefuseOnFailure(r) ==
  /\ req[r].pc = "failed"
  /\ Decide(r, req[r].tok, FALSE, "identity")
  /\ UNCHANGED <<now, lag, identity, pub, redis, cache, failedAt, disturbed>>

(* Fault: an outage is cached as long as an answer. *)
StoreFailureForTTL(r) ==
  /\ req[r].pc = "failed"
  /\ cache' = [val |-> None, until |-> now + TTL]
  /\ Decide(r, req[r].tok, TRUE, "unavailable")
  /\ UNCHANGED <<now, lag, identity, pub, redis, failedAt, disturbed>>

(* _unavailable: stored too, for Backoff, and the token is accepted. *)
StoreFailure(r) ==
  /\ req[r].pc = "failed"
  /\ cache' = [val |-> None, until |-> now + Backoff]
  /\ Decide(r, req[r].tok, TRUE, "unavailable")
  /\ UNCHANGED <<now, lag, identity, pub, redis, failedAt, disturbed>>

-----------------------------------------------------------------------------
(* Time passes, from the first token on; no lookup outlives its Latency. *)
Tick ==
  /\ now < MaxTime
  /\ \E t \in Token : Minted(t)
  /\ \A r \in Request : req[r].pc \in {"lookup", "version", "unknown", "failed"}
                          => now < req[r].since + Latency
  /\ now' = now + 1
  /\ last' = None
  /\ UNCHANGED <<lag, identity, pub, redis, cache, req, failedAt, disturbed>>

Next ==
  \/ \E t \in Token, s \in Session : Mint(t, s)
  \/ \E p \in Publisher :
       \/ Bump(p) \/ Reload(p) \/ ReloadFails(p) \/ Publish(p) \/ PublishLost(p)
       \/ \E s \in Session : EndSession(p, s)
  \/ DeleteUser
  \/ \E r \in Request :
       \/ \E t \in Token : RedisSaysRevoked(r, t) \/ RedisSaysNothing(r, t)
       \/ CacheHit(r) \/ CacheMiss(r)
       \/ Answer(r) \/ Unanswered(r)
       \/ StoreVersion(r) \/ RefuseUnknown(r) \/ StoreFailure(r)
  \/ Tick

Spec == Init /\ [][Next]_vars

-----------------------------------------------------------------------------
TypeOK ==
  /\ now \in Nat /\ lag \in 0 .. Skew
  /\ tv \in Version /\ bumpedAt \in [Version -> Nat] /\ exists \in BOOLEAN
  /\ endedAt \in [Session -> Nat \cup {None}]
  /\ token \in [Token -> TokenRecord \cup {None}]
  /\ pub \in [Publisher -> Publication]
  /\ keyUser \in [val: Nat, until: Nat] /\ keySid \in [Session -> Nat]
  /\ cache \in [val: Nat \cup {None}, until: Nat]
  /\ req \in [Request -> Waiting]
  /\ last \in Decision \cup {None}
  /\ failedAt \in Nat /\ disturbed \in BOOLEAN

(* No false logout: the gate refuses a token only if identity has revoked  *)
(* it -- its version is behind, its session ended or its account is gone   *)
(* -- in every order of publications, lookups, failures and expiries.      *)
RefusesOnlyRevoked ==
  last # None /\ ~last.ok => Dead(last.tok) \/ ~exists

(* A token accepted on an answer of identity was outdated for less than    *)
(* the cache lifetime plus one lookup, however lookups overlap and in      *)
(* whatever order their answers are stored.                                *)
AcceptedIsFresh ==
  last # None /\ last.ok /\ last.by \in {"cache", "identity"} /\ Outdated(last.tok)
    => now < bumpedAt[token[last.tok].tv + 1] + TTL + Latency

(* A token is accepted unchecked only in the shadow of a failed lookup.    *)
UncheckedNeedsFailure ==
  last # None /\ last.by = "unavailable" => now < failedAt + Latency + Backoff

(* A killed token dies on the next request: while Redis answers and no     *)
(* publication is overtaken by another bump, no request that starts once   *)
(* identity has revoked its token and published that is accepted, for as   *)
(* long as the token verifies at the product -- the keys live long enough. *)
PublishedDies == last # None /\ last.ok /\ ~disturbed => ~last.due

(* With identity answering, a token of a session ended longer ago than     *)
(* the cache lifetime plus one lookup is refused, Redis or no Redis.       *)
EndedSessionIsSeen ==
  last # None /\ last.ok /\ Ended(last.tok)
    => now < endedAt[token[last.tok].sid] + TTL + Latency
=============================================================================
