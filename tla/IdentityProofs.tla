--------------------------- MODULE IdentityProofs ---------------------------
(***************************************************************************)
(* Proofs about what keeps tokens and accounts of identity in order, for   *)
(* any number of tokens, sessions, accounts, addresses, links, services    *)
(* and concurrent requests and for all lifetimes: the revocation gate, the *)
(* signing keys, and the accounts.  The parts share no state, so each has  *)
(* an invariant of its own that the steps of the others leave alone.       *)
(***************************************************************************)
EXTENDS MCIdentity, FiniteSetTheorems, TLAPS

(***************************************************************************)
(* The gate.  Two facts carry its theorems: whatever identity is quoted as *)
(* saying -- in a key, a cache entry or an answer on its way -- was true   *)
(* when it was said, and an answer that has become false did so after its  *)
(* lookup began.                                                           *)
(***************************************************************************)
(* Bumps happen in order and not in the future. *)
BumpsOK ==
  \A v \in 1 .. tv :
    /\ bumpedAt[v] <= now
    /\ \A u \in 1 .. v : bumpedAt[u] <= bumpedAt[v]

(* What is published, or about to be, identity has decided. *)
KeysOK ==
  /\ keyUser.val <= tv
  /\ \A s \in Session : keySid[s] > 0 => endedAt[s] # None
  /\ \A p \in Publisher :
       /\ pub[p].val <= tv
       /\ pub[p].do = "sid" => pub[p].sid \in Session /\ endedAt[pub[p].sid] # None

(* A cached version was current, and expires soon after it stopped being so. *)
CacheOK ==
  cache.val # None =>
    /\ cache.val <= tv
    /\ cache.until <= now + TTL
    /\ cache.val < tv => cache.until <= bumpedAt[cache.val + 1] + Latency + TTL

(* A request names a minted token; a lookup is in time, and its answer was *)
(* still true when the lookup began.                                       *)
Looking == {"lookup", "version", "unknown", "failed"}

RequestOK(r) ==
  /\ req[r].pc # "idle" => req[r].tok \in Token /\ Minted(req[r].tok)
  /\ req[r].pc \in Looking => req[r].since <= now /\ now <= req[r].since + Latency
  /\ req[r].pc = "version" =>
       /\ req[r].answer <= tv
       /\ req[r].answer < tv => req[r].since <= bumpedAt[req[r].answer + 1]
  /\ req[r].pc = "unknown" => ~exists

RequestsOK == \A r \in Request : RequestOK(r)

IInv == /\ TypeOK
        /\ BumpsOK
        /\ KeysOK
        /\ CacheOK
        /\ RequestsOK
        /\ RefusesOnlyRevoked
        /\ AcceptedIsFresh

-----------------------------------------------------------------------------
(* The constants are what GateAssumption says. *)
LEMMA Numbers ==
  /\ Life \in Nat /\ Skew \in Nat /\ TTL \in Nat /\ Backoff \in Nat
  /\ Latency \in Nat /\ MaxVersion \in Nat /\ MaxTime \in Nat
  /\ TTL > 0
  /\ None \notin Nat /\ None \notin Token /\ None \notin Session
  /\ KeyLife \in Nat
BY GateAssumption DEF KeyLife

(* The parts requests and publications are put together from. *)
LEMMA Parts ==
  /\ Idle \in Waiting /\ Idle.pc = "idle"
  /\ NothingTodo \in Publication /\ NothingTodo.do = "idle" /\ NothingTodo.val = 0
  /\ \A pc, t, from, answer, due :
       /\ At(pc, t, from, answer, due).pc = pc
       /\ At(pc, t, from, answer, due).tok = t
       /\ At(pc, t, from, answer, due).since = from
       /\ At(pc, t, from, answer, due).answer = answer
  /\ \A do, val, sid :
       /\ Todo(do, val, sid).do = do
       /\ Todo(do, val, sid).val = val
       /\ Todo(do, val, sid).sid = sid
BY DEF Idle, Waiting, At, NothingTodo, Todo, Publication

LEMMA PartsTyped ==
  /\ \A pc \in {"cache", "lookup", "version", "unknown", "failed"}, t \in Token,
        from \in Nat, answer \in Nat, due \in BOOLEAN :
       At(pc, t, from, answer, due) \in Waiting
  /\ \A do \in {"reload", "user", "sid"}, val \in Nat, sid \in Session \cup {None} :
       Todo(do, val, sid) \in Publication
BY DEF Waiting, At, Todo, Publication

LEMMA Fields ==
  ASSUME IInv
  PROVE  /\ \A r \in Request :
              /\ req[r].pc \in {"idle", "cache", "lookup", "version", "unknown", "failed"}
              /\ req[r].pc # "idle" => req[r].tok \in Token /\ Minted(req[r].tok)
              /\ req[r].since \in Nat /\ req[r].answer \in Nat /\ req[r].due \in BOOLEAN
         /\ \A p \in Publisher : pub[p].val \in Nat
         /\ keyUser.val \in Nat /\ keyUser.until \in Nat
         /\ cache.until \in Nat /\ (cache.val # None => cache.val \in Nat)
         /\ now \in Nat /\ tv \in Nat /\ tv \in Version /\ tv <= MaxVersion
         /\ \A v \in Version : v \in Nat /\ bumpedAt[v] \in Nat
         /\ \A t \in Token : Minted(t) => token[t].tv \in Nat /\ token[t].sid \in Session
<1>1. \A r \in Request : req[r] \in Waiting /\ RequestOK(r)
  BY DEF IInv, TypeOK, RequestsOK
<1>2. \A p \in Publisher : pub[p] \in Publication
  BY DEF IInv, TypeOK
<1>3. \A t \in Token : Minted(t) => token[t] \in TokenRecord
  BY DEF IInv, TypeOK, Minted
<1>4. /\ \A r \in Request :
           /\ req[r].pc \in {"idle", "cache", "lookup", "version", "unknown", "failed"}
           /\ req[r].since \in Nat /\ req[r].answer \in Nat /\ req[r].due \in BOOLEAN
      /\ \A p \in Publisher : pub[p].val \in Nat
      /\ \A t \in Token : Minted(t) => token[t].tv \in Nat /\ token[t].sid \in Session
  BY <1>1, <1>2, <1>3 DEF Waiting, Publication, TokenRecord
<1>5. /\ keyUser.val \in Nat /\ keyUser.until \in Nat
      /\ cache.until \in Nat /\ (cache.val # None => cache.val \in Nat)
      /\ now \in Nat /\ tv \in Nat /\ tv \in Version /\ tv <= MaxVersion
      /\ \A v \in Version : v \in Nat /\ bumpedAt[v] \in Nat
  BY Numbers DEF IInv, TypeOK, Version
<1>. QED
  BY <1>1, <1>4, <1>5 DEF RequestOK

LEMMA InitIInv == Init => IInv
<1> SUFFICES ASSUME Init PROVE IInv
  OBVIOUS
<1>1. TypeOK
  <2>1. /\ now \in Nat /\ lag \in 0 .. Skew /\ tv \in Version /\ exists \in BOOLEAN
        /\ failedAt \in Nat /\ disturbed \in BOOLEAN /\ last \in Decision \cup {None}
    <3>1. 0 \in Version
      BY Numbers DEF Version
    <3>. QED
      BY <3>1 DEF Init
  <2>2. /\ bumpedAt \in [Version -> Nat]
        /\ endedAt \in [Session -> Nat \cup {None}]
        /\ token \in [Token -> TokenRecord \cup {None}]
        /\ keyUser \in [val: Nat, until: Nat] /\ keySid \in [Session -> Nat]
        /\ cache \in [val: Nat \cup {None}, until: Nat]
    BY DEF Init
  <2>3. pub \in [Publisher -> Publication] /\ req \in [Request -> Waiting]
    BY Parts DEF Init
  <2>. QED
    BY <2>1, <2>2, <2>3 DEF TypeOK
<1>2. RequestsOK
  BY Parts DEF Init, RequestsOK, RequestOK, Looking
<1>3. KeysOK
  BY Parts DEF Init, KeysOK
<1>. QED
  BY <1>1, <1>2, <1>3 DEF Init, IInv, BumpsOK, CacheOK, RefusesOnlyRevoked, AcceptedIsFresh

(* last is empty after every step that decides nothing. *)
LEMMA NoDecision == last = None => RefusesOnlyRevoked /\ AcceptedIsFresh
BY DEF RefusesOnlyRevoked, AcceptedIsFresh

-----------------------------------------------------------------------------
(* One lemma per action. *)
LEMMA MintStep ==
  ASSUME IInv, NEW t \in Token, NEW s \in Session, Mint(t, s)
  PROVE  IInv'
<1>1. TypeOK'
  <2>1. [tv |-> tv, sid |-> s, exp |-> now + Life] \in TokenRecord
    BY Numbers, Fields DEF TokenRecord
  <2>. QED
    BY <2>1 DEF Mint, redis, IInv, TypeOK
<1>2. BumpsOK'
  BY DEF Mint, identity, redis, IInv, BumpsOK
<1>3. KeysOK'
  BY DEF Mint, identity, redis, IInv, KeysOK
<1>4. CacheOK'
  BY DEF Mint, identity, redis, IInv, CacheOK
<1>5. RequestsOK'
  BY DEF Mint, identity, redis, IInv, RequestsOK, RequestOK, Looking, Minted
<1>6. RefusesOnlyRevoked' /\ AcceptedIsFresh'
  BY NoDecision DEF Mint, RefusesOnlyRevoked, AcceptedIsFresh
<1>. QED
  BY <1>1, <1>2, <1>3, <1>4, <1>5, <1>6 DEF IInv

LEMMA BumpStep ==
  ASSUME IInv, NEW p \in Publisher, Bump(p)
  PROVE  IInv'
<1>1. TypeOK'
  <2>1. Todo("reload", 0, None) \in Publication
    BY PartsTyped
  <2>2. tv + 1 \in Version
    BY Numbers, Fields DEF Bump, Version
  <2>. QED
    BY Numbers, <2>1, <2>2 DEF Bump, redis, IInv, TypeOK
<1>2. BumpsOK'
  BY Numbers, Fields DEF Bump, IInv, TypeOK, BumpsOK, Version
<1>3. KeysOK'
  BY Fields, Parts DEF Bump, redis, IInv, TypeOK, KeysOK
<1>4. CacheOK'
  <2> SUFFICES ASSUME cache.val # None, cache.val \in Nat
               PROVE  /\ cache.val <= tv + 1
                      /\ cache.until <= now + TTL
                      /\ cache.val < tv + 1
                           => cache.until <= bumpedAt'[cache.val + 1] + Latency + TTL
    BY Fields DEF Bump, CacheOK
  <2>1. /\ cache.val <= tv /\ cache.until <= now + TTL
        /\ cache.val < tv => cache.until <= bumpedAt[cache.val + 1] + Latency + TTL
    BY DEF IInv, CacheOK
  <2>2. bumpedAt'[tv + 1] = now /\ \A v \in 0 .. tv : bumpedAt'[v] = bumpedAt[v]
    BY Fields, Numbers DEF Bump, IInv, TypeOK, Version
  <2>3. CASE cache.val = tv
    BY <2>1, <2>2, <2>3, Fields, Numbers
  <2>4. CASE cache.val < tv
    BY <2>1, <2>2, <2>4, Fields, Numbers
  <2>. QED
    BY <2>1, <2>3, <2>4, Fields
<1>5. RequestsOK'
  <2> SUFFICES ASSUME NEW r \in Request PROVE RequestOK(r)'
    BY DEF RequestsOK
  <2>1. bumpedAt'[tv + 1] = now /\ \A v \in 0 .. tv : bumpedAt'[v] = bumpedAt[v]
    BY Fields, Numbers DEF Bump, IInv, TypeOK, Version
  <2>2. RequestOK(r)
    BY DEF IInv, RequestsOK
  <2>3. ASSUME req[r].pc = "version", req[r].answer < tv + 1
        PROVE  req[r].since <= bumpedAt'[req[r].answer + 1]
    <3>1. CASE req[r].answer = tv
      BY <2>1, <2>2, <2>3, <3>1, Fields DEF RequestOK, Looking
    <3>2. CASE req[r].answer < tv
      BY <2>1, <2>2, <2>3, <3>2, Fields DEF RequestOK
    <3>. QED
      BY <2>3, <3>1, <3>2, Fields
  <2>. QED
    BY <2>2, <2>3, Fields DEF Bump, RequestOK, Looking, Minted
<1>6. RefusesOnlyRevoked' /\ AcceptedIsFresh'
  BY NoDecision DEF Bump, RefusesOnlyRevoked, AcceptedIsFresh
<1>. QED
  BY <1>1, <1>2, <1>3, <1>4, <1>5, <1>6 DEF IInv

LEMMA ReloadStep ==
  ASSUME IInv, NEW p \in Publisher, Reload(p)
  PROVE  IInv'
<1>1. TypeOK'
  <2>1. Todo("user", tv, None) \in Publication
    BY PartsTyped, Fields
  <2>. QED
    BY <2>1 DEF Reload, identity, redis, IInv, TypeOK
<1>2. BumpsOK'
  BY DEF Reload, identity, redis, IInv, BumpsOK
<1>3. KeysOK'
  BY Parts, Fields DEF Reload, identity, redis, IInv, TypeOK, KeysOK
<1>4. CacheOK'
  BY DEF Reload, identity, redis, IInv, CacheOK
<1>5. RequestsOK'
  BY DEF Reload, identity, redis, IInv, RequestsOK, RequestOK, Looking, Minted
<1>6. RefusesOnlyRevoked' /\ AcceptedIsFresh'
  BY NoDecision DEF Reload, RefusesOnlyRevoked, AcceptedIsFresh
<1>. QED
  BY <1>1, <1>2, <1>3, <1>4, <1>5, <1>6 DEF IInv

LEMMA EndSessionStep ==
  ASSUME IInv, NEW p \in Publisher, NEW s \in Session, EndSession(p, s)
  PROVE  IInv'
<1>1. TypeOK'
  <2>1. Todo("sid", 0, s) \in Publication
    BY PartsTyped
  <2>. QED
    BY <2>1 DEF EndSession, redis, IInv, TypeOK
<1>2. BumpsOK'
  BY DEF EndSession, identity, redis, IInv, BumpsOK
<1>3. KeysOK'
  BY Parts, Fields, Numbers DEF EndSession, redis, IInv, TypeOK, KeysOK
<1>4. CacheOK'
  BY DEF EndSession, identity, redis, IInv, CacheOK
<1>5. RequestsOK'
  BY DEF EndSession, identity, redis, IInv, RequestsOK, RequestOK, Looking, Minted
<1>6. RefusesOnlyRevoked' /\ AcceptedIsFresh'
  BY NoDecision DEF EndSession, RefusesOnlyRevoked, AcceptedIsFresh
<1>. QED
  BY <1>1, <1>2, <1>3, <1>4, <1>5, <1>6 DEF IInv

LEMMA DeleteUserStep ==
  ASSUME IInv, DeleteUser
  PROVE  IInv'
<1>1. TypeOK'
  BY DEF DeleteUser, redis, IInv, TypeOK
<1>2. BumpsOK'
  BY DEF DeleteUser, identity, redis, IInv, BumpsOK
<1>3. KeysOK'
  BY DEF DeleteUser, identity, redis, IInv, KeysOK
<1>4. CacheOK'
  BY DEF DeleteUser, identity, redis, IInv, CacheOK
<1>5. RequestsOK'
  BY DEF DeleteUser, identity, redis, IInv, RequestsOK, RequestOK, Looking, Minted
<1>6. RefusesOnlyRevoked' /\ AcceptedIsFresh'
  BY NoDecision DEF DeleteUser, RefusesOnlyRevoked, AcceptedIsFresh
<1>. QED
  BY <1>1, <1>2, <1>3, <1>4, <1>5, <1>6 DEF IInv

LEMMA PublishStep ==
  ASSUME IInv, NEW p \in Publisher, Publish(p)
  PROVE  IInv'
<1>1. TypeOK'
  <2>1. pub' \in [Publisher -> Publication]
    BY Parts DEF Publish, IInv, TypeOK
  <2>2. CASE pub[p].do = "user"
    <3>1. keyUser' \in [val: Nat, until: Nat] /\ keySid' = keySid
      BY <2>2, Fields, Numbers DEF Publish
    <3>. QED
      BY <2>1, <3>1 DEF Publish, identity, IInv, TypeOK
  <2>3. CASE pub[p].do = "sid"
    <3>1. keySid' \in [Session -> Nat] /\ keyUser' = keyUser
      BY <2>3, Fields, Numbers DEF Publish, IInv, TypeOK, KeysOK
    <3>. QED
      BY <2>1, <3>1 DEF Publish, identity, IInv, TypeOK
  <2>. QED
    BY <2>2, <2>3 DEF Publish
<1>2. BumpsOK'
  BY DEF Publish, identity, redis, IInv, BumpsOK
<1>3. KeysOK'
  <2>1. \A q \in Publisher : pub'[q].val <= tv
                            /\ (pub'[q].do = "sid" => pub'[q].sid \in Session
                                                      /\ endedAt[pub'[q].sid] # None)
    BY Parts, Fields DEF Publish, IInv, TypeOK, KeysOK
  <2>2. CASE pub[p].do = "user"
    BY <2>1, <2>2 DEF Publish, identity, IInv, TypeOK, KeysOK
  <2>3. CASE pub[p].do = "sid"
    BY <2>1, <2>3 DEF Publish, identity, IInv, TypeOK, KeysOK
  <2>. QED
    BY <2>2, <2>3 DEF Publish
<1>4. CacheOK'
  BY DEF Publish, identity, redis, IInv, CacheOK
<1>5. RequestsOK'
  BY DEF Publish, identity, redis, IInv, RequestsOK, RequestOK, Looking, Minted
<1>6. RefusesOnlyRevoked' /\ AcceptedIsFresh'
  BY NoDecision DEF Publish, RefusesOnlyRevoked, AcceptedIsFresh
<1>. QED
  BY <1>1, <1>2, <1>3, <1>4, <1>5, <1>6 DEF IInv

LEMMA PublishLostStep ==
  ASSUME IInv, NEW p \in Publisher, PublishLost(p) \/ ReloadFails(p)
  PROVE  IInv'
<1>1. TypeOK'
  <2>1. CASE PublishLost(p)
    BY <2>1, Parts DEF PublishLost, identity, redis, IInv, TypeOK
  <2>2. CASE ReloadFails(p)
    BY <2>2, Parts DEF ReloadFails, identity, redis, IInv, TypeOK
  <2>. QED
    BY <2>1, <2>2
<1>2. BumpsOK'
  BY DEF PublishLost, ReloadFails, identity, redis, IInv, BumpsOK
<1>3. KeysOK'
  BY Parts, Fields DEF PublishLost, ReloadFails, identity, redis, IInv, TypeOK, KeysOK
<1>4. CacheOK'
  BY DEF PublishLost, ReloadFails, identity, redis, IInv, CacheOK
<1>5. RequestsOK'
  BY DEF PublishLost, ReloadFails, identity, redis, IInv, RequestsOK, RequestOK, Looking, Minted
<1>6. RefusesOnlyRevoked' /\ AcceptedIsFresh'
  BY NoDecision DEF PublishLost, ReloadFails, RefusesOnlyRevoked, AcceptedIsFresh
<1>. QED
  BY <1>1, <1>2, <1>3, <1>4, <1>5, <1>6 DEF IInv

LEMMA RedisSaysRevokedStep ==
  ASSUME IInv, NEW r \in Request, NEW t \in Token, RedisSaysRevoked(r, t)
  PROVE  IInv'
<1>1. TypeOK'
  <2>1. last' \in Decision
    BY DEF RedisSaysRevoked, Decision
  <2>. QED
    BY <2>1 DEF RedisSaysRevoked, identity, redis, IInv, TypeOK
<1>2. BumpsOK'
  BY DEF RedisSaysRevoked, identity, redis, IInv, BumpsOK
<1>3. KeysOK'
  BY DEF RedisSaysRevoked, identity, redis, IInv, KeysOK
<1>4. CacheOK'
  BY DEF RedisSaysRevoked, identity, redis, IInv, CacheOK
<1>5. RequestsOK'
  BY DEF RedisSaysRevoked, identity, redis, IInv, RequestsOK, RequestOK, Looking, Minted
<1>6. RefusesOnlyRevoked' /\ AcceptedIsFresh'
  <2>1. Dead(t)
    BY Fields, Numbers
    DEF RedisSaysRevoked, Verifies, CoveredBySid, CoveredByUser, Dead, Outdated, Ended,
        IInv, TypeOK, KeysOK
  <2>2. last'.tok = t /\ ~last'.ok /\ last'.by = "redis"
    BY DEF RedisSaysRevoked
  <2>. QED
    BY <2>1, <2>2
    DEF RedisSaysRevoked, identity, RefusesOnlyRevoked, AcceptedIsFresh, Dead, Minted,
        Outdated, Ended
<1>. QED
  BY <1>1, <1>2, <1>3, <1>4, <1>5, <1>6 DEF IInv

LEMMA RedisSaysNothingStep ==
  ASSUME IInv, NEW r \in Request, NEW t \in Token, RedisSaysNothing(r, t)
  PROVE  IInv'
<1>1. TypeOK'
  <2>1. (Dead(t) /\ Published) \in BOOLEAN
    OBVIOUS
  <2>2. At("cache", t, 0, 0, Dead(t) /\ Published) \in Waiting
    BY <2>1, PartsTyped
  <2>. QED
    BY <2>2 DEF RedisSaysNothing, identity, redis, IInv, TypeOK
<1>2. BumpsOK'
  BY DEF RedisSaysNothing, identity, redis, IInv, BumpsOK
<1>3. KeysOK'
  BY DEF RedisSaysNothing, identity, redis, IInv, KeysOK
<1>4. CacheOK'
  BY DEF RedisSaysNothing, identity, redis, IInv, CacheOK
<1>5. RequestsOK'
  <2>1. req'[r] = At("cache", t, 0, 0, Dead(t) /\ Published)
    BY DEF RedisSaysNothing, IInv, TypeOK
  <2>2. RequestOK(r)'
    BY <2>1, Parts, Fields, Numbers
    DEF RedisSaysNothing, identity, IInv, RequestsOK, RequestOK, Looking, Minted, Verifies
  <2>3. \A x \in Request \ {r} : req'[x] = req[x] /\ RequestOK(x)
    BY DEF RedisSaysNothing, IInv, TypeOK, RequestsOK
  <2>4. \A x \in Request \ {r} : RequestOK(x)'
    BY <2>3 DEF RedisSaysNothing, identity, RequestOK, Looking, Minted
  <2>. QED
    BY <2>2, <2>4 DEF RequestsOK
<1>6. RefusesOnlyRevoked' /\ AcceptedIsFresh'
  BY NoDecision DEF RedisSaysNothing, RefusesOnlyRevoked, AcceptedIsFresh
<1>. QED
  BY <1>1, <1>2, <1>3, <1>4, <1>5, <1>6 DEF IInv

LEMMA CacheMissStep ==
  ASSUME IInv, NEW r \in Request, CacheMiss(r)
  PROVE  IInv'
<1>1. TypeOK'
  <2>1. At("lookup", req[r].tok, now, 0, req[r].due) \in Waiting
    BY Fields, PartsTyped DEF CacheMiss
  <2>. QED
    BY <2>1 DEF CacheMiss, identity, redis, IInv, TypeOK
<1>2. BumpsOK'
  BY DEF CacheMiss, identity, redis, IInv, BumpsOK
<1>3. KeysOK'
  BY DEF CacheMiss, identity, redis, IInv, KeysOK
<1>4. CacheOK'
  BY DEF CacheMiss, identity, redis, IInv, CacheOK
<1>5. RequestsOK'
  <2>1. req'[r] = At("lookup", req[r].tok, now, 0, req[r].due)
    BY DEF CacheMiss, IInv, TypeOK
  <2>2. RequestOK(r)'
    BY <2>1, Parts, Fields, Numbers DEF CacheMiss, identity, IInv, RequestsOK, RequestOK, Looking, Minted, Verifies
  <2>3. \A x \in Request \ {r} : req'[x] = req[x] /\ RequestOK(x)
    BY DEF CacheMiss, IInv, TypeOK, RequestsOK
  <2>4. \A x \in Request \ {r} : RequestOK(x)'
    BY <2>3 DEF CacheMiss, identity, RequestOK, Looking, Minted
  <2>. QED
    BY <2>2, <2>4 DEF RequestsOK
<1>6. RefusesOnlyRevoked' /\ AcceptedIsFresh'
  BY NoDecision DEF CacheMiss, RefusesOnlyRevoked, AcceptedIsFresh
<1>. QED
  BY <1>1, <1>2, <1>3, <1>4, <1>5, <1>6 DEF IInv

LEMMA AnswerStep ==
  ASSUME IInv, NEW r \in Request, Answer(r)
  PROVE  IInv'
<1>1. TypeOK'
  <2>1. At(IF exists THEN "version" ELSE "unknown", req[r].tok, req[r].since, tv, req[r].due) \in Waiting
    BY Fields, PartsTyped DEF Answer
  <2>. QED
    BY <2>1 DEF Answer, identity, redis, IInv, TypeOK
<1>2. BumpsOK'
  BY DEF Answer, identity, redis, IInv, BumpsOK
<1>3. KeysOK'
  BY DEF Answer, identity, redis, IInv, KeysOK
<1>4. CacheOK'
  BY DEF Answer, identity, redis, IInv, CacheOK
<1>5. RequestsOK'
  <2>1. req'[r] = At(IF exists THEN "version" ELSE "unknown", req[r].tok, req[r].since, tv, req[r].due)
    BY DEF Answer, IInv, TypeOK
  <2>2. RequestOK(r)'
    BY <2>1, Parts, Fields, Numbers DEF Answer, identity, IInv, RequestsOK, RequestOK, Looking, Minted, Verifies
  <2>3. \A x \in Request \ {r} : req'[x] = req[x] /\ RequestOK(x)
    BY DEF Answer, IInv, TypeOK, RequestsOK
  <2>4. \A x \in Request \ {r} : RequestOK(x)'
    BY <2>3 DEF Answer, identity, RequestOK, Looking, Minted
  <2>. QED
    BY <2>2, <2>4 DEF RequestsOK
<1>6. RefusesOnlyRevoked' /\ AcceptedIsFresh'
  BY NoDecision DEF Answer, RefusesOnlyRevoked, AcceptedIsFresh
<1>. QED
  BY <1>1, <1>2, <1>3, <1>4, <1>5, <1>6 DEF IInv

LEMMA UnansweredStep ==
  ASSUME IInv, NEW r \in Request, Unanswered(r)
  PROVE  IInv'
<1>1. TypeOK'
  <2>1. At("failed", req[r].tok, req[r].since, 0, req[r].due) \in Waiting
    BY Fields, PartsTyped DEF Unanswered
  <2>. QED
    BY <2>1 DEF Unanswered, identity, redis, IInv, TypeOK
<1>2. BumpsOK'
  BY DEF Unanswered, identity, redis, IInv, BumpsOK
<1>3. KeysOK'
  BY DEF Unanswered, identity, redis, IInv, KeysOK
<1>4. CacheOK'
  BY DEF Unanswered, identity, redis, IInv, CacheOK
<1>5. RequestsOK'
  <2>1. req'[r] = At("failed", req[r].tok, req[r].since, 0, req[r].due)
    BY DEF Unanswered, IInv, TypeOK
  <2>2. RequestOK(r)'
    BY <2>1, Parts, Fields, Numbers DEF Unanswered, identity, IInv, RequestsOK, RequestOK, Looking, Minted, Verifies
  <2>3. \A x \in Request \ {r} : req'[x] = req[x] /\ RequestOK(x)
    BY DEF Unanswered, IInv, TypeOK, RequestsOK
  <2>4. \A x \in Request \ {r} : RequestOK(x)'
    BY <2>3 DEF Unanswered, identity, RequestOK, Looking, Minted
  <2>. QED
    BY <2>2, <2>4 DEF RequestsOK
<1>6. RefusesOnlyRevoked' /\ AcceptedIsFresh'
  BY NoDecision DEF Unanswered, RefusesOnlyRevoked, AcceptedIsFresh
<1>. QED
  BY <1>1, <1>2, <1>3, <1>4, <1>5, <1>6 DEF IInv

LEMMA CacheHitStep ==
  ASSUME IInv, NEW r \in Request, CacheHit(r)
  PROVE  IInv'
<1>1. TypeOK'
  <2>1. req[r].tok \in Token /\ req[r].due \in BOOLEAN
    BY Fields DEF CacheHit
  <2>2. last' \in Decision
    <3>1. \A ok \in BOOLEAN, by \in {"cache", "unavailable"} :
            [tok |-> req[r].tok, ok |-> ok, by |-> by, due |-> req[r].due] \in Decision
      BY <2>1 DEF Decision
    <3>2. \E ok \in BOOLEAN, by \in {"cache", "unavailable"} :
            last' = [tok |-> req[r].tok, ok |-> ok, by |-> by, due |-> req[r].due]
      <4>1. AtLeast(req[r].tok, cache.val) \in BOOLEAN
        BY DEF AtLeast
      <4>. QED
        BY <4>1, Zenon DEF CacheHit, Decide
    <3>. QED
      BY <3>1, <3>2
  <2>. QED
    BY <2>2, Parts DEF CacheHit, Decide, identity, redis, IInv, TypeOK
<1>2. BumpsOK'
  BY DEF CacheHit, identity, redis, IInv, BumpsOK
<1>3. KeysOK'
  BY DEF CacheHit, identity, redis, IInv, KeysOK
<1>4. CacheOK'
  BY DEF CacheHit, identity, redis, IInv, CacheOK
<1>5. RequestsOK'
  <2>1. req'[r] = Idle
    BY DEF CacheHit, Decide, IInv, TypeOK
  <2>2. RequestOK(r)'
    BY <2>1, Parts, Fields, Numbers DEF RequestOK, Looking
  <2>3. \A x \in Request \ {r} : req'[x] = req[x] /\ RequestOK(x)
    BY DEF CacheHit, Decide, IInv, TypeOK, RequestsOK
  <2>4. \A x \in Request \ {r} : RequestOK(x)'
    BY <2>3 DEF CacheHit, identity, RequestOK, Looking, Minted
  <2>. QED
    BY <2>2, <2>4 DEF RequestsOK
<1>6. RefusesOnlyRevoked' /\ AcceptedIsFresh'
  <2>. DEFINE t == req[r].tok
  <2>1. t \in Token /\ Minted(t) /\ token[t].tv \in Nat
    BY Fields DEF CacheHit
  <2>2. CASE cache.val = None
    BY <2>2 DEF CacheHit, Decide, RefusesOnlyRevoked, AcceptedIsFresh
  <2>3. CASE cache.val # None /\ token[t].tv >= cache.val
    <3>1. last'.tok = t /\ last'.ok
      <4>1. last' = [tok |-> t, ok |-> TRUE, by |-> "cache", due |-> req[r].due]
        BY <2>3 DEF CacheHit, Decide, AtLeast
      <4>. QED
        BY <4>1
    <3>2. ASSUME Outdated(t)
          PROVE  now < bumpedAt[token[t].tv + 1] + TTL + Latency
      <4>1. cache.until <= bumpedAt[cache.val + 1] + Latency + TTL
        BY <2>1, <2>3, <3>2, Fields DEF Outdated, IInv, CacheOK
      <4>2. bumpedAt[cache.val + 1] <= bumpedAt[token[t].tv + 1]
        BY <2>1, <2>3, <3>2, Fields DEF Outdated, IInv, BumpsOK
      <4>3. /\ bumpedAt[cache.val + 1] \in Nat /\ bumpedAt[token[t].tv + 1] \in Nat
        BY <2>1, <2>3, <3>2, Fields, Numbers DEF Outdated, Version
      <4>4. now < cache.until
        BY DEF CacheHit
      <4>. QED
        BY <4>1, <4>2, <4>3, <4>4, Fields, Numbers
    <3>. QED
      BY <3>1, <3>2 DEF CacheHit, identity, RefusesOnlyRevoked, AcceptedIsFresh, Outdated
  <2>4. CASE cache.val # None /\ ~(token[t].tv >= cache.val)
    <3>1. last'.tok = t /\ ~last'.ok
      <4>1. last' = [tok |-> t, ok |-> FALSE, by |-> "cache", due |-> req[r].due]
        <5>1. AtLeast(t, cache.val) = FALSE
          BY <2>4 DEF AtLeast
        <5>. QED
          BY <2>4, <5>1, Zenon DEF CacheHit, Decide
      <4>. QED
        BY <4>1
    <3>2. Dead(t)
      BY <2>1, <2>4, Fields DEF IInv, CacheOK, Dead, Outdated
    <3>. QED
      BY <3>1, <3>2
      DEF CacheHit, identity, RefusesOnlyRevoked, AcceptedIsFresh, Dead, Minted, Outdated, Ended
  <2>. QED
    BY <2>2, <2>3, <2>4
<1>. QED
  BY <1>1, <1>2, <1>3, <1>4, <1>5, <1>6 DEF IInv

LEMMA StoreVersionStep ==
  ASSUME IInv, NEW r \in Request, StoreVersion(r)
  PROVE  IInv'
<1>1. TypeOK'
  <2>1. AtLeast(req[r].tok, req[r].answer) \in BOOLEAN
    BY DEF AtLeast
  <2>2. last' \in Decision
    BY <2>1, Fields DEF StoreVersion, Decide, Decision
  <2>3. cache' \in [val: Nat \cup {None}, until: Nat]
    BY Fields, Numbers DEF StoreVersion
  <2>. QED
    BY <2>2, <2>3, Parts DEF StoreVersion, Decide, identity, redis, IInv, TypeOK
<1>2. BumpsOK'
  BY DEF StoreVersion, identity, redis, IInv, BumpsOK
<1>3. KeysOK'
  BY DEF StoreVersion, identity, redis, IInv, KeysOK
<1>4. CacheOK'
  <2>1. /\ req[r].answer <= tv
        /\ now <= req[r].since + Latency
        /\ req[r].answer < tv => req[r].since <= bumpedAt[req[r].answer + 1]
    BY DEF StoreVersion, IInv, RequestsOK, RequestOK, Looking
  <2>2. req[r].answer < tv => bumpedAt[req[r].answer + 1] \in Nat
    BY Fields, Numbers DEF Version, StoreVersion
  <2>3. cache'.val = req[r].answer /\ cache'.until = now + TTL
    BY DEF StoreVersion
  <2>. QED
    BY <2>1, <2>2, <2>3, Fields, Numbers DEF StoreVersion, identity, CacheOK
<1>5. RequestsOK'
  <2>1. req'[r] = Idle
    BY DEF StoreVersion, Decide, IInv, TypeOK
  <2>2. RequestOK(r)'
    BY <2>1, Parts, Fields, Numbers DEF RequestOK, Looking
  <2>3. \A x \in Request \ {r} : req'[x] = req[x] /\ RequestOK(x)
    BY DEF StoreVersion, Decide, IInv, TypeOK, RequestsOK
  <2>4. \A x \in Request \ {r} : RequestOK(x)'
    BY <2>3 DEF StoreVersion, identity, RequestOK, Looking, Minted
  <2>. QED
    BY <2>2, <2>4 DEF RequestsOK
<1>6. RefusesOnlyRevoked' /\ AcceptedIsFresh'
  <2>. DEFINE t == req[r].tok
              a == req[r].answer
  <2>1. t \in Token /\ Minted(t) /\ token[t].tv \in Nat /\ a \in Nat
    BY Fields DEF StoreVersion
  <2>2. /\ a <= tv
        /\ now <= req[r].since + Latency
        /\ a < tv => req[r].since <= bumpedAt[a + 1]
    BY DEF StoreVersion, IInv, RequestsOK, RequestOK, Looking
  <2>3. CASE token[t].tv >= a
    <3>1. last'.tok = t /\ last'.ok
      BY <2>3 DEF StoreVersion, Decide, AtLeast
    <3>2. ASSUME Outdated(t)
          PROVE  now < bumpedAt[token[t].tv + 1] + TTL + Latency
      <4>1. bumpedAt[a + 1] <= bumpedAt[token[t].tv + 1]
        BY <2>1, <2>3, <3>2, Fields DEF Outdated, IInv, BumpsOK
      <4>2. bumpedAt[a + 1] \in Nat /\ bumpedAt[token[t].tv + 1] \in Nat /\ a < tv
        BY <2>1, <2>2, <2>3, <3>2, Fields, Numbers DEF Outdated, Version
      <4>. QED
        BY <2>2, <4>1, <4>2, Fields, Numbers
    <3>. QED
      BY <3>1, <3>2 DEF StoreVersion, identity, RefusesOnlyRevoked, AcceptedIsFresh, Outdated
  <2>4. CASE ~(token[t].tv >= a)
    <3>1. last'.tok = t /\ ~last'.ok
      BY <2>4 DEF StoreVersion, Decide, AtLeast
    <3>2. Dead(t)
      BY <2>1, <2>2, <2>4, Fields DEF Dead, Outdated
    <3>. QED
      BY <3>1, <3>2
      DEF StoreVersion, identity, RefusesOnlyRevoked, AcceptedIsFresh, Dead, Minted, Outdated,
          Ended
  <2>. QED
    BY <2>3, <2>4
<1>. QED
  BY <1>1, <1>2, <1>3, <1>4, <1>5, <1>6 DEF IInv

LEMMA RefuseUnknownStep ==
  ASSUME IInv, NEW r \in Request, RefuseUnknown(r)
  PROVE  IInv'
<1>1. TypeOK'
  <2>1. last' \in Decision
    BY Fields DEF RefuseUnknown, Decide, Decision
  <2>. QED
    BY <2>1, Parts DEF RefuseUnknown, Decide, identity, redis, IInv, TypeOK
<1>2. BumpsOK'
  BY DEF RefuseUnknown, identity, redis, IInv, BumpsOK
<1>3. KeysOK'
  BY DEF RefuseUnknown, identity, redis, IInv, KeysOK
<1>4. CacheOK'
  BY DEF RefuseUnknown, identity, redis, IInv, CacheOK
<1>5. RequestsOK'
  <2>1. req'[r] = Idle
    BY DEF RefuseUnknown, Decide, IInv, TypeOK
  <2>2. RequestOK(r)'
    BY <2>1, Parts, Fields, Numbers DEF RequestOK, Looking
  <2>3. \A x \in Request \ {r} : req'[x] = req[x] /\ RequestOK(x)
    BY DEF RefuseUnknown, Decide, IInv, TypeOK, RequestsOK
  <2>4. \A x \in Request \ {r} : RequestOK(x)'
    BY <2>3 DEF RefuseUnknown, identity, RequestOK, Looking, Minted
  <2>. QED
    BY <2>2, <2>4 DEF RequestsOK
<1>6. RefusesOnlyRevoked' /\ AcceptedIsFresh'
  <2>1. ~exists
    BY DEF RefuseUnknown, IInv, RequestsOK, RequestOK
  <2>. QED
    BY <2>1 DEF RefuseUnknown, Decide, identity, RefusesOnlyRevoked, AcceptedIsFresh
<1>. QED
  BY <1>1, <1>2, <1>3, <1>4, <1>5, <1>6 DEF IInv

LEMMA StoreFailureStep ==
  ASSUME IInv, NEW r \in Request, StoreFailure(r)
  PROVE  IInv'
<1>1. TypeOK'
  <2>1. last' \in Decision
    BY Fields DEF StoreFailure, Decide, Decision
  <2>2. cache' \in [val: Nat \cup {None}, until: Nat]
    BY Fields, Numbers DEF StoreFailure
  <2>. QED
    BY <2>1, <2>2, Parts DEF StoreFailure, Decide, identity, redis, IInv, TypeOK
<1>2. BumpsOK'
  BY DEF StoreFailure, identity, redis, IInv, BumpsOK
<1>3. KeysOK'
  BY DEF StoreFailure, identity, redis, IInv, KeysOK
<1>4. CacheOK'
  BY DEF StoreFailure, CacheOK
<1>5. RequestsOK'
  <2>1. req'[r] = Idle
    BY DEF StoreFailure, Decide, IInv, TypeOK
  <2>2. RequestOK(r)'
    BY <2>1, Parts, Fields, Numbers DEF RequestOK, Looking
  <2>3. \A x \in Request \ {r} : req'[x] = req[x] /\ RequestOK(x)
    BY DEF StoreFailure, Decide, IInv, TypeOK, RequestsOK
  <2>4. \A x \in Request \ {r} : RequestOK(x)'
    BY <2>3 DEF StoreFailure, identity, RequestOK, Looking, Minted
  <2>. QED
    BY <2>2, <2>4 DEF RequestsOK
<1>6. RefusesOnlyRevoked' /\ AcceptedIsFresh'
  BY DEF StoreFailure, Decide, RefusesOnlyRevoked, AcceptedIsFresh
<1>. QED
  BY <1>1, <1>2, <1>3, <1>4, <1>5, <1>6 DEF IInv

LEMMA TickStep ==
  ASSUME IInv, Tick
  PROVE  IInv'
<1>1. TypeOK'
  BY Fields DEF Tick, identity, redis, IInv, TypeOK
<1>2. BumpsOK'
  <2>1. now' = now + 1 /\ tv' = tv /\ bumpedAt' = bumpedAt
    BY DEF Tick, identity
  <2>2. ASSUME NEW v \in 1 .. tv
        PROVE  /\ bumpedAt[v] <= now + 1
               /\ \A u \in 1 .. v : bumpedAt[u] <= bumpedAt[v]
    <3>1. bumpedAt[v] \in Nat
      BY Fields, Numbers DEF Version
    <3>. QED
      BY <3>1, Fields DEF IInv, BumpsOK
  <2>. QED
    BY <2>1, <2>2 DEF BumpsOK
<1>3. KeysOK'
  BY DEF Tick, identity, redis, IInv, KeysOK
<1>4. CacheOK'
  BY Fields, Numbers DEF Tick, identity, IInv, CacheOK
<1>5. RequestsOK'
  BY Fields, Numbers DEF Tick, identity, IInv, RequestsOK, RequestOK, Looking, Minted
<1>6. RefusesOnlyRevoked' /\ AcceptedIsFresh'
  BY NoDecision DEF Tick, RefusesOnlyRevoked, AcceptedIsFresh
<1>. QED
  BY <1>1, <1>2, <1>3, <1>4, <1>5, <1>6 DEF IInv

-----------------------------------------------------------------------------
LEMMA StutterStep == IInv /\ UNCHANGED vars => IInv'
<1> SUFFICES ASSUME IInv, UNCHANGED vars PROVE IInv'
  OBVIOUS
<1>1. TypeOK'
  BY DEF vars, IInv, TypeOK
<1>2. BumpsOK' /\ KeysOK' /\ CacheOK'
  BY DEF vars, IInv, BumpsOK, KeysOK, CacheOK
<1>3. RequestsOK'
  BY DEF vars, IInv, RequestsOK, RequestOK, Looking, Minted
<1>4. RefusesOnlyRevoked' /\ AcceptedIsFresh'
  BY DEF vars, IInv, RefusesOnlyRevoked, AcceptedIsFresh, Dead, Minted, Outdated, Ended
<1>. QED
  BY <1>1, <1>2, <1>3, <1>4 DEF IInv

LEMMA NextIInv == IInv /\ [Next]_vars => IInv'
<1> SUFFICES ASSUME IInv, Next PROVE IInv'
  BY StutterStep
<1>1. CASE \E t \in Token, s \in Session : Mint(t, s)
  BY <1>1, MintStep
<1>2. ASSUME NEW p \in Publisher, Bump(p) \/ Reload(p) \/ Publish(p) \/ PublishLost(p) \/ ReloadFails(p)
      PROVE  IInv'
  BY <1>2, BumpStep, ReloadStep, PublishStep, PublishLostStep
<1>3. ASSUME NEW p \in Publisher, NEW s \in Session, EndSession(p, s)
      PROVE  IInv'
  BY <1>3, EndSessionStep
<1>4. CASE DeleteUser
  BY <1>4, DeleteUserStep
<1>5. ASSUME NEW r \in Request, NEW t \in Token,
             RedisSaysRevoked(r, t) \/ RedisSaysNothing(r, t)
      PROVE  IInv'
  BY <1>5, RedisSaysRevokedStep, RedisSaysNothingStep
<1>6. ASSUME NEW r \in Request, CacheHit(r) \/ CacheMiss(r) \/ Answer(r) \/ Unanswered(r)
      PROVE  IInv'
  BY <1>6, CacheHitStep, CacheMissStep, AnswerStep, UnansweredStep
<1>7. ASSUME NEW r \in Request, StoreVersion(r) \/ RefuseUnknown(r) \/ StoreFailure(r)
      PROVE  IInv'
  BY <1>7, StoreVersionStep, RefuseUnknownStep, StoreFailureStep
<1>8. CASE Tick
  BY <1>8, TickStep
<1>. QED
  BY <1>1, <1>2, <1>3, <1>4, <1>5, <1>6, <1>7, <1>8 DEF Next

LEMMA SpecIInv == Spec => []IInv
BY InitIInv, NextIInv, PTL DEF Spec

-----------------------------------------------------------------------------
(* The types are kept by every step. *)
THEOREM GateTypeCorrect == Spec => []TypeOK
<1>1. IInv => TypeOK
  BY DEF IInv
<1>. QED
  BY <1>1, SpecIInv, PTL

(* The gate never refuses a token identity has not revoked, whatever is    *)
(* lost, late or expired (RevocationChecker.check, PublishedRevocations).  *)
THEOREM NoFalseLogout == Spec => []RefusesOnlyRevoked
<1>1. IInv => RefusesOnlyRevoked
  BY DEF IInv
<1>. QED
  BY <1>1, SpecIInv, PTL

(* A token accepted on identity's word has been outdated for less than     *)
(* TTL + Latency, although _fetch stores answers in any order.             *)
THEOREM BoundedStaleness == Spec => []AcceptedIsFresh
<1>1. IInv => AcceptedIsFresh
  BY DEF IInv
<1>. QED
  BY <1>1, SpecIInv, PTL

-----------------------------------------------------------------------------
(* What is left of a failed lookup: the request that failed began before    *)
(* it, and the entry that says so ends a lookup and a back-off after it.    *)
FailuresOK ==
  /\ failedAt <= now
  /\ \A r \in Request : req[r].pc = "failed" => req[r].since <= failedAt
  /\ cache.val = None => cache.until <= failedAt + Latency + Backoff
  /\ UncheckedNeedsFailure

LEMMA InitFailures == Init => FailuresOK
BY Numbers, Parts DEF Init, FailuresOK, UncheckedNeedsFailure

(* Steps that leave cache and failures alone and decide nothing unchecked,  *)
(* one request apart, which does not become a failed one.                   *)
LEMMA QuietStep ==
  ASSUME IInv, FailuresOK, cache' = cache, failedAt' = failedAt, now' \in Nat, now' >= now,
         last' = None \/ last'.by # "unavailable",
         \A r \in Request : req'[r] = req[r] \/ req'[r].pc # "failed"
  PROVE  FailuresOK'
<1>1. failedAt \in Nat /\ now \in Nat /\ \A r \in Request : req[r].since \in Nat
  BY Fields DEF IInv, TypeOK
<1>2. failedAt' <= now'
  BY <1>1 DEF FailuresOK
<1>3. \A r \in Request : req'[r].pc = "failed" => req'[r].since <= failedAt'
  BY DEF FailuresOK
<1>4. cache'.val = None => cache'.until <= failedAt' + Latency + Backoff
  BY DEF FailuresOK
<1>5. UncheckedNeedsFailure'
  BY DEF UncheckedNeedsFailure
<1>. QED
  BY <1>2, <1>3, <1>4, <1>5 DEF FailuresOK

LEMMA FailuresTyped ==
  ASSUME IInv
  PROVE  /\ failedAt \in Nat /\ now \in Nat /\ cache.until \in Nat
         /\ Latency \in Nat /\ Backoff \in Nat
BY Numbers, Fields DEF IInv, TypeOK

LEMMA Becomes ==
  ASSUME req \in [Request -> Waiting], NEW r \in Request, NEW q, req' = [req EXCEPT ![r] = q],
         q.pc # "failed"
  PROVE  \A x \in Request : req'[x] = req[x] \/ req'[x].pc # "failed"
<1>1. \A x \in Request : req'[x] = IF x = r THEN q ELSE req[x]
  OBVIOUS
<1>. QED
  BY <1>1

LEMMA NextFailures ==
  ASSUME IInv, FailuresOK, [Next]_vars, Backoff > 0
  PROVE  FailuresOK'
<1>1. CASE \/ \E t \in Token, s \in Session : Mint(t, s)
           \/ \E p \in Publisher :
                \/ Bump(p) \/ Reload(p) \/ ReloadFails(p) \/ Publish(p) \/ PublishLost(p)
                \/ \E s \in Session : EndSession(p, s)
           \/ DeleteUser
           \/ Tick
  <2>1. UNCHANGED <<req, cache, failedAt>> /\ now' \in {now, now + 1} /\ last' = None
    BY <1>1 DEF Mint, Bump, Reload, ReloadFails, Publish, PublishLost, EndSession, DeleteUser, Tick, identity, redis
  <2>. QED
    BY <2>1, QuietStep, Fields
<1>2. ASSUME NEW r \in Request, NEW t \in Token, RedisSaysRevoked(r, t)
      PROVE  FailuresOK'
  <2>1. UNCHANGED <<now, req, cache, failedAt>> /\ last'.by = "redis"
    BY <1>2 DEF RedisSaysRevoked
  <2>. QED
    BY <2>1, QuietStep, Fields
<1>3. ASSUME NEW r \in Request, NEW t \in Token, RedisSaysNothing(r, t)
      PROVE  FailuresOK'
  <2>1. UNCHANGED <<now, cache, failedAt>> /\ last' = None
    BY <1>3 DEF RedisSaysNothing
  <2>2. req' = [req EXCEPT ![r] = At("cache", t, 0, 0, Dead(t) /\ Published)]
    BY <1>3 DEF RedisSaysNothing
  <2>3. \A x \in Request : req'[x] = req[x] \/ req'[x].pc # "failed"
    BY <2>2, Becomes, Parts DEF IInv, TypeOK
  <2>. QED
    BY <2>1, <2>3, QuietStep, Fields
<1>4. ASSUME NEW r \in Request, Unanswered(r)
      PROVE  FailuresOK'
  <2>1. /\ UNCHANGED <<now, cache>> /\ failedAt' = now /\ last' = None
        /\ req' = [req EXCEPT ![r] = At("failed", req[r].tok, req[r].since, 0, req[r].due)]
        /\ req[r].pc = "lookup"
    BY <1>4 DEF Unanswered
  <2>2. \A x \in Request : req'[x].pc = "failed" => req'[x].since <= now
    BY <2>1, Parts, Fields DEF IInv, TypeOK, RequestsOK, RequestOK, Looking
  <2>3. now' <= now /\ (cache'.val = None => cache'.until <= now + Latency + Backoff)
    BY <2>1, FailuresTyped DEF FailuresOK
  <2>. QED
    BY <2>1, <2>2, <2>3 DEF FailuresOK, UncheckedNeedsFailure
<1>5. ASSUME NEW r \in Request, CacheHit(r)
      PROVE  FailuresOK'
  <2>1. UNCHANGED <<now, cache, failedAt>> /\ now < cache.until /\ req' = [req EXCEPT ![r] = Idle]
    BY <1>5 DEF CacheHit, Decide
  <2>2. \A x \in Request : req'[x] = req[x] \/ req'[x].pc # "failed"
    BY <2>1, Becomes, Parts DEF IInv, TypeOK
  <2>3. CASE cache.val = None
    <3>1. now < failedAt + Latency + Backoff
      BY <2>1, <2>3, FailuresTyped DEF FailuresOK
    <3>. QED
      BY <2>1, <2>2, <3>1 DEF FailuresOK, UncheckedNeedsFailure
  <2>4. CASE cache.val # None
    <3>1. last'.by = "cache"
      BY <1>5, <2>4 DEF CacheHit, Decide
    <3>. QED
      BY <2>1, <2>2, <3>1, QuietStep, Fields
  <2>. QED
    BY <2>3, <2>4
<1>6. ASSUME NEW r \in Request, StoreVersion(r) \/ RefuseUnknown(r)
      PROVE  FailuresOK'
  <2>1. UNCHANGED <<now, failedAt>> /\ req' = [req EXCEPT ![r] = Idle] /\ last'.by = "identity"
    BY <1>6 DEF StoreVersion, RefuseUnknown, Decide
  <2>2. cache' = cache \/ cache'.val # None
    <3>1. CASE StoreVersion(r)
      <4>1. cache' = [val |-> req[r].answer, until |-> now + TTL] /\ req[r].answer \in Nat
        BY <3>1, Fields DEF StoreVersion
      <4>. QED
        BY <4>1, Numbers
    <3>2. CASE RefuseUnknown(r)
      BY <3>2 DEF RefuseUnknown
    <3>. QED
      BY <1>6, <3>1, <3>2
  <2>3. \A x \in Request : req'[x] = req[x] \/ req'[x].pc # "failed"
    BY <2>1, Becomes, Parts DEF IInv, TypeOK
  <2>. QED
    BY <2>1, <2>2, <2>3, Fields DEF FailuresOK, UncheckedNeedsFailure
<1>7. ASSUME NEW r \in Request, StoreFailure(r)
      PROVE  FailuresOK'
  <2>1. /\ UNCHANGED <<now, failedAt>> /\ req' = [req EXCEPT ![r] = Idle]
        /\ cache'.until = now + Backoff /\ req[r].pc = "failed"
    BY <1>7 DEF StoreFailure, Decide
  <2>2. now <= failedAt + Latency
    <3>1. now <= req[r].since + Latency /\ req[r].since <= failedAt /\ req[r].since \in Nat
      BY <2>1, Fields DEF IInv, RequestsOK, RequestOK, Looking, FailuresOK
    <3>. QED
      BY <3>1, FailuresTyped
  <2>3. \A x \in Request : req'[x] = req[x] \/ req'[x].pc # "failed"
    BY <2>1, Becomes, Parts DEF IInv, TypeOK
  <2>4. /\ cache'.until <= failedAt + Latency + Backoff
        /\ now < failedAt + Latency + Backoff
    BY <2>1, <2>2, FailuresTyped
  <2>. QED
    BY <2>1, <2>3, <2>4 DEF FailuresOK, UncheckedNeedsFailure
<1>8. CASE UNCHANGED vars
  BY <1>8 DEF vars, FailuresOK, UncheckedNeedsFailure
<1>9. ASSUME NEW r \in Request, CacheMiss(r) \/ Answer(r)
      PROVE  FailuresOK'
  <2>1. UNCHANGED <<now, cache, failedAt>> /\ last' = None
    BY <1>9 DEF CacheMiss, Answer
  <2>2. PICK pc \in {"lookup", "version", "unknown"}, from \in Nat, answer \in Nat :
          req' = [req EXCEPT ![r] = At(pc, req[r].tok, from, answer, req[r].due)]
    BY <1>9, Fields DEF CacheMiss, Answer
  <2>3. \A x \in Request : req'[x] = req[x] \/ req'[x].pc # "failed"
    BY <2>2, Becomes, Parts DEF IInv, TypeOK
  <2>. QED
    BY <2>1, <2>3, QuietStep, Fields
<1>10. CASE \E r \in Request :
             \/ \E t \in Token : RedisSaysRevoked(r, t) \/ RedisSaysNothing(r, t)
             \/ CacheHit(r) \/ CacheMiss(r)
             \/ Answer(r) \/ Unanswered(r)
             \/ StoreVersion(r) \/ RefuseUnknown(r) \/ StoreFailure(r)
  <2>1. PICK r \in Request :
             \/ \E t \in Token : RedisSaysRevoked(r, t) \/ RedisSaysNothing(r, t)
             \/ CacheHit(r) \/ CacheMiss(r)
             \/ Answer(r) \/ Unanswered(r)
             \/ StoreVersion(r) \/ RefuseUnknown(r) \/ StoreFailure(r)
    BY <1>10
  <2>2. CASE \E t \in Token : RedisSaysRevoked(r, t) \/ RedisSaysNothing(r, t)
    BY <2>2, <1>2, <1>3
  <2>3. CASE CacheHit(r) \/ StoreVersion(r) \/ RefuseUnknown(r) \/ StoreFailure(r)
    BY <2>3, <1>5, <1>6, <1>7
  <2>4. CASE Unanswered(r)
    BY <2>4, <1>4
  <2>5. CASE CacheMiss(r) \/ Answer(r)
    BY <2>5, <1>9
  <2>. QED
    BY <2>1, <2>2, <2>3, <2>4, <2>5
<1>. QED
  BY <1>1, <1>8, <1>10 DEF Next

(* A token is accepted unchecked only within a lookup and a back-off of a   *)
(* lookup that failed (RevocationChecker._unavailable), whatever answers    *)
(* come in between and are stored over it.                                  *)
THEOREM UncheckedOnlyAfterFailure ==
  ASSUME Backoff > 0
  PROVE  Spec => []UncheckedNeedsFailure
<1>1. IInv /\ FailuresOK /\ [Next]_vars => (IInv /\ FailuresOK)'
  BY NextIInv, NextFailures
<1>2. FailuresOK => UncheckedNeedsFailure
  BY DEF FailuresOK
<1>. QED
  BY InitIInv, InitFailures, <1>1, <1>2, PTL DEF Spec
-----------------------------------------------------------------------------
(* A token expires within its lifetime of when it was minted, and so of     *)
(* when its version was left behind or its session ended.                   *)
LifeOK(t) ==
  Minted(t) =>
    /\ token[t].tv <= tv
    /\ token[t].exp <= now + Life
    /\ Outdated(t) => token[t].exp <= bumpedAt[token[t].tv + 1] + Life
    /\ Ended(t) => token[t].exp <= endedAt[token[t].sid] + Life

TokensOK ==
  /\ \A t \in Token : LifeOK(t)
  /\ \A s \in Session : endedAt[s] # None => endedAt[s] <= now

(* A bump or the end of a session is under way, or its key is there and     *)
(* outlives every token it kills, skew included.                            *)
Underway == \E p \in Publisher : pub[p].do \in {"reload", "user"}

Ending(s) == \E p \in Publisher : pub[p].do = "sid" /\ pub[p].sid = s

UserKeyOK ==
  /\ \A p \in Publisher : pub[p].do = "user" => pub[p].val = tv
  /\ tv > 0 /\ ~Underway => keyUser.val = tv /\ keyUser.until >= bumpedAt[tv] + KeyLife

SidKeysOK ==
  \A s \in Session :
    endedAt[s] # None /\ ~Ending(s) => keySid[s] >= endedAt[s] + KeyLife

(* So a refusal that is due is Redis's: nobody goes on with a dead token.   *)
NobodyDue ==
  /\ \A r \in Request : ~req[r].due
  /\ PublishedDies

Calm == UserKeyOK /\ SidKeysOK /\ NobodyDue

PInv == TokensOK /\ (~disturbed => Calm)

LEMMA InitPInv == Init => PInv
<1> SUFFICES ASSUME Init PROVE PInv
  OBVIOUS
<1>1. TokensOK
  BY DEF Init, TokensOK, LifeOK, Minted
<1>2. UserKeyOK
  BY Parts DEF Init, UserKeyOK
<1>3. SidKeysOK
  BY DEF Init, SidKeysOK
<1>4. NobodyDue
  BY DEF Init, NobodyDue, PublishedDies, Idle, At
<1>. QED
  BY <1>1, <1>2, <1>3, <1>4 DEF PInv, Calm

(* Steps that leave identity and the clock alone.                           *)
LEMMA SameTokens ==
  ASSUME TokensOK, UNCHANGED <<now, identity>>
  PROVE  TokensOK'
BY DEF identity, TokensOK, LifeOK, Minted, Outdated, Ended

(* Steps that leave what is published, and what should be, alone.           *)
LEMMA SameKeys ==
  ASSUME Calm, UNCHANGED <<tv, bumpedAt, endedAt, pub, redis>>
  PROVE  UserKeyOK' /\ SidKeysOK'
BY DEF redis, Calm, UserKeyOK, SidKeysOK, Underway, Ending

(* Steps that decide nothing and change no request.                         *)
LEMMA SameRequests ==
  ASSUME NobodyDue, req' = req, last' = None
  PROVE  NobodyDue'
BY DEF NobodyDue, PublishedDies

LEMMA Dues ==
  /\ Idle.due = FALSE
  /\ \A pc, t, from, answer, due : At(pc, t, from, answer, due).due = due
BY DEF Idle, At

(* A step of one request that is not due stays so, and decides nothing due. *)
LEMMA OneRequest ==
  ASSUME IInv, NobodyDue, NEW r \in Request, NEW q,
         req' = [req EXCEPT ![r] = q], ~q.due, last' = None \/ ~last'.due
  PROVE  NobodyDue'
<1>1. \A x \in Request : req'[x] = IF x = r THEN q ELSE req[x]
  BY DEF IInv, TypeOK
<1>. QED
  BY <1>1 DEF NobodyDue, PublishedDies

LEMMA MintP ==
  ASSUME IInv, PInv, NEW t \in Token, NEW s \in Session, Mint(t, s)
  PROVE  PInv'
<1>1. TokensOK'
  <2>1. /\ token' = [token EXCEPT ![t] = [tv |-> tv, sid |-> s, exp |-> now + Life]]
        /\ UNCHANGED <<now, tv, bumpedAt, endedAt>> /\ endedAt[s] = None
    BY DEF Mint
  <2>2. \A x \in Token : x # t => token'[x] = token[x]
    BY <2>1 DEF IInv, TypeOK
  <2>3. token'[t].tv = tv /\ token'[t].sid = s /\ token'[t].exp = now + Life
    BY <2>1 DEF IInv, TypeOK
  <2>4. LifeOK(t)'
    BY <2>1, <2>3, Fields, Numbers DEF LifeOK, Outdated, Ended
  <2>5. ASSUME NEW x \in Token, x # t PROVE LifeOK(x)'
    BY <2>1, <2>2, <2>5 DEF PInv, TokensOK, LifeOK, Minted, Outdated, Ended
  <2>. QED
    BY <2>1, <2>4, <2>5 DEF PInv, TokensOK
<1>2. ASSUME Calm PROVE Calm'
  BY <1>2, SameKeys, SameRequests DEF Mint, Calm
<1>. QED
  BY <1>1, <1>2 DEF PInv, Mint

LEMMA BumpP ==
  ASSUME IInv, PInv, NEW p \in Publisher, Bump(p)
  PROVE  PInv'
<1>1. /\ tv' = tv + 1 /\ UNCHANGED <<now, endedAt, token, redis, req>> /\ last' = None
      /\ bumpedAt' = [bumpedAt EXCEPT ![tv + 1] = now]
      /\ pub[p].do = "idle" /\ pub' = [pub EXCEPT ![p] = Todo("reload", 0, None)]
      /\ disturbed' = (disturbed \/ \E q \in Publisher : pub[q].do = "user")
  BY DEF Bump
<1>2. bumpedAt'[tv + 1] = now /\ \A v \in 0 .. tv : bumpedAt'[v] = bumpedAt[v]
  BY <1>1, Fields, Numbers DEF Bump, IInv, TypeOK, Version
<1>3. /\ pub'[p].do = "reload"
      /\ \A q \in Publisher : q # p => pub'[q] = pub[q]
  BY <1>1, Parts DEF IInv, TypeOK
<1>4. TokensOK'
  <2> SUFFICES ASSUME NEW t \in Token, Minted(t)
               PROVE  /\ token[t].tv <= tv + 1
                      /\ token[t].exp <= now + Life
                      /\ token[t].tv < tv + 1 => token[t].exp <= bumpedAt'[token[t].tv + 1] + Life
                      /\ Ended(t) => token[t].exp <= endedAt[token[t].sid] + Life
    BY <1>1 DEF PInv, TokensOK, LifeOK, Minted, Outdated, Ended
  <2>1. /\ token[t].tv <= tv /\ token[t].exp <= now + Life
        /\ token[t].tv < tv => token[t].exp <= bumpedAt[token[t].tv + 1] + Life
        /\ Ended(t) => token[t].exp <= endedAt[token[t].sid] + Life
    BY DEF PInv, TokensOK, LifeOK, Outdated
  <2>2. token[t].tv \in Nat /\ tv \in Nat
    BY Fields
  <2>3. CASE token[t].tv = tv
    BY <2>1, <2>2, <2>3, <1>2
  <2>4. CASE token[t].tv < tv
    BY <2>1, <2>2, <2>4, <1>2
  <2>. QED
    BY <2>1, <2>2, <2>3, <2>4
<1>5. ASSUME Calm, ~disturbed' PROVE Calm'
  <2>1. UserKeyOK'
    BY <1>1, <1>3, <1>5 DEF UserKeyOK, Underway
  <2>2. SidKeysOK'
    <3>1. \A s \in Session : Ending(s)' <=> Ending(s)
      BY <1>1, <1>3 DEF Ending
    <3>. QED
      BY <3>1, <1>1, <1>5 DEF redis, Calm, SidKeysOK
  <2>3. NobodyDue'
    BY <1>1, <1>5, SameRequests DEF Calm
  <2>. QED
    BY <2>1, <2>2, <2>3 DEF Calm
<1>. QED
  BY <1>1, <1>4, <1>5 DEF PInv

LEMMA ReloadP ==
  ASSUME IInv, PInv, NEW p \in Publisher, Reload(p)
  PROVE  PInv'
<1>1. /\ UNCHANGED <<now, identity, redis, req, disturbed>> /\ last' = None
      /\ pub[p].do = "reload" /\ pub' = [pub EXCEPT ![p] = Todo("user", tv, None)]
  BY DEF Reload
<1>2. /\ pub'[p].do = "user" /\ pub'[p].val = tv
      /\ \A q \in Publisher : q # p => pub'[q] = pub[q]
  BY <1>1, Parts DEF IInv, TypeOK
<1>3. ASSUME Calm PROVE Calm'
  <2>1. UserKeyOK'
    BY <1>1, <1>2, <1>3 DEF identity, Calm, UserKeyOK, Underway
  <2>2. \A s \in Session : Ending(s)' <=> Ending(s)
    BY <1>1, <1>2 DEF Ending
  <2>3. SidKeysOK'
    BY <2>2, <1>1, <1>3 DEF redis, identity, Calm, SidKeysOK
  <2>. QED
    BY <2>1, <2>3, <1>1, <1>3, SameRequests DEF Calm
<1>. QED
  BY <1>1, <1>3, SameTokens DEF PInv

LEMMA EndSessionP ==
  ASSUME IInv, PInv, NEW p \in Publisher, NEW s \in Session, EndSession(p, s)
  PROVE  PInv'
<1>1. /\ UNCHANGED <<now, tv, bumpedAt, token, redis, req, disturbed>> /\ last' = None
      /\ endedAt' = [endedAt EXCEPT ![s] = now]
      /\ pub[p].do = "idle" /\ pub' = [pub EXCEPT ![p] = Todo("sid", 0, s)]
  BY DEF EndSession
<1>2. endedAt'[s] = now /\ \A x \in Session : x # s => endedAt'[x] = endedAt[x]
  BY <1>1 DEF IInv, TypeOK
<1>3. /\ pub'[p].do = "sid" /\ pub'[p].sid = s
      /\ \A q \in Publisher : q # p => pub'[q] = pub[q]
  BY <1>1, Parts DEF IInv, TypeOK
<1>4. TokensOK'
  <2>1. \A x \in Session : endedAt'[x] # None => endedAt'[x] <= now
    BY <1>2, Fields DEF PInv, TokensOK
  <2>2. ASSUME NEW t \in Token, Minted(t) PROVE LifeOK(t)'
    <3>1. LifeOK(t) /\ token[t].sid \in Session
      BY <2>2, Fields DEF PInv, TokensOK
    <3>2. token[t].exp <= now + Life /\ (Ended(t) => token[t].exp <= endedAt[token[t].sid] + Life)
      BY <3>1, <2>2 DEF LifeOK
    <3>3. Ended(t)' => token[t].exp <= endedAt'[token[t].sid] + Life
      BY <3>1, <3>2, <1>1, <1>2 DEF Ended
    <3>. QED
      BY <3>1, <3>3, <1>1 DEF LifeOK, Minted, Outdated
  <2>3. \A t \in Token : ~Minted(t) => LifeOK(t)'
    BY <1>1 DEF LifeOK, Minted
  <2>. QED
    BY <1>1, <2>1, <2>2, <2>3 DEF TokensOK
<1>5. ASSUME Calm PROVE Calm'
  <2>1. UserKeyOK'
    <3>1. Underway' <=> Underway
      BY <1>1, <1>3 DEF Underway
    <3>. QED
      BY <3>1, <1>1, <1>3, <1>5 DEF redis, Calm, UserKeyOK
  <2>2. SidKeysOK'
    <3>1. Ending(s)' /\ \A x \in Session : x # s => (Ending(x)' <=> Ending(x))
      BY <1>1, <1>3 DEF Ending
    <3>. QED
      BY <3>1, <1>1, <1>2, <1>5 DEF redis, Calm, SidKeysOK
  <2>. QED
    BY <2>1, <2>2, <1>1, <1>5, SameRequests DEF Calm
<1>. QED
  BY <1>1, <1>4, <1>5 DEF PInv

LEMMA PublishP ==
  ASSUME IInv, PInv, NEW p \in Publisher, Publish(p)
  PROVE  PInv'
<1>1. /\ UNCHANGED <<now, identity, req, disturbed>> /\ last' = None
      /\ pub[p].do \in {"user", "sid"} /\ pub' = [pub EXCEPT ![p] = NothingTodo]
  BY DEF Publish
<1>2. pub'[p].do = "idle" /\ \A q \in Publisher : q # p => pub'[q] = pub[q]
  BY <1>1, Parts DEF IInv, TypeOK
<1>3. UNCHANGED <<tv, bumpedAt, endedAt>>
  BY <1>1 DEF identity
<1>4. ASSUME Calm, pub[p].do = "user" PROVE Calm'
  <2>1. keyUser'.val = pub[p].val /\ keyUser'.until = now + KeyLife /\ keySid' = keySid
    BY <1>4 DEF Publish
  <2>2. pub[p].val = tv
    BY <1>4 DEF Calm, UserKeyOK
  <2>3. tv > 0 => bumpedAt[tv] <= now /\ bumpedAt[tv] \in Nat
    BY Fields DEF IInv, BumpsOK
  <2>4. UserKeyOK'
    BY <2>1, <2>2, <2>3, <1>2, <1>3, <1>4, Fields, Numbers DEF Calm, UserKeyOK, KeyLife
  <2>5. \A s \in Session : Ending(s)' <=> Ending(s)
    BY <1>2, <1>4 DEF Ending
  <2>6. SidKeysOK'
    BY <2>1, <2>5, <1>3, <1>4 DEF Calm, SidKeysOK, KeyLife
  <2>. QED
    BY <2>4, <2>6, <1>1, <1>4, SameRequests DEF Calm
<1>5. ASSUME Calm, pub[p].do = "sid" PROVE Calm'
  <2>1. keySid' = [keySid EXCEPT ![pub[p].sid] = now + KeyLife] /\ keyUser' = keyUser
    BY <1>5 DEF Publish
  <2>2. Underway' <=> Underway
    BY <1>2, <1>5 DEF Underway
  <2>3. UserKeyOK'
    BY <2>1, <2>2, <1>2, <1>3, <1>5 DEF Calm, UserKeyOK, KeyLife
  <2>4. SidKeysOK'
    <3> SUFFICES ASSUME NEW s \in Session, endedAt[s] # None, ~Ending(s)'
                 PROVE  keySid'[s] >= endedAt[s] + KeyLife
      BY <1>3 DEF SidKeysOK, KeyLife
    <3>1. CASE s = pub[p].sid
      <4>1. keySid'[s] = now + KeyLife
        BY <2>1, <3>1 DEF IInv, TypeOK
      <4>2. endedAt[s] <= now /\ endedAt[s] \in Nat
        BY DEF PInv, TokensOK, IInv, TypeOK
      <4>. QED
        BY <4>1, <4>2, Fields, Numbers
    <3>2. CASE s # pub[p].sid
      <4>1. keySid'[s] = keySid[s]
        BY <2>1, <3>2 DEF IInv, TypeOK
      <4>2. ~Ending(s)
        BY <3>2, <1>2 DEF Ending
      <4>. QED
        BY <4>1, <4>2, <1>5 DEF Calm, SidKeysOK
    <3>. QED
      BY <3>1, <3>2
  <2>. QED
    BY <2>3, <2>4, <1>1, <1>5, SameRequests DEF Calm
<1>. QED
  BY <1>1, <1>4, <1>5, SameTokens DEF PInv

LEMMA TickP ==
  ASSUME IInv, PInv, Tick
  PROVE  PInv'
<1>1. /\ now' = now + 1 /\ last' = None
      /\ UNCHANGED <<identity, pub, redis, req, disturbed>>
  BY DEF Tick
<1>2. TokensOK'
  <2>1. ASSUME NEW t \in Token, Minted(t) PROVE token[t].exp <= now + 1 + Life
    <3>1. token[t].exp \in Nat
      BY <2>1 DEF IInv, TypeOK, TokenRecord, Minted
    <3>. QED
      BY <2>1, <3>1, Fields, Numbers DEF PInv, TokensOK, LifeOK
  <2>2. ASSUME NEW t \in Token PROVE LifeOK(t)'
    BY <2>1, <1>1 DEF identity, PInv, TokensOK, LifeOK, Minted, Outdated, Ended
  <2>3. \A s \in Session : endedAt[s] # None => endedAt[s] <= now + 1
    BY Fields DEF IInv, TypeOK, PInv, TokensOK
  <2>. QED
    BY <2>2, <2>3, <1>1 DEF identity, TokensOK
<1>3. ASSUME Calm PROVE Calm'
  BY <1>1, <1>3, SameKeys, SameRequests DEF identity, Calm
<1>. QED
  BY <1>1, <1>2, <1>3 DEF PInv

(* Where Redis has not failed and said nothing, the token is not dead: its  *)
(* key would have been there, and would have lived as long as it verifies.  *)
LEMMA NothingDue ==
  ASSUME IInv, PInv, Calm, NEW t \in Token, Verifies(t), Published,
         ~CoveredBySid(t), ~CoveredByUser(t)
  PROVE  ~Dead(t)
<1>1. /\ Minted(t) /\ now - lag < token[t].exp /\ token[t].exp \in Nat
      /\ lag \in Int /\ lag <= Skew
  BY Numbers DEF Verifies, IInv, TypeOK, Minted, TokenRecord
<1>2. LifeOK(t) /\ token[t].tv \in Nat /\ token[t].sid \in Session
  BY <1>1, Fields DEF PInv, TokensOK
<1>3. ~Underway /\ \A s \in Session : ~Ending(s)
  BY DEF Published, Underway, Ending
<1>4. ASSUME Ended(t) PROVE FALSE
  <2> DEFINE s == token[t].sid
  <2>1. endedAt[s] # None /\ endedAt[s] \in Nat /\ keySid[s] \in Nat
    BY <1>2, <1>4 DEF Ended, IInv, TypeOK
  <2>2. keySid[s] >= endedAt[s] + KeyLife
    BY <1>2, <1>3, <2>1 DEF Calm, SidKeysOK
  <2>3. token[t].exp <= endedAt[s] + Life
    BY <1>1, <1>2, <1>4 DEF LifeOK
  <2>4. now >= keySid[s]
    BY <1>2, <2>1, Fields DEF CoveredBySid
  <2>. HIDE DEF s
  <2>. QED
    BY <1>1, <2>1, <2>2, <2>3, <2>4, Fields, Numbers DEF KeyLife
<1>5. ASSUME Outdated(t) PROVE FALSE
  <2>1. token[t].tv < tv /\ tv > 0
    BY <1>2, <1>5, Fields DEF Outdated
  <2>2. keyUser.val = tv /\ keyUser.until >= bumpedAt[tv] + KeyLife
    BY <1>3, <2>1 DEF Calm, UserKeyOK
  <2>3. token[t].exp <= bumpedAt[token[t].tv + 1] + Life
    BY <1>1, <1>2, <1>5 DEF LifeOK
  <2>4. /\ bumpedAt[token[t].tv + 1] <= bumpedAt[tv]
        /\ bumpedAt[token[t].tv + 1] \in Nat /\ bumpedAt[tv] \in Nat
    <3>1. tv \in 1 .. tv /\ token[t].tv + 1 \in 1 .. tv /\ tv \in Version /\ token[t].tv + 1 \in Version
      BY <1>2, <2>1, Fields, Numbers DEF Version
    <3>. QED
      BY <3>1, Fields DEF IInv, BumpsOK
  <2>5. now >= keyUser.until
    BY <2>1, <2>2, Fields DEF CoveredByUser
  <2>. QED
    BY <1>1, <2>2, <2>3, <2>4, <2>5, Fields, Numbers DEF KeyLife
<1>. QED
  BY <1>4, <1>5 DEF Dead

LEMMA RedisSaysNothingP ==
  ASSUME IInv, PInv, NEW r \in Request, NEW t \in Token, RedisSaysNothing(r, t)
  PROVE  PInv'
<1>1. /\ UNCHANGED <<now, identity, pub, redis>> /\ last' = None /\ Verifies(t)
      /\ req' = [req EXCEPT ![r] = At("cache", t, 0, 0, Dead(t) /\ Published)]
      /\ disturbed' = (disturbed \/ CoveredBySid(t) \/ CoveredByUser(t))
  BY DEF RedisSaysNothing
<1>2. ASSUME Calm, ~disturbed' PROVE Calm'
  <2>1. ~(Dead(t) /\ Published)
    BY <1>1, <1>2, NothingDue
  <2>2. ~At("cache", t, 0, 0, Dead(t) /\ Published).due
    BY <2>1, Dues
  <2>3. NobodyDue'
    BY <2>2, <1>1, <1>2, OneRequest DEF Calm
  <2>. QED
    BY <2>3, <1>1, <1>2, SameKeys DEF identity, Calm
<1>. QED
  BY <1>1, <1>2, SameTokens DEF PInv

(* The other steps of requests: nothing is published or revoked by them.    *)
LEMMA RequestP ==
  ASSUME IInv, PInv, NEW r \in Request, NEW q,
         UNCHANGED <<now, identity, pub, redis, disturbed>>,
         req' = [req EXCEPT ![r] = q], ~disturbed /\ Calm => ~q.due,
         last' = None \/ (~disturbed /\ Calm => ~last'.due)
  PROVE  PInv'
<1>1. ASSUME Calm, ~disturbed PROVE Calm'
  <2>1. NobodyDue'
    BY <1>1, OneRequest DEF Calm
  <2>. QED
    BY <2>1, <1>1, SameKeys DEF identity, Calm
<1>. QED
  BY <1>1, SameTokens DEF PInv

LEMMA NextPInv ==
  ASSUME IInv, PInv, [Next]_vars
  PROVE  PInv'
<1>1. CASE \E t \in Token, s \in Session : Mint(t, s)
  BY <1>1, MintP
<1>2. ASSUME NEW p \in Publisher, Bump(p) \/ Reload(p) \/ Publish(p)
      PROVE  PInv'
  BY <1>2, BumpP, ReloadP, PublishP
<1>3. ASSUME NEW p \in Publisher, PublishLost(p) \/ ReloadFails(p)
      PROVE  PInv'
  <2>1. disturbed' = TRUE /\ UNCHANGED <<now, identity>>
    BY <1>3 DEF PublishLost, ReloadFails
  <2>. QED
    BY <2>1, SameTokens DEF PInv
<1>4. ASSUME NEW p \in Publisher, NEW s \in Session, EndSession(p, s)
      PROVE  PInv'
  BY <1>4, EndSessionP
<1>5. CASE DeleteUser
  <2>1. UNCHANGED <<now, tv, bumpedAt, endedAt, token, pub, redis, req, disturbed>> /\ last' = None
    BY <1>5 DEF DeleteUser
  <2>2. TokensOK'
    BY <2>1 DEF PInv, TokensOK, LifeOK, Minted, Outdated, Ended
  <2>. QED
    BY <2>1, <2>2, SameKeys, SameRequests DEF PInv, Calm
<1>6. ASSUME NEW r \in Request, NEW t \in Token, RedisSaysRevoked(r, t)
      PROVE  PInv'
  <2>1. /\ UNCHANGED <<now, identity, pub, redis, req, disturbed>>
        /\ last' = [tok |-> t, ok |-> FALSE, by |-> "redis", due |-> FALSE]
    BY <1>6 DEF RedisSaysRevoked
  <2>2. NobodyDue => NobodyDue'
    BY <2>1 DEF NobodyDue, PublishedDies
  <2>. QED
    BY <2>1, <2>2, SameKeys, SameTokens DEF identity, PInv, Calm
<1>7. ASSUME NEW r \in Request, NEW t \in Token, RedisSaysNothing(r, t)
      PROVE  PInv'
  BY <1>7, RedisSaysNothingP
<1>8. ASSUME NEW r \in Request, CacheMiss(r) \/ Answer(r) \/ Unanswered(r)
      PROVE  PInv'
  <2>1. PICK pc, from, answer : req' = [req EXCEPT ![r] = At(pc, req[r].tok, from, answer, req[r].due)]
    BY <1>8 DEF CacheMiss, Answer, Unanswered
  <2>2. UNCHANGED <<now, identity, pub, redis, disturbed>> /\ last' = None
    BY <1>8 DEF CacheMiss, Answer, Unanswered
  <2>3. Calm => ~At(pc, req[r].tok, from, answer, req[r].due).due
    BY Dues DEF Calm, NobodyDue
  <2>. QED
    BY <2>1, <2>2, <2>3, RequestP
<1>9. ASSUME NEW r \in Request, CacheHit(r) \/ StoreVersion(r) \/ RefuseUnknown(r) \/ StoreFailure(r)
      PROVE  PInv'
  <2>1. /\ req' = [req EXCEPT ![r] = Idle] /\ last'.due = req[r].due
        /\ UNCHANGED <<now, identity, pub, redis, disturbed>>
    BY <1>9 DEF CacheHit, StoreVersion, RefuseUnknown, StoreFailure, Decide
  <2>2. ~Idle.due /\ (Calm => ~last'.due)
    BY <2>1, Dues DEF Calm, NobodyDue
  <2>. QED
    BY <2>1, <2>2, RequestP
<1>10. CASE Tick
  BY <1>10, TickP
<1>11. CASE UNCHANGED vars
  <2>1. UNCHANGED <<now, identity, pub, redis, req, disturbed, last>>
    BY <1>11 DEF vars, identity, redis
  <2>2. NobodyDue => NobodyDue'
    BY <2>1 DEF NobodyDue, PublishedDies
  <2>. QED
    BY <2>1, <2>2, SameKeys, SameTokens DEF identity, PInv, Calm
<1>. QED
  BY <1>1, <1>2, <1>3, <1>4, <1>5, <1>6, <1>7, <1>8, <1>9, <1>10, <1>11 DEF Next

(* A revoked token that has been published is refused by every request that *)
(* starts afterwards, for as long as it verifies: no SET or MGET failed and *)
(* no publication was overtaken (publish_user_revoked, ttl_seconds,         *)
(* PublishedRevocations.check).  Identity may fail; the lookup is not asked.*)
THEOREM PublishedIsFelt == Spec => []PublishedDies
<1>1. IInv /\ PInv /\ [Next]_vars => (IInv /\ PInv)'
  BY NextIInv, NextPInv
<1>2. PInv => PublishedDies
  BY DEF PInv, Calm, NobodyDue, PublishedDies
<1>. QED
  BY InitIInv, InitPInv, <1>1, <1>2, PTL DEF Spec

-----------------------------------------------------------------------------
(***************************************************************************)
(* Signing keys.  KInv: the keys in use are among those every service has  *)
(* read from the disk, among those of a document on its way, and among     *)
(* those a product has, unless what it has is older than the least wait    *)
(* between two fetches; nothing is claimed once a service has started late *)
(* (late).                                                                 *)
(***************************************************************************)
Key == 1 .. MaxKeys

Files   == [signing : Key, next : Key \cup {None}, archive : Key \cup {None}, retired : SUBSET Key]
Reading == [private : Key \cup {None}, public : Key \cup {None}, retired : SUBSET Key, boot : Key]
Tokens  == [kid : Key, by : Key, left : 1 .. TokenLife]
Shown   == [kid : Nat, by : Nat]
Clients == [keys : SUBSET Key, fresh : Nat, quiet : Nat, error : BOOLEAN, fetch : (SUBSET Key) \cup {None}]

KeyTypes ==
  /\ disk \in Files /\ made \in Key /\ since \in Nat /\ settled \in Nat
  /\ restarted \subseteq Instance
  /\ proc \in [Instance -> Reading]
  /\ tokens \subseteq Tokens
  /\ client \in Clients /\ waiting \subseteq Shown
  /\ refused \in BOOLEAN /\ late \in BOOLEAN

InUse == {disk.signing} \cup (IF disk.archive = None THEN {} ELSE {disk.archive})

(* One other key at most, published and not signed with. *)
DiskOK ==
  /\ disk.signing <= made
  /\ disk.next = None \/ disk.archive = None
  /\ disk.retired = {disk.next, disk.archive} \ {None}
  /\ disk.next # None => disk.next <= made /\ disk.next # disk.signing
  /\ disk.archive # None => disk.archive <= made /\ disk.archive # disk.signing

Current(i) ==
  /\ proc[i].boot \in InUse
  /\ proc[i].private \in {None, proc[i].boot} /\ proc[i].public \in {None, proc[i].boot}
  /\ InUse \subseteq {proc[i].boot} \cup proc[i].retired
  /\ i \in restarted => /\ proc[i].boot = disk.signing
                        /\ disk.next # None => disk.next \in proc[i].retired
ProcsOK == \A i \in Instance : Current(i)

Valid(t) ==
  /\ t.kid = t.by /\ t.kid \in InUse
  /\ restarted = Instance /\ t.kid # disk.signing => t.left + settled <= TokenLife
SignedOK == \A t \in tokens : Valid(t)

(* What a document read quiet ago may lack of the next key. *)
Behind(known) == disk.next # None /\ disk.next \notin known /\ restarted = Instance => settled <= client.quiet

Fetched ==
  client.fetch # None =>
    /\ InUse \subseteq client.fetch /\ client.quiet <= Latency /\ Behind(client.fetch)
    /\ \A t \in waiting : t = Keys!MadeUp \/ (t.kid = t.by /\ t.kid \in client.fetch)

Cached ==
  client.fetch = None /\ ~client.error /\ client.keys # {} =>
    /\ InUse \subseteq client.keys \/ client.quiet >= Floor
    /\ Behind(client.keys)

KeysFit == DiskOK /\ ProcsOK /\ SignedOK /\ Fetched /\ Cached /\ ~refused

KInv == late \/ (KeyTypes /\ KeysFit)

-----------------------------------------------------------------------------
LEMMA LongestIs ==
  ASSUME Keys!Settings
  PROVE  /\ Keys!Longest \in Nat
         /\ PublishWait <= Keys!Longest /\ RetireWait <= Keys!Longest /\ Floor <= Keys!Longest
<1>1. \E x \in {PublishWait, RetireWait, Floor} : \A y \in {PublishWait, RetireWait, Floor} : x >= y
  BY DEF Keys!Settings
<1>. QED
  BY <1>1 DEF Keys!Longest, Keys!Max, Keys!Settings

LEMMA OlderIs ==
  ASSUME Keys!Settings
  PROVE  /\ \A a \in Nat : Keys!Older(a) \in Nat /\ Keys!Older(a) <= a + 1 /\ a <= Keys!Older(a)
         /\ \A a, b \in Nat : a <= b => Keys!Older(a) <= Keys!Older(b)
BY LongestIs DEF Keys!Older

LEMMA BootedIs ==
  ASSUME KeyTypes
  PROVE  Keys!Booted \in Reading /\ Keys!Booted.private = None /\ Keys!Booted.public = None /\ Keys!Booted.retired = disk.retired /\ Keys!Booted.boot = disk.signing
BY DEF Keys!Booted, Reading, KeyTypes, Files

LEMMA ColdIs ==
  ASSUME Keys!Settings
  PROVE  Keys!Cold \in Clients /\ Keys!Cold.keys = {} /\ Keys!Cold.fetch = None /\ Keys!Cold.error = FALSE
BY LongestIs DEF Keys!Cold, Clients, Keys!Settings

LEMMA DocumentIs ==
  ASSUME KeyTypes, NEW i \in Instance
  PROVE  /\ Keys!Public(i) \in Key /\ Keys!Private(i) \in Key
         /\ Keys!Document(i) \in SUBSET Key /\ Keys!Document(i) = {Keys!Public(i)} \cup proc[i].retired
<1>1. PICK p \in Reading : p = proc[i]
  BY DEF KeyTypes
<1>2. /\ p.public \in Key \cup {None} /\ p.private \in Key \cup {None} /\ p.retired \in SUBSET Key /\ disk.signing \in Key
  BY DEF Reading, KeyTypes, Files
<1>. QED
  BY <1>1, <1>2 DEF Keys!Public, Keys!Private, Keys!Document

LEMMA PresentedIs ==
  ASSUME Keys!Settings, KeyTypes, NEW t \in Keys!Presented
  PROVE  /\ t \in Shown
         /\ t = Keys!MadeUp \/ \E s \in tokens : t.kid = s.kid /\ t.by = s.by
<1>1. CASE t = Keys!MadeUp
  BY <1>1 DEF Keys!MadeUp, Shown
<1>2. ASSUME NEW s \in tokens, t = [kid |-> s.kid, by |-> s.by]
      PROVE  t \in Shown /\ t.kid = s.kid /\ t.by = s.by
  BY <1>2 DEF KeyTypes, Tokens, Shown, Key
<1>. QED
  BY <1>1, <1>2 DEF Keys!Presented

-----------------------------------------------------------------------------
LEMMA InitKInv ==
  ASSUME Keys!Settings, Keys!Init
  PROVE  KInv
<1>1. disk = [signing |-> 1, next |-> None, archive |-> None, retired |-> {}] /\ made = 1 /\ restarted = {}
      /\ settled = 0 /\ since = 0 /\ tokens = {} /\ client = Keys!Cold /\ waiting = {} /\ refused = FALSE /\ late = FALSE
  BY DEF Keys!Init
<1>2. disk \in Files /\ disk.signing = 1 /\ disk.next = None /\ disk.archive = None /\ disk.retired = {}
  BY <1>1 DEF Files, Key, Keys!Settings
<1>3. Keys!Cold \in Clients /\ Keys!Cold.keys = {} /\ Keys!Cold.fetch = None /\ Keys!Cold.error = FALSE
  BY ColdIs
<1>4. Keys!Booted \in Reading /\ Keys!Booted.private = None /\ Keys!Booted.public = None /\ Keys!Booted.retired = disk.retired /\ Keys!Booted.boot = disk.signing
  BY <1>2 DEF Keys!Booted, Reading, Files
<1>5. \A i \in Instance : proc[i] = Keys!Booted
  BY DEF Keys!Init
<1>6. proc \in [Instance -> Reading]
  BY <1>4 DEF Keys!Init
<1>7. KeyTypes
  <2>1. made \in Key /\ since \in Nat /\ settled \in Nat
    BY <1>1 DEF Key, Keys!Settings
  <2>2. disk \in Files /\ client \in Clients
    BY <1>1, <1>2, <1>3
  <2>. QED
    BY <1>1, <1>6, <2>1, <2>2 DEF KeyTypes
<1>8. DiskOK
  BY <1>1, <1>2 DEF DiskOK
<1>9. ProcsOK
  BY <1>1, <1>2, <1>4, <1>5 DEF ProcsOK, Current, InUse
<1>10. SignedOK /\ Fetched /\ Cached
  BY <1>1, <1>3 DEF SignedOK, Fetched, Cached
<1>. QED
  BY <1>1, <1>7, <1>8, <1>9, <1>10 DEF KInv, KeysFit

-----------------------------------------------------------------------------
(* The script. *)
LEMMA MoveKeeps ==
  ASSUME Keys!Settings, KeyTypes, KeysFit, Keys!MoveFiles(disk'), disk' \in Files, made' \in Key, DiskOK',
         \A i \in Instance : proc[i].boot \in InUse' /\ InUse' \subseteq {proc[i].boot} \cup proc[i].retired,
         \A t \in tokens : t.kid \in InUse',
         client.fetch # None => InUse' \subseteq client.fetch,
         client.fetch = None /\ ~client.error /\ client.keys # {} => InUse' \subseteq client.keys \/ client.quiet >= Floor
  PROVE  KInv'
<1>1. /\ since' = 0 /\ settled' = 0 /\ restarted' = {}
      /\ UNCHANGED <<proc, tokens, client, waiting, refused, late>>
  BY DEF Keys!MoveFiles
<1>2. KeyTypes'
  BY <1>1 DEF KeyTypes
<1>3. ProcsOK'
  BY <1>1 DEF KeysFit, ProcsOK, Current
<1>4. SignedOK'
  <2> SUFFICES ASSUME NEW t \in tokens PROVE t.kid = t.by /\ t.kid \in InUse' /\ t.left + 0 <= TokenLife
    BY <1>1 DEF SignedOK, Valid
  <2>1. t.left \in 1 .. TokenLife
    BY DEF KeyTypes, Tokens
  <2>. QED
    BY <2>1 DEF KeysFit, SignedOK, Valid, Keys!Settings
<1>5. client.quiet \in Nat
  BY DEF KeyTypes, Clients
<1>6. Fetched'
  BY <1>1, <1>5 DEF KeysFit, Fetched, Behind
<1>7. Cached'
  BY <1>1, <1>5 DEF KeysFit, Cached, Behind
<1>. QED
  BY <1>1, <1>2, <1>3, <1>4, <1>6, <1>7 DEF KInv, KeysFit

LEMMA DiskIs ==
  ASSUME KeyTypes
  PROVE  /\ disk.signing \in Key /\ disk.next \in Key \cup {None} /\ disk.archive \in Key \cup {None}
         /\ disk.retired \in SUBSET Key /\ made \in Key
BY DEF KeyTypes, Files

LEMMA FilesAre ==
  ASSUME NEW s \in Key, NEW n \in Key \cup {None}, NEW a \in Key \cup {None}, NEW r \in SUBSET Key
  PROVE  LET f == [signing |-> s, next |-> n, archive |-> a, retired |-> r]
         IN  f \in Files /\ f.signing = s /\ f.next = n /\ f.archive = a /\ f.retired = r
BY DEF Files

LEMMA PrepareKeeps ==
  ASSUME Keys!Settings, KeyTypes, KeysFit, Keys!Prepare
  PROVE  KInv'
<1>1. disk.next = None /\ disk.archive = None /\ disk.retired = {} /\ None \notin Key
  BY DEF Keys!Prepare, Keys!Phase, KeysFit, DiskOK, Keys!Settings, Key
<1>2. made' = made + 1 /\ made' \in Key /\ made \in Nat
  BY DiskIs DEF Keys!Prepare, Key, Keys!Settings
<1>3. /\ disk' \in Files /\ disk'.signing = disk.signing /\ disk'.next = made' /\ disk'.archive = None
      /\ disk'.retired = {made'}
  <2>1. disk' = [disk EXCEPT !.next = made', !.retired = {made'}]
    BY <1>1, <1>2 DEF Keys!Prepare, Keys!MoveFiles, KeyTypes, Files
  <2>. QED
    BY <1>1, <1>2, <2>1 DEF KeyTypes, Files
<1>4. DiskOK'
  BY <1>1, <1>2, <1>3, DiskIs DEF KeysFit, DiskOK, Key
<1>5. InUse' = InUse
  BY <1>1, <1>3 DEF InUse
<1>6. Keys!MoveFiles(disk')
  BY DEF Keys!Prepare, Keys!MoveFiles
<1>. QED
  BY <1>2, <1>3, <1>4, <1>5, <1>6, MoveKeeps DEF KeysFit, ProcsOK, Current, SignedOK, Valid, Fetched, Cached

LEMMA AbortKeeps ==
  ASSUME Keys!Settings, KeyTypes, KeysFit, Keys!Abort
  PROVE  KInv'
<1>1. disk.next # None /\ disk.archive = None /\ disk.retired = {disk.next}
  BY DEF Keys!Abort, Keys!Phase, KeysFit, DiskOK
<1>2. made' = made /\ made \in Key
  BY DiskIs DEF Keys!Abort
<1>3. disk' \in Files /\ disk'.signing = disk.signing /\ disk'.next = None /\ disk'.archive = None /\ disk'.retired = {}
  <2>1. disk' = [disk EXCEPT !.next = None, !.retired = disk.retired \ {disk.next}]
    BY DEF Keys!Abort, Keys!MoveFiles
  <2>. QED
    BY <1>1, <2>1 DEF KeyTypes, Files
<1>4. DiskOK'
  BY <1>1, <1>2, <1>3 DEF KeysFit, DiskOK
<1>5. InUse' = InUse
  BY <1>1, <1>3 DEF InUse
<1>6. Keys!MoveFiles(disk')
  BY DEF Keys!Abort, Keys!MoveFiles
<1>. QED
  BY <1>2, <1>3, <1>4, <1>5, <1>6, MoveKeeps DEF KeysFit, ProcsOK, Current, SignedOK, Valid, Fetched, Cached

LEMMA RollbackKeeps ==
  ASSUME Keys!Settings, KeyTypes, KeysFit, Keys!Rollback
  PROVE  KInv'
<1>1. disk.next = None /\ disk.archive # None /\ disk.retired = {disk.archive} /\ disk.archive # disk.signing
  BY DEF Keys!Rollback, Keys!Phase, KeysFit, DiskOK
<1>2. made' = made /\ made \in Key /\ None \notin Key
  BY DiskIs DEF Keys!Rollback, Keys!Settings, Key
<1>3. /\ disk' \in Files /\ disk'.signing = disk.archive /\ disk'.next = None /\ disk'.archive = disk.signing
      /\ disk'.retired = {disk.signing}
  <2>1. disk' = [disk EXCEPT !.signing = disk.archive, !.archive = disk.signing,
                             !.retired = (disk.retired \cup {disk.signing}) \ {disk.archive}]
    BY DEF Keys!Rollback, Keys!MoveFiles
  <2>. QED
    BY <1>1, <2>1 DEF KeyTypes, Files
<1>4. DiskOK'
  BY <1>1, <1>2, <1>3, DiskIs DEF KeysFit, DiskOK
<1>5. InUse' = InUse
  BY <1>1, <1>2, <1>3, DiskIs DEF InUse
<1>6. Keys!MoveFiles(disk')
  BY DEF Keys!Rollback, Keys!MoveFiles
<1>. QED
  BY <1>2, <1>3, <1>4, <1>5, <1>6, MoveKeeps DEF KeysFit, ProcsOK, Current, SignedOK, Valid, Fetched, Cached

LEMMA PromoteKeeps ==
  ASSUME Keys!Settings, KeyTypes, KeysFit, Keys!Promote
  PROVE  KInv'
<1>1. disk.next # None /\ disk.archive = None /\ disk.retired = {disk.next} /\ disk.next # disk.signing
  BY DEF Keys!Promote, Keys!Phase, KeysFit, DiskOK
<1>2. made' = made /\ made \in Key /\ None \notin Key
  BY DiskIs DEF Keys!Promote, Keys!Settings, Key
<1>3. /\ disk' \in Files /\ disk'.signing = disk.next /\ disk'.next = None /\ disk'.archive = disk.signing
      /\ disk'.retired = {disk.signing}
  <2>1. disk' = [signing |-> disk.next, next |-> None, archive |-> disk.signing,
                 retired |-> (disk.retired \cup {disk.signing}) \ {disk.next}]
    BY DEF Keys!Promote, Keys!MoveFiles
  <2>. QED
    BY <1>1, <2>1, DiskIs, FilesAre
<1>4. DiskOK'
  BY <1>1, <1>2, <1>3, DiskIs DEF KeysFit, DiskOK
<1>5. InUse' = {disk.signing, disk.next} /\ InUse = {disk.signing}
  BY <1>1, <1>2, <1>3, DiskIs DEF InUse
<1>6. Keys!MoveFiles(disk')
  BY DEF Keys!Promote, Keys!MoveFiles
<1>7. restarted = Instance /\ settled >= PublishWait /\ settled \in Nat /\ client.quiet \in Nat
  BY DEF Keys!Promote, Keys!Waited, KeyTypes, Clients
<1>8. \A i \in Instance : proc[i].boot = disk.signing /\ disk.next \in proc[i].retired
  BY <1>1, <1>7 DEF KeysFit, ProcsOK, Current
<1>9. client.fetch # None => InUse' \subseteq client.fetch
  BY <1>1, <1>5, <1>7 DEF KeysFit, Fetched, Behind, Keys!Settings
<1>10. client.fetch = None /\ ~client.error /\ client.keys # {} => InUse' \subseteq client.keys \/ client.quiet >= Floor
  BY <1>1, <1>5, <1>7 DEF KeysFit, Cached, Behind, Keys!Settings
<1>11. \A t \in tokens : t.kid \in InUse'
  BY <1>5 DEF KeysFit, SignedOK, Valid
<1>12. \A i \in Instance : proc[i].boot \in InUse' /\ InUse' \subseteq {proc[i].boot} \cup proc[i].retired
  BY <1>5, <1>8
<1>. QED
  BY <1>2, <1>3, <1>4, <1>6, <1>9, <1>10, <1>11, <1>12, MoveKeeps

LEMMA FinishKeeps ==
  ASSUME Keys!Settings, KeyTypes, KeysFit, Keys!Finish
  PROVE  KInv'
<1>1. disk.next = None /\ disk.archive # None /\ disk.retired = {disk.archive} /\ disk.archive # disk.signing
  BY DEF Keys!Finish, Keys!Phase, KeysFit, DiskOK
<1>2. made' = made /\ made \in Key
  BY DiskIs DEF Keys!Finish
<1>3. disk' \in Files /\ disk'.signing = disk.signing /\ disk'.next = None /\ disk'.archive = None /\ disk'.retired = {}
  <2>1. disk' = [disk EXCEPT !.archive = None, !.retired = disk.retired \ {disk.archive}]
    BY DEF Keys!Finish, Keys!MoveFiles
  <2>. QED
    BY <1>1, <2>1 DEF KeyTypes, Files
<1>4. DiskOK'
  BY <1>1, <1>2, <1>3 DEF KeysFit, DiskOK
<1>5. InUse' = {disk.signing} /\ InUse' \subseteq InUse
  BY <1>3 DEF InUse
<1>6. Keys!MoveFiles(disk')
  BY DEF Keys!Finish, Keys!MoveFiles
<1>7. restarted = Instance /\ settled >= RetireWait /\ settled \in Nat
  BY DEF Keys!Finish, Keys!Waited, KeyTypes
<1>8. \A i \in Instance : proc[i].boot = disk.signing
  BY <1>7 DEF KeysFit, ProcsOK, Current
<1>9. ASSUME NEW t \in tokens
      PROVE  t.kid = disk.signing
  <2>1. t.left \in 1 .. TokenLife
    BY DEF KeyTypes, Tokens
  <2>. QED
    BY <1>7, <2>1 DEF KeysFit, SignedOK, Valid, Keys!Settings
<1>. QED
  BY <1>2, <1>3, <1>4, <1>5, <1>6, <1>8, <1>9, MoveKeeps
  DEF KeysFit, ProcsOK, Current, SignedOK, Valid, Fetched, Cached

-----------------------------------------------------------------------------
(* Identity. *)
LEMMA RestartKeeps ==
  ASSUME Keys!Settings, KeyTypes, KeysFit, NEW i \in Instance, Keys!Restart(i)
  PROVE  KInv'
<1>1. Keys!Booted \in Reading /\ Keys!Booted.private = None /\ Keys!Booted.public = None /\ Keys!Booted.retired = disk.retired /\ Keys!Booted.boot = disk.signing
  BY BootedIs
<1>2. /\ proc' = [proc EXCEPT ![i] = Keys!Booted] /\ restarted' = restarted \cup {i} /\ settled' = 0
      /\ UNCHANGED <<disk, made, since, tokens, client, waiting, refused, late>>
  BY DEF Keys!Restart
<1>3. KeyTypes'
  BY <1>1, <1>2 DEF KeyTypes
<1>4. InUse' = InUse /\ InUse \subseteq {disk.signing} \cup disk.retired /\ disk.signing \in InUse
      /\ (disk.next # None => disk.next \in disk.retired)
  BY <1>2 DEF InUse, KeysFit, DiskOK
<1>5. ProcsOK'
  <2> SUFFICES ASSUME NEW j \in Instance PROVE Current(j)'
    BY DEF ProcsOK
  <2>1. CASE j = i
    <3>1. proc'[j] = Keys!Booted
      BY <1>2, <2>1 DEF KeyTypes
    <3>. QED
      BY <1>1, <1>2, <1>4, <3>1 DEF Current
  <2>2. CASE j # i
    <3>1. proc'[j] = proc[j] /\ (j \in restarted' => j \in restarted)
      BY <1>2, <2>2 DEF KeyTypes
    <3>. QED
      BY <1>2, <1>4, <3>1 DEF KeysFit, ProcsOK, Current
  <2>. QED
    BY <2>1, <2>2
<1>6. SignedOK'
  <2> SUFFICES ASSUME NEW t \in tokens PROVE t.kid = t.by /\ t.kid \in InUse' /\ t.left + 0 <= TokenLife
    BY <1>2 DEF SignedOK, Valid
  <2>1. t.left \in 1 .. TokenLife
    BY DEF KeyTypes, Tokens
  <2>. QED
    BY <1>4, <2>1 DEF KeysFit, SignedOK, Valid, Keys!Settings
<1>7. client.quiet \in Nat
  BY DEF KeyTypes, Clients
<1>8. Fetched' /\ Cached'
  BY <1>2, <1>4, <1>7 DEF KeysFit, Fetched, Cached, Behind
<1>. QED
  BY <1>2, <1>3, <1>5, <1>6, <1>8 DEF KInv, KeysFit, DiskOK

(* A process that has not read the pair late reads what it booted with. *)
LEMMA ReadsBoot ==
  ASSUME Keys!Settings, KeyTypes, KeysFit, NEW i \in Instance, NEW files \in SUBSET {"private", "public"},
         Keys!Reads(i, files), ~late'
  PROVE  /\ "public" \in files => Keys!Public(i) = proc[i].boot
         /\ "private" \in files => Keys!Private(i) = proc[i].boot
<1>1. disk.signing = proc[i].boot \/ \A f \in files : proc[i][f] # None
  BY DEF Keys!Reads
<1>2. proc[i].private \in {None, proc[i].boot} /\ proc[i].public \in {None, proc[i].boot}
  BY DEF KeysFit, ProcsOK, Current
<1>3. \A f \in files : (f = "public" => proc[i][f] = proc[i].public) /\ (f = "private" => proc[i][f] = proc[i].private)
  OBVIOUS
<1>. QED
  BY <1>1, <1>2, <1>3 DEF Keys!Public, Keys!Private

LEMMA MintKeeps ==
  ASSUME Keys!Settings, KeyTypes, KeysFit, NEW i \in Instance, Keys!Mint(i)
  PROVE  KInv'
<1>1. Keys!Public(i) \in Key /\ Keys!Private(i) \in Key
  BY DocumentIs
<1>2. PICK p \in Reading : p = proc[i]
  BY DEF KeyTypes
<1>3. PICK q : q = [p EXCEPT !.private = Keys!Private(i), !.public = Keys!Public(i)]
  OBVIOUS
<1>4. q \in Reading /\ q.private = Keys!Private(i) /\ q.public = Keys!Public(i) /\ q.retired = p.retired /\ q.boot = p.boot
  BY <1>1, <1>2, <1>3 DEF Reading
<1>5. proc' = [proc EXCEPT ![i] = q]
  BY <1>2, <1>3 DEF Keys!Mint
<1>6. PICK t : t = [kid |-> Keys!Public(i), by |-> Keys!Private(i), left |-> TokenLife]
  OBVIOUS
<1>7. t \in Tokens /\ t.kid = Keys!Public(i) /\ t.by = Keys!Private(i) /\ tokens' = tokens \cup {t}
  BY <1>1, <1>6 DEF Tokens, Keys!Mint, Keys!Settings
<1>8. UNCHANGED <<disk, made, since, settled, restarted, client, waiting, refused>> /\ late' \in BOOLEAN
  BY DEF Keys!Mint, Keys!operation, Keys!Reads
<1>9. KeyTypes'
  BY <1>4, <1>5, <1>7, <1>8 DEF KeyTypes
<1>10. ASSUME ~late'
       PROVE  KeysFit'
  <2>1. Keys!Public(i) = p.boot /\ Keys!Private(i) = p.boot
    BY <1>2, <1>10, ReadsBoot DEF Keys!Mint
  <2>2. InUse' = InUse
    BY <1>8 DEF InUse
  <2>3. Current(i)
    BY DEF KeysFit, ProcsOK
  <2>4. ASSUME NEW j \in Instance
        PROVE  Current(j)'
    <3>1. CASE j = i
      <4>1. proc'[j] = q
        BY <1>5, <3>1 DEF KeyTypes
      <4>. QED
        BY <1>2, <1>4, <1>8, <2>1, <2>2, <2>3, <3>1, <4>1 DEF Current
    <3>2. CASE j # i
      <4>1. proc'[j] = proc[j]
        BY <1>5, <3>2 DEF KeyTypes
      <4>. QED
        BY <1>8, <2>2, <4>1 DEF KeysFit, ProcsOK, Current
    <3>. QED
      BY <3>1, <3>2
  <2>5. SignedOK'
    <3>1. Valid(t)'
      BY <1>2, <1>7, <1>8, <2>1, <2>2, <2>3 DEF Valid, Current
    <3>2. \A s \in tokens : Valid(s)'
      BY <1>8, <2>2 DEF KeysFit, SignedOK, Valid
    <3>. QED
      BY <1>7, <3>1, <3>2 DEF SignedOK
  <2>6. Fetched' /\ Cached' /\ DiskOK' /\ ~refused'
    BY <1>8, <2>2 DEF KeysFit, Fetched, Cached, Behind, DiskOK
  <2>. QED
    BY <2>4, <2>5, <2>6 DEF KeysFit, ProcsOK
<1>. QED
  BY <1>9, <1>10 DEF KInv

-----------------------------------------------------------------------------
(* The product.  A genuine token names a key that is in use. *)
LEMMA Genuine ==
  ASSUME Keys!Settings, KeyTypes, KeysFit, NEW t \in Keys!Presented
  PROVE  t \in Shown /\ (t = Keys!MadeUp \/ (t.kid = t.by /\ t.kid \in InUse))
BY PresentedIs DEF KeysFit, SignedOK, Valid

(* What only the product's verifications change. *)
LEMMA SameFiles ==
  ASSUME Keys!Settings, KeyTypes, KeysFit, UNCHANGED <<Keys!operation, tokens>>,
         ProcsOK', Fetched', Cached', ~refused'
  PROVE  KeysFit'
<1>1. UNCHANGED <<disk, made, settled, restarted, tokens>>
  BY DEF Keys!operation
<1>2. InUse' = InUse
  BY <1>1 DEF InUse
<1>3. DiskOK' /\ SignedOK'
  BY <1>1, <1>2 DEF KeysFit, DiskOK, SignedOK, Valid
<1>. QED
  BY <1>3 DEF KeysFit

LEMMA SameProcs ==
  ASSUME ProcsOK, UNCHANGED <<Keys!operation, proc>>
  PROVE  ProcsOK'
<1>1. UNCHANGED <<disk, restarted, proc>>
  BY DEF Keys!operation
<1>. QED
  BY <1>1 DEF ProcsOK, Current, InUse

LEMMA JudgeKeeps ==
  ASSUME Keys!Settings, KeyTypes, KeysFit, NEW t \in Keys!Presented, Keys!Judge(t)
  PROVE  KInv'
<1>1. UNCHANGED <<Keys!operation, proc, tokens, client, waiting, late>> /\ UNCHANGED <<disk, settled, restarted, made, since>>
  BY DEF Keys!Judge, Keys!operation
<1>2. t = Keys!MadeUp \/ (t.kid = t.by /\ t.kid \in InUse)
  BY Genuine
<1>3. ~Keys!TurnsAway(t, client)
  <2> SUFFICES ASSUME t # Keys!MadeUp, ~client.error, t.kid \notin client.keys PROVE FALSE
    BY <1>2 DEF Keys!TurnsAway
  <2>1. client.fetch = None /\ client.quiet < Keys!FloorNow
    BY DEF Keys!Judge, Keys!Stale
  <2>2. client.quiet \in Nat
    BY DEF KeyTypes, Clients
  <2>3. client.keys # {} /\ client.quiet < Floor
    BY <2>1, <2>2 DEF Keys!FloorNow, Keys!Settings
  <2>. QED
    BY <1>2, <2>1, <2>2, <2>3 DEF KeysFit, Cached, Keys!Settings
<1>4. ~refused' /\ refused' \in BOOLEAN
  BY <1>3 DEF Keys!Judge, KeysFit
<1>5. KeyTypes'
  BY <1>1, <1>4 DEF KeyTypes
<1>6. Fetched' /\ Cached'
  BY <1>1 DEF KeysFit, Fetched, Cached, Behind, InUse
<1>7. ProcsOK'
  BY <1>1, SameProcs DEF KeysFit
<1>8. KeysFit'
  BY <1>1, <1>4, <1>6, <1>7, SameFiles
<1>. QED
  BY <1>5, <1>8 DEF KInv

LEMMA WaitKeeps ==
  ASSUME Keys!Settings, KeyTypes, KeysFit, NEW t \in Keys!Presented, Keys!Wait(t)
  PROVE  KInv'
<1>1. /\ UNCHANGED <<Keys!operation, proc, tokens, client, refused, late>> /\ UNCHANGED <<disk, settled, restarted, made, since>>
      /\ waiting' = waiting \cup {t}
  BY DEF Keys!Wait, Keys!operation
<1>2. t \in Shown /\ (t = Keys!MadeUp \/ (t.kid = t.by /\ t.kid \in InUse))
  BY Genuine
<1>3. KeyTypes'
  BY <1>1, <1>2 DEF KeyTypes
<1>4. Fetched' /\ Cached'
  BY <1>1, <1>2 DEF KeysFit, Fetched, Cached, Behind, InUse
<1>5. ProcsOK'
  BY <1>1, SameProcs DEF KeysFit
<1>6. KeysFit'
  BY <1>1, <1>4, <1>5, SameFiles DEF KeysFit
<1>. QED
  BY <1>3, <1>6 DEF KInv

LEMMA FetchKeeps ==
  ASSUME Keys!Settings, KeyTypes, KeysFit, NEW t \in Keys!Presented, NEW i \in Instance, Keys!Fetch(t, i)
  PROVE  KInv'
<1>1. PICK p \in Reading : p = proc[i]
  BY DEF KeyTypes
<1>2. PICK q : q = [p EXCEPT !.public = Keys!Public(i)]
  OBVIOUS
<1>3. Keys!Public(i) \in Key /\ Keys!Document(i) \in SUBSET Key /\ Keys!Document(i) = {Keys!Public(i)} \cup p.retired
  BY <1>1, DocumentIs
<1>4. q \in Reading /\ q.private = p.private /\ q.public = Keys!Public(i) /\ q.retired = p.retired /\ q.boot = p.boot
  BY <1>1, <1>2, <1>3 DEF Reading
<1>5. proc' = [proc EXCEPT ![i] = q]
  BY <1>1, <1>2 DEF Keys!Fetch
<1>6. /\ UNCHANGED <<Keys!operation, tokens, refused>> /\ UNCHANGED <<disk, settled, restarted, made, since>>
      /\ waiting' = {t} /\ late' \in BOOLEAN
  BY DEF Keys!Fetch, Keys!operation, Keys!Reads
<1>7. /\ client' \in Clients /\ client'.fetch = Keys!Document(i) /\ client'.quiet = 0 /\ client'.keys = client.keys
      /\ client'.error = client.error /\ client'.fetch # None
  BY <1>3 DEF Keys!Fetch, KeyTypes, Clients, Keys!Settings, Key
<1>8. t \in Shown /\ (t = Keys!MadeUp \/ (t.kid = t.by /\ t.kid \in InUse))
  BY Genuine
<1>9. KeyTypes'
  BY <1>4, <1>5, <1>6, <1>7, <1>8 DEF KeyTypes
<1>10. ASSUME ~late'
       PROVE  KeysFit'
  <2>1. Keys!Public(i) = p.boot
    BY <1>1, <1>10, ReadsBoot DEF Keys!Fetch
  <2>2. InUse' = InUse
    BY <1>6 DEF InUse
  <2>3. Current(i)
    BY DEF KeysFit, ProcsOK
  <2>4. ASSUME NEW j \in Instance
        PROVE  Current(j)'
    <3>1. CASE j = i
      <4>1. proc'[j] = q
        BY <1>5, <3>1 DEF KeyTypes
      <4>. QED
        BY <1>1, <1>4, <1>6, <2>1, <2>2, <2>3, <3>1, <4>1 DEF Current
    <3>2. CASE j # i
      <4>1. proc'[j] = proc[j]
        BY <1>5, <3>2 DEF KeyTypes
      <4>. QED
        BY <1>6, <2>2, <4>1 DEF KeysFit, ProcsOK, Current
    <3>. QED
      BY <3>1, <3>2
  <2>5. InUse \subseteq Keys!Document(i)
    BY <1>1, <1>3, <2>1, <2>3 DEF Current
  <2>6. Behind(client.fetch)'
    <3> SUFFICES ASSUME disk.next # None, disk.next \notin Keys!Document(i), restarted = Instance PROVE FALSE
      BY <1>6, <1>7 DEF Behind
    <3>. QED
      BY <1>1, <1>3, <2>3 DEF Current
  <2>7. Fetched'
    BY <1>6, <1>7, <1>8, <2>2, <2>5, <2>6 DEF Fetched, Keys!Settings
  <2>8. Cached'
    BY <1>7 DEF Cached
  <2>. QED
    BY <1>6, <2>4, <2>7, <2>8, SameFiles DEF KeysFit, ProcsOK
<1>. QED
  BY <1>9, <1>10 DEF KInv

LEMMA ArriveKeeps ==
  ASSUME Keys!Settings, KeyTypes, KeysFit, Keys!Arrive
  PROVE  KInv'
<1>1. PICK c : c = [client EXCEPT !.keys = client.fetch, !.fresh = DocumentTTL, !.error = FALSE, !.fetch = None]
  OBVIOUS
<1>2. client' = c /\ client.fetch # None /\ waiting' = {}
      /\ UNCHANGED <<Keys!operation, proc, tokens, late>> /\ UNCHANGED <<disk, settled, restarted, made, since>>
      /\ refused' = (refused \/ \E t \in waiting : Keys!TurnsAway(t, c))
  BY <1>1 DEF Keys!Arrive, Keys!Answered, Keys!operation
<1>3. c \in Clients /\ c.keys = client.fetch /\ c.error = FALSE /\ c.fetch = None /\ c.quiet = client.quiet
  BY <1>1, <1>2 DEF KeyTypes, Clients, Keys!Settings
<1>4. \A t \in waiting : ~Keys!TurnsAway(t, c)
  BY <1>2, <1>3 DEF Keys!TurnsAway, KeysFit, Fetched
<1>5. ~refused' /\ refused' \in BOOLEAN
  BY <1>2, <1>4 DEF KeysFit
<1>6. KeyTypes'
  BY <1>2, <1>3, <1>5 DEF KeyTypes
<1>7. Fetched' /\ Cached'
  BY <1>2, <1>3 DEF KeysFit, Fetched, Cached, Behind, InUse
<1>8. ProcsOK'
  BY <1>2, SameProcs DEF KeysFit
<1>9. KeysFit'
  BY <1>2, <1>5, <1>7, <1>8, SameFiles
<1>. QED
  BY <1>6, <1>9 DEF KInv

LEMMA BreakKeeps ==
  ASSUME Keys!Settings, KeyTypes, KeysFit, Keys!Break \/ Keys!ProductRestart
  PROVE  KInv'
<1>1. /\ client' \in Clients /\ client'.fetch = None /\ (client'.error \/ client'.keys = {}) /\ waiting' = {}
      /\ UNCHANGED <<Keys!operation, proc, tokens, late>> /\ UNCHANGED <<disk, settled, restarted, made, since>>
      /\ ~refused' /\ refused' \in BOOLEAN
  <2>1. CASE Keys!Break
    <3>1. PICK c : c = [client EXCEPT !.error = TRUE, !.fetch = None]
      OBVIOUS
    <3>2. c \in Clients /\ c.error = TRUE /\ c.fetch = None
      BY <3>1 DEF KeyTypes, Clients
    <3>3. \A t \in waiting : ~Keys!TurnsAway(t, c)
      BY <3>2 DEF Keys!TurnsAway
    <3>. QED
      BY <2>1, <3>1, <3>2, <3>3 DEF Keys!Break, Keys!Answered, Keys!operation, KeysFit
  <2>2. CASE Keys!ProductRestart
    <3>1. Keys!Cold \in Clients /\ Keys!Cold.keys = {} /\ Keys!Cold.fetch = None
      BY ColdIs
    <3>2. client' = Keys!Cold /\ waiting' = {} /\ UNCHANGED <<Keys!operation, proc, tokens, refused, late>>
      BY <2>2 DEF Keys!ProductRestart
    <3>3. UNCHANGED <<disk, settled, restarted, made, since>>
      BY <3>2 DEF Keys!operation
    <3>4. ~refused /\ refused \in BOOLEAN
      BY DEF KeysFit, KeyTypes
    <3>. QED
      BY <3>1, <3>2, <3>3, <3>4
  <2>. QED
    BY <2>1, <2>2
<1>2. KeyTypes'
  BY <1>1 DEF KeyTypes
<1>3. Fetched' /\ Cached'
  BY <1>1 DEF Fetched, Cached
<1>4. ProcsOK'
  BY <1>1, SameProcs DEF KeysFit
<1>5. KeysFit'
  BY <1>1, <1>3, <1>4, SameFiles
<1>. QED
  BY <1>2, <1>5 DEF KInv

LEMMA TickKeeps ==
  ASSUME Keys!Settings, KeyTypes, KeysFit, Keys!Tick
  PROVE  KInv'
<1>1. since' = Keys!Older(since) /\ settled' = Keys!Older(settled) /\ UNCHANGED <<disk, made, restarted, proc, waiting, refused, late>>
  BY DEF Keys!Tick
<1>2. since' \in Nat /\ settled' \in Nat /\ settled' <= settled + 1 /\ settled \in Nat
  BY <1>1, OlderIs DEF KeyTypes
<1>3. /\ client' \in Clients /\ client'.keys = client.keys /\ client'.error = client.error /\ client'.fetch = client.fetch
      /\ client'.quiet = Keys!Older(client.quiet) /\ client.quiet \in Nat
  <2>1. PICK c \in Clients : c = client
    BY DEF KeyTypes
  <2>2. PICK f \in Nat : f = IF c.fresh = 0 THEN 0 ELSE c.fresh - 1
    BY DEF Clients
  <2>3. PICK n \in Nat : n = Keys!Older(c.quiet)
    BY OlderIs DEF Clients
  <2>4. client' = [c EXCEPT !.fresh = f, !.quiet = n]
    BY <2>1, <2>2, <2>3 DEF Keys!Tick
  <2>. QED
    BY <2>1, <2>3, <2>4 DEF Clients
<1>4. /\ client'.quiet \in Nat /\ client'.quiet <= client.quiet + 1 /\ client.quiet <= client'.quiet
      /\ (settled <= client.quiet => settled' <= client'.quiet)
  BY <1>1, <1>2, <1>3, OlderIs
<1>5. ASSUME NEW t \in tokens'
      PROVE  /\ t \in Tokens
             /\ \E s \in tokens : t.kid = s.kid /\ t.by = s.by /\ t.left = s.left - 1
  <2>1. PICK s \in tokens : s.left > 1 /\ t = [s EXCEPT !.left = @ - 1]
    BY DEF Keys!Tick
  <2>2. s \in Tokens
    BY DEF KeyTypes
  <2>. QED
    BY <2>1, <2>2 DEF Tokens, Keys!Settings
<1>6. InUse' = InUse
  BY <1>1 DEF InUse
<1>7. KeyTypes'
  BY <1>1, <1>2, <1>3, <1>5 DEF KeyTypes
<1>8. SignedOK'
  <2> SUFFICES ASSUME NEW t \in tokens' PROVE Valid(t)'
    BY DEF SignedOK
  <2>1. PICK s \in tokens : t.kid = s.kid /\ t.by = s.by /\ t.left = s.left - 1
    BY <1>5
  <2>2. s.left \in Nat /\ t.left \in Nat
    BY <1>5 DEF KeyTypes, Tokens
  <2>. QED
    BY <1>1, <1>2, <1>6, <2>1, <2>2 DEF KeysFit, SignedOK, Valid, Keys!Settings
<1>9. Fetched'
  BY <1>1, <1>3, <1>4, <1>6 DEF KeysFit, Fetched, Behind, Keys!Tick, Keys!Settings
<1>10. Cached'
  BY <1>1, <1>3, <1>4, <1>6 DEF KeysFit, Cached, Behind, Keys!Settings
<1>11. DiskOK' /\ ProcsOK'
  BY <1>1, <1>6 DEF KeysFit, DiskOK, ProcsOK, Current
<1>. QED
  BY <1>1, <1>7, <1>8, <1>9, <1>10, <1>11 DEF KInv, KeysFit

-----------------------------------------------------------------------------
LEMMA LateStays ==
  ASSUME late, [Keys!Next]_Keys!vars
  PROVE  late'
<1>1. CASE UNCHANGED Keys!vars
  BY <1>1 DEF Keys!vars
<1>2. CASE Keys!Prepare \/ Keys!Promote \/ Keys!Finish \/ Keys!Abort \/ Keys!Rollback
  BY <1>2 DEF Keys!Prepare, Keys!Promote, Keys!Finish, Keys!Abort, Keys!Rollback, Keys!MoveFiles
<1>3. ASSUME NEW i \in Instance, Keys!Restart(i) \/ Keys!Mint(i)
      PROVE  late'
  BY <1>3 DEF Keys!Restart, Keys!Mint, Keys!Reads
<1>4. ASSUME NEW t \in Keys!Presented, Keys!Judge(t) \/ Keys!Wait(t) \/ \E i \in Instance : Keys!Fetch(t, i)
      PROVE  late'
  <2>1. CASE Keys!Judge(t)
    BY <2>1 DEF Keys!Judge
  <2>2. CASE Keys!Wait(t)
    BY <2>2 DEF Keys!Wait
  <2>3. ASSUME NEW i \in Instance, Keys!Fetch(t, i)
        PROVE  late'
    <3>1. Keys!Reads(i, {"public"})
      BY <2>3 DEF Keys!Fetch
    <3>. QED
      BY <3>1 DEF Keys!Reads
  <2>. QED
    BY <1>4, <2>1, <2>2, <2>3
<1>5. CASE Keys!Arrive \/ Keys!Break \/ Keys!ProductRestart \/ Keys!Tick
  BY <1>5 DEF Keys!Arrive, Keys!Break, Keys!Answered, Keys!ProductRestart, Keys!Tick
<1>. QED
  BY <1>1, <1>2, <1>3, <1>4, <1>5 DEF Keys!Next

LEMMA NextKInv ==
  ASSUME Keys!Settings, KeyTypes, KeysFit, [Keys!Next]_Keys!vars
  PROVE  KInv'
<1>1. CASE UNCHANGED Keys!vars
  <2>1. UNCHANGED <<Keys!operation, proc, tokens, client, waiting, refused, late>> /\ UNCHANGED <<disk, settled, restarted, made, since>>
    BY <1>1 DEF Keys!vars, Keys!operation
  <2>2. KeyTypes' /\ ProcsOK' /\ Fetched' /\ Cached' /\ ~refused'
    BY <2>1 DEF KeyTypes, KeysFit, ProcsOK, Current, Fetched, Cached, Behind, InUse
  <2>. QED
    BY <2>1, <2>2, SameFiles DEF KInv
<1>2. CASE Keys!Next
  BY <1>2, PrepareKeeps, PromoteKeeps, FinishKeeps, AbortKeeps, RollbackKeeps, RestartKeeps, MintKeeps, JudgeKeeps,
     WaitKeeps, FetchKeeps, ArriveKeeps, BreakKeeps, TickKeeps DEF Keys!Next
<1>. QED
  BY <1>1, <1>2

(* No token that a service signed is turned away by a product that can get  *)
(* an answer, while keys are prepared, promoted, rolled back and retired,   *)
(* services restart one by one and documents are read late, by an operator  *)
(* who waits as long as the script says (rotate-identity-keys.sh, keys.py   *)
(* and crescent_core/jwks.py), until an instance reads its pair late (late).*)
THEOREM NoTokenTurnedAway == MCSpec => []GoodTokensPass
<1>1. MCInit => KInv
  BY IdentityAssumption, InitKInv DEF MCInit
<1>2. ASSUME KInv, [MCNext]_<<part, vars, keys, accounts>> PROVE KInv'
  <2>1. [Keys!Next]_Keys!vars
    BY <1>2 DEF MCNext, keys, Keys!vars, Keys!operation
  <2>. QED
    BY <1>2, <2>1, IdentityAssumption, NextKInv, LateStays DEF KInv
<1>3. KInv => GoodTokensPass
  <2> SUFFICES ASSUME KeyTypes, KeysFit, NEW t \in tokens, NEW i \in Instance, proc[i].public # None
               PROVE  t.kid \in Keys!Document(i)
    BY DEF KInv, GoodTokensPass, Keys!GoodTokensPass, KeysFit
  <2>1. t.kid \in {proc[i].boot} \cup proc[i].retired /\ proc[i].public = proc[i].boot
    BY DEF KeysFit, SignedOK, Valid, ProcsOK, Current
  <2>. QED
    BY <2>1, DocumentIs DEF Keys!Public
<1>. QED
  BY <1>1, <1>2, <1>3, PTL DEF MCSpec

-----------------------------------------------------------------------------
(***************************************************************************)
(* Accounts.  An invite admits nobody twice although requests overlap:     *)
(* count who may still come in by it -- the holder of its address while it *)
(* is not used, whoever a request has read as its holder and who is not a  *)
(* member, and a newcomer while nobody holds the address.  At most one at  *)
(* first; every admission takes one away, and only a departure brings one  *)
(* back.  Where requests do not overlap, what a request has read is still  *)
(* so when it commits.                                                     *)
(***************************************************************************)
AccountRecord ==
  [address: Address, active: BOOLEAN, admin: BOOLEAN, verified: BOOLEAN, onboarded: BOOLEAN,
   member: BOOLEAN, tv: Nat]

LinkRecord ==
  [kind: {"reset", "move", "invite"}, user: User \cup {None}, to: Address, tv: Nat,
   used: BOOLEAN, dead: BOOLEAN]

Visits ==
  [pc: {"reset", "move", "accept", "revoke", "register", "demote", "delete"},
   link: Link \cup {None}, user: User \cup {None}, tv: Nat, had: BOOLEAN]

(* None is nobody, no link and no row. *)
Sentinel == None \notin (User \cup Link) \cup (AccountRecord \cup LinkRecord)

LEMMA NoneIsNobody == Accounts!Settings => Sentinel
BY DEF Accounts!Settings, Sentinel, AccountRecord, LinkRecord

AccountTypes ==
  /\ account \in [User -> AccountRecord \cup {None}]
  /\ link \in [Link -> LinkRecord \cup {None}]
  /\ visit \in [Worker -> Visits \cup {Accounts!Idle}]
  /\ done \in [Link -> Nat] /\ leaves \in Nat
  /\ past \subseteq User /\ gone \subseteq User
  /\ crowded \in BOOLEAN /\ founded \in BOOLEAN

(* A request that will insert an account, and nobody else with its id.      *)
Newcomer(w) == visit[w].pc = "register" \/ (visit[w].pc = "accept" /\ ~visit[w].had)

VisitOK(w) ==
  visit[w] # Accounts!Idle =>
    /\ visit[w].pc \in {"reset", "move", "accept", "revoke"} => visit[w].link \in Link
    /\ visit[w].pc # "revoke" => visit[w].user \in User
    /\ visit[w].link \in Accounts!Sent =>
         /\ visit[w].pc = "reset" => link[visit[w].link].kind = "reset"
         /\ visit[w].pc = "move" => link[visit[w].link].kind = "move"
         /\ visit[w].pc \in {"accept", "revoke"} => link[visit[w].link].kind = "invite"
    /\ Newcomer(w) =>
         /\ account[visit[w].user] = None /\ visit[w].user \notin gone
         /\ \A v \in Worker : v # w /\ visit[v] # Accounts!Idle => visit[v].user # visit[w].user

VisitsOK == \A w \in Worker : VisitOK(w)

(* An address has one holder, an id is not used again, and a link that took *)
(* effect is marked.                                                        *)
RowsOK ==
  /\ \A u, v \in Accounts!Exists : account[u].address = account[v].address => u = v
  /\ \A u \in Accounts!Exists : u \notin gone
  /\ \A l \in Accounts!Sent : done[l] > 0 => link[l].used

(* Who may still come in by an invite: None stands for a newcomer.          *)
ReadAs(l, u) ==
  \E w \in Worker : visit[w].pc = "accept" /\ visit[w].link = l /\ visit[w].had /\ visit[w].user = u

MayEnter(l, u) ==
  /\ ~account[u].member
  /\ (~link[l].used /\ account[u].address = link[l].to) \/ ReadAs(l, u)

Entrants(l) ==
  {u \in Accounts!Exists : MayEnter(l, u)} \cup {x \in {None} : Accounts!Holder(link[l].to) = {}}

InviteOK(l) ==
  IsFiniteSet(Entrants(l)) /\ done[l] + Cardinality(Entrants(l)) <= 1 + leaves

InvitesOK == \A l \in Accounts!Sent : link[l].kind = "invite" => InviteOK(l)

(* What a request that meets no other has read is still so.                 *)
Fresh(w) ==
  /\ visit[w].pc = "reset" =>
       /\ Accounts!Presentable(visit[w].link, "reset")
       /\ visit[w].user \in Accounts!Exists /\ visit[w].tv = account[visit[w].user].tv
  /\ visit[w].pc = "move" =>
       /\ Accounts!Presentable(visit[w].link, "move") /\ link[visit[w].link].user = visit[w].user
       /\ visit[w].user \in Accounts!Exists /\ visit[w].tv = account[visit[w].user].tv
       /\ link[visit[w].link].tv = account[visit[w].user].tv
  /\ visit[w].pc = "accept" =>
       /\ Accounts!Presentable(visit[w].link, "invite")
       /\ visit[w].had => visit[w].user \in Accounts!Exists /\ visit[w].tv = account[visit[w].user].tv
  /\ visit[w].pc = "delete" => visit[w].user \in Accounts!Exists /\ ~account[visit[w].user].onboarded

AloneOK ==
  /\ \A v, w \in Worker : visit[v] # Accounts!Idle /\ visit[w] # Accounts!Idle => v = w
  /\ \A w \in Worker : visit[w] # Accounts!Idle => Fresh(w)

(* Who was in the department is there still, and known to have been.        *)
PastOK == \A u \in past : u \in Accounts!Exists /\ account[u].onboarded

(* A confirmation link is dead only if its account was bumped since.        *)
MovesOK ==
  \A l \in Accounts!Sent : link[l].kind = "move" =>
    /\ link[l].user \in Accounts!Exists /\ link[l].tv <= account[link[l].user].tv
    /\ link[l].dead => link[l].tv < account[link[l].user].tv

OnceOK == \A l \in Link : done[l] <= 1

AInv == /\ AccountTypes
        /\ VisitsOK
        /\ RowsOK
        /\ InvitesOK
        /\ ~crowded => AloneOK /\ OnceOK /\ PastOK /\ MovesOK

-----------------------------------------------------------------------------
(* Requests in hand are not idle ones. *)
LEMMA IdleFacts == Accounts!Idle.pc = "idle" /\ Accounts!Idle \notin Visits
<1>1. Accounts!Idle.pc = "idle"
  BY DEF Accounts!Idle
<1>. QED
  BY <1>1 DEF Visits

LEMMA Shapes ==
  ASSUME Sentinel, AccountTypes
  PROVE  /\ \A u \in Accounts!Exists : u \in User /\ u # None /\ account[u] \in AccountRecord
         /\ \A l \in Accounts!Sent : l \in Link /\ l # None /\ link[l] \in LinkRecord
         /\ \A w \in Worker : visit[w] # Accounts!Idle => visit[w] \in Visits /\ visit[w].pc # "idle"
         /\ \A w \in Worker : visit[w] = Accounts!Idle => visit[w].pc = "idle"
BY IdleFacts DEF Sentinel, AccountTypes, Accounts!Exists, Accounts!Sent, Visits

(* What a request that is not idle names.                                   *)
LEMMA Named ==
  ASSUME Sentinel, AInv, NEW w \in Worker, visit[w] # Accounts!Idle
  PROVE  /\ visit[w].pc \in {"reset", "move", "accept", "revoke"} => visit[w].link \in Link
         /\ visit[w].pc # "revoke" => visit[w].user \in User
         /\ visit[w].tv \in Nat /\ visit[w].had \in BOOLEAN
<1>1. visit[w] \in Visits /\ VisitOK(w)
  BY Shapes DEF AInv, VisitsOK
<1>. QED
  BY <1>1 DEF Visits, VisitOK

(* Counting: a set that gains nothing, or one, or loses one for another.    *)
LEMMA NoMore ==
  ASSUME NEW P, NEW Q, IsFiniteSet(P), Q \subseteq P
  PROVE  /\ IsFiniteSet(Q) /\ Cardinality(Q) <= Cardinality(P)
         /\ Cardinality(Q) \in Nat /\ Cardinality(P) \in Nat
BY FS_Subset, FS_CardinalityType

LEMMA OneMore ==
  ASSUME NEW P, NEW Q, NEW x, IsFiniteSet(P), Q \subseteq P \cup {x}
  PROVE  /\ IsFiniteSet(Q) /\ Cardinality(Q) <= Cardinality(P) + 1
         /\ Cardinality(Q) \in Nat /\ Cardinality(P) \in Nat
<1>1. /\ IsFiniteSet(P \cup {x}) /\ Cardinality(P) \in Nat
      /\ Cardinality(P \cup {x}) = Cardinality(P) \/ Cardinality(P \cup {x}) = Cardinality(P) + 1
  BY FS_AddElement, FS_CardinalityType
<1>2. IsFiniteSet(Q) /\ Cardinality(Q) <= Cardinality(P \cup {x}) /\ Cardinality(Q) \in Nat
  BY <1>1, FS_Subset, FS_CardinalityType
<1>. QED
  BY <1>1, <1>2

LEMMA OneLess ==
  ASSUME NEW P, NEW Q, NEW x \in P, IsFiniteSet(P), Q \subseteq P \ {x}
  PROVE  /\ IsFiniteSet(Q) /\ Cardinality(Q) + 1 <= Cardinality(P)
         /\ Cardinality(Q) \in Nat /\ Cardinality(P) \in Nat
<1>1. IsFiniteSet(P \ {x}) /\ Cardinality(P \ {x}) = Cardinality(P) - 1 /\ Cardinality(P) \in Nat
  BY FS_RemoveElement, FS_CardinalityType
<1>2. IsFiniteSet(Q) /\ Cardinality(Q) <= Cardinality(P \ {x}) /\ Cardinality(Q) \in Nat
  BY <1>1, FS_Subset, FS_CardinalityType
<1>3. Cardinality(P \ {x}) \in Nat
  BY <1>1, FS_CardinalityType
<1>. QED
  BY <1>1, <1>2, <1>3

LEMMA OneForOther ==
  ASSUME NEW P, NEW Q, NEW x \in P, NEW y, IsFiniteSet(P), Q \subseteq (P \ {x}) \cup {y}
  PROVE  /\ IsFiniteSet(Q) /\ Cardinality(Q) <= Cardinality(P)
         /\ Cardinality(Q) \in Nat /\ Cardinality(P) \in Nat
<1>1. /\ IsFiniteSet(P \ {x}) /\ Cardinality(P \ {x}) + 1 <= Cardinality(P)
      /\ Cardinality(P \ {x}) \in Nat /\ Cardinality(P) \in Nat
  BY OneLess
<1>2. IsFiniteSet(Q) /\ Cardinality(Q) <= Cardinality(P \ {x}) + 1 /\ Cardinality(Q) \in Nat
  BY <1>1, OneMore
<1>. QED
  BY <1>1, <1>2

LEMMA InitAInv == Sentinel /\ Accounts!Init => AInv
<1> SUFFICES ASSUME Sentinel, Accounts!Init PROVE AInv
  OBVIOUS
<1>1. AccountTypes
  BY DEF Accounts!Init, AccountTypes
<1>2. Accounts!Exists = {} /\ Accounts!Sent = {}
  BY DEF Accounts!Init, Accounts!Exists, Accounts!Sent
<1>3. \A w \in Worker : visit[w] = Accounts!Idle
  BY DEF Accounts!Init
<1>4. VisitsOK
  BY <1>3 DEF VisitsOK, VisitOK
<1>5. RowsOK /\ InvitesOK /\ MovesOK
  BY <1>2 DEF RowsOK, InvitesOK, MovesOK
<1>6. AloneOK /\ OnceOK /\ PastOK
  BY <1>3 DEF Accounts!Init, AloneOK, OnceOK, PastOK
<1>. QED
  BY <1>1, <1>4, <1>5, <1>6 DEF AInv

-----------------------------------------------------------------------------
(* Every step but a read leaves requests alone, or ends one; and where none *)
(* overlap, none is left.                                                   *)
Settles ==
  /\ visit' \in [Worker -> Visits \cup {Accounts!Idle}]
  /\ \A v \in Worker : visit'[v] = visit[v] \/ visit'[v] = Accounts!Idle
  /\ crowded' \in BOOLEAN
  /\ ~crowded' => ~crowded /\ \A v \in Worker : visit'[v] = Accounts!Idle

LEMMA Aside ==
  ASSUME AInv, visit' = visit, Accounts!Crowds
  PROVE  Settles
BY DEF AInv, AccountTypes, Accounts!Crowds, Accounts!Busy, Settles

LEMMA Commits ==
  ASSUME AInv, NEW w \in Worker, visit[w] # Accounts!Idle, visit' = [visit EXCEPT ![w] = Accounts!Idle],
         crowded' = crowded
  PROVE  Settles
<1>1. \A v \in Worker : visit'[v] = IF v = w THEN Accounts!Idle ELSE visit[v]
  BY DEF AInv, AccountTypes
<1>2. visit' \in [Worker -> Visits \cup {Accounts!Idle}] /\ crowded \in BOOLEAN
  BY DEF AInv, AccountTypes
<1>3. ~crowded => \A v \in Worker : v # w => visit[v] = Accounts!Idle
  BY DEF AInv, AloneOK
<1>. QED
  BY <1>1, <1>2, <1>3 DEF Settles

LEMMA AllTogether ==
  ASSUME Settles, AccountTypes', VisitsOK', RowsOK', InvitesOK',
         ~crowded' => OnceOK' /\ PastOK' /\ MovesOK'
  PROVE  AInv'
<1>1. ~crowded' => AloneOK'
  BY DEF Settles, AloneOK
<1>. QED
  BY <1>1 DEF AInv

LEMMA RequestsKept ==
  ASSUME Sentinel, AInv, Settles,
         \A w \in Worker, l \in Link :
           visit[w] # Accounts!Idle /\ visit'[w] # Accounts!Idle /\ visit[w].link = l /\ link'[l] # None
             => link[l] # None /\ link'[l].kind = link[l].kind,
         \A w \in Worker :
           visit[w] # Accounts!Idle /\ visit'[w] # Accounts!Idle /\ Newcomer(w)
             => account'[visit[w].user] = None /\ visit[w].user \notin gone'
  PROVE  VisitsOK'
<1> SUFFICES ASSUME NEW w \in Worker, visit'[w] # Accounts!Idle PROVE VisitOK(w)'
  BY DEF VisitsOK, VisitOK
<1>1. visit'[w] = visit[w] /\ visit[w] # Accounts!Idle /\ VisitOK(w)
  BY DEF Settles, AInv, VisitsOK
<1>2. \A v \in Worker : visit'[v] # Accounts!Idle => visit'[v] = visit[v] /\ visit[v] # Accounts!Idle
  BY DEF Settles
<1>3. visit'[w].link \in Accounts!Sent' => visit[w].link \in Accounts!Sent /\ link'[visit[w].link].kind = link[visit[w].link].kind
  BY <1>1 DEF Accounts!Sent
<1>4. Newcomer(w)' => Newcomer(w)
  BY <1>1 DEF Newcomer
<1>. QED
  BY <1>1, <1>2, <1>3, <1>4 DEF VisitOK

(* Nobody is read as a holder by a step that reads nothing.                 *)
LEMMA NoNewReader ==
  ASSUME Settles
  PROVE  \A l, u : ReadAs(l, u)' => ReadAs(l, u)
<1>1. \A v \in Worker : visit'[v].pc = "accept" => visit'[v] = visit[v]
  BY IdleFacts DEF Settles
<1>. QED
  BY <1>1 DEF ReadAs

(* An invite stays in order if nobody new may enter, or one after somebody  *)
(* left.                                                                    *)
LEMMA InviteKept ==
  ASSUME AInv, NEW k \in Accounts!Sent, link[k].kind = "invite", done'[k] = done[k], leaves' \in Nat,
         \/ Entrants(k)' \subseteq Entrants(k) /\ leaves' >= leaves
         \/ leaves' = leaves + 1 /\ \E x : Entrants(k)' \subseteq Entrants(k) \cup {x}
  PROVE  InviteOK(k)'
<1>1. PICK P : P = Entrants(k)
  OBVIOUS
<1>2. PICK Q : Q = Entrants(k)'
  OBVIOUS
<1>3. /\ IsFiniteSet(P) /\ done[k] + Cardinality(P) <= 1 + leaves
      /\ done[k] \in Nat /\ leaves \in Nat
  BY <1>1 DEF AInv, InvitesOK, InviteOK, AccountTypes, Accounts!Sent
<1>4. IsFiniteSet(Q) /\ done[k] + Cardinality(Q) <= 1 + leaves'
  <2>1. CASE Q \subseteq P /\ leaves' >= leaves
    <3>1. /\ IsFiniteSet(Q) /\ Cardinality(Q) <= Cardinality(P)
          /\ Cardinality(Q) \in Nat /\ Cardinality(P) \in Nat
      BY <1>3, <2>1, NoMore
    <3>. QED
      BY <1>3, <2>1, <3>1
  <2>2. CASE leaves' = leaves + 1 /\ \E x : Q \subseteq P \cup {x}
    <3>1. PICK x : Q \subseteq P \cup {x}
      BY <2>2
    <3>2. /\ IsFiniteSet(Q) /\ Cardinality(Q) <= Cardinality(P) + 1
          /\ Cardinality(Q) \in Nat /\ Cardinality(P) \in Nat
      BY <1>3, <3>1, OneMore
    <3>. QED
      BY <1>3, <2>2, <3>2
  <2>. QED
    BY <1>1, <1>2, <2>1, <2>2
<1>. QED
  BY <1>2, <1>4 DEF InviteOK

(* What a bump does to links.                                               *)
LEMMA KilledFacts ==
  ASSUME Sentinel, AccountTypes, NEW u \in User
  PROVE  /\ Accounts!Killed(u) \in [Link -> LinkRecord \cup {None}]
         /\ \A l \in Link : Accounts!Killed(u)[l] = None <=> link[l] = None
         /\ \A l \in Accounts!Sent :
              /\ Accounts!Killed(u)[l].kind = link[l].kind /\ Accounts!Killed(u)[l].user = link[l].user
              /\ Accounts!Killed(u)[l].to = link[l].to /\ Accounts!Killed(u)[l].tv = link[l].tv
              /\ Accounts!Killed(u)[l].used = link[l].used
              /\ link[l].user # u => Accounts!Killed(u)[l] = link[l]
<1>1. \A l \in Link : Accounts!Killed(u)[l] = IF l \in Accounts!Sent /\ link[l].user = u
                                       THEN [link[l] EXCEPT !.dead = TRUE] ELSE link[l]
  BY DEF Accounts!Killed
<1>2. ASSUME NEW l \in Accounts!Sent
      PROVE  /\ [link[l] EXCEPT !.dead = TRUE] \in LinkRecord
             /\ [link[l] EXCEPT !.dead = TRUE].kind = link[l].kind
             /\ [link[l] EXCEPT !.dead = TRUE].user = link[l].user
             /\ [link[l] EXCEPT !.dead = TRUE].to = link[l].to
             /\ [link[l] EXCEPT !.dead = TRUE].tv = link[l].tv
             /\ [link[l] EXCEPT !.dead = TRUE].used = link[l].used
  <2>1. link[l] \in LinkRecord
    BY Shapes
  <2>. QED
    BY <2>1 DEF LinkRecord
<1>3. \A l \in Link : l \notin Accounts!Sent => Accounts!Killed(u)[l] = link[l] /\ link[l] = None
  BY <1>1 DEF Accounts!Sent
<1>4. \A l \in Link : l \in Accounts!Sent => Accounts!Killed(u)[l] \in LinkRecord /\ Accounts!Killed(u)[l] # None /\ link[l] # None
  <2>1. \A l \in Accounts!Sent : link[l] \in LinkRecord /\ l \in Link
    BY Shapes
  <2>2. \A row \in LinkRecord : row # None
    BY DEF Sentinel
  <2>3. \A l \in Accounts!Sent : Accounts!Killed(u)[l] \in LinkRecord
    BY <1>1, <1>2, <2>1
  <2>. QED
    BY <2>1, <2>2, <2>3
<1>5. Accounts!Killed(u) \in [Link -> LinkRecord \cup {None}]
  <2>1. \A l \in Link : Accounts!Killed(u)[l] \in LinkRecord \cup {None}
    BY <1>3, <1>4
  <2>2. Accounts!Killed(u) = [l \in Link |-> Accounts!Killed(u)[l]]
    BY DEF Accounts!Killed
  <2>. QED
    BY <2>1, <2>2
<1>. QED
  BY <1>1, <1>2, <1>3, <1>4, <1>5 DEF Accounts!Sent

-----------------------------------------------------------------------------
(* Links are sent and taken back: nobody's account moves.                   *)
LEMMA SentStep ==
  ASSUME Sentinel, AInv, NEW l \in Accounts!Unsent, NEW row \in LinkRecord,
         UNCHANGED <<account, done, leaves, past, gone, founded>>, visit' = visit, Settles,
         link' \in [Link -> LinkRecord \cup {None}], link'[l] = row,
         \A k \in Link : k # l => link'[k] = None \/ link'[k] = link[k],
         ~row.used, row.kind = "move" => row.user \in Accounts!Exists /\ row.tv = account[row.user].tv /\ ~row.dead
  PROVE  AInv'
<1>1. /\ UNCHANGED <<account, done, leaves, past, gone, founded>> /\ visit' = visit
      /\ l \in Link /\ link[l] = None /\ done[l] = 0
      /\ \A w \in Worker : visit[w].pc = "idle" \/ visit[w].link # l
  BY DEF Accounts!Unsent
<1>2. Settles
  OBVIOUS
<1>3. link'[l] = row /\ \A k \in Link : k # l => link'[k] = None \/ link'[k] = link[k]
  OBVIOUS
<1>4. AccountTypes'
  BY <1>1, <1>2 DEF Settles, AInv, AccountTypes
<1>5. VisitsOK'
  <2>1. \A w \in Worker : visit[w] # Accounts!Idle => visit[w].link # l
    BY <1>1, Shapes DEF AInv
  <2>2. \A w \in Worker, k \in Link :
          visit[w] # Accounts!Idle /\ visit[w].link = k /\ link'[k] # None
            => link[k] # None /\ link'[k].kind = link[k].kind
    BY <2>1, <1>3
  <2>3. \A w \in Worker : visit[w] # Accounts!Idle /\ Newcomer(w)
          => account'[visit[w].user] = None /\ visit[w].user \notin gone'
    BY <1>1 DEF AInv, VisitsOK, VisitOK
  <2>. QED
    BY <1>2, <2>2, <2>3, RequestsKept
<1>6. RowsOK'
  BY <1>1, <1>3 DEF AInv, RowsOK, Accounts!Exists, Accounts!Sent
<1>7. InvitesOK'
  <2> SUFFICES ASSUME NEW k \in Link, link'[k] # None, link'[k].kind = "invite" PROVE InviteOK(k)'
    BY DEF InvitesOK, Accounts!Sent
  <2>1. CASE k # l
    <3>1. link'[k] = link[k] /\ k \in Accounts!Sent /\ link[k].kind = "invite"
      BY <2>1, <1>3 DEF Accounts!Sent
    <3>2. Entrants(k)' \subseteq Entrants(k)
      BY <3>1, <1>1 DEF Entrants, Accounts!Exists, MayEnter, ReadAs, Accounts!Holder
    <3>. QED
      BY <3>1, <3>2, <1>1, <1>4, InviteKept DEF AccountTypes
  <2>2. CASE k = l
    <3>1. \A u : ~ReadAs(l, u)'
      BY <1>1 DEF ReadAs
    <3>2. PICK Q : Q = Entrants(l)'
      OBVIOUS
    <3>3. Q = {u \in Accounts!Exists : ~account[u].member /\ account[u].address = row.to}
              \cup {x \in {None} : Accounts!Holder(row.to) = {}}
      <4>1. Accounts!Exists' = Accounts!Exists /\ Accounts!Holder(row.to)' = Accounts!Holder(row.to)
        BY <1>1 DEF Accounts!Exists, Accounts!Holder
      <4>2. \A u : MayEnter(l, u)' <=> ~account[u].member /\ account[u].address = row.to
        BY <3>1, <1>1, <1>3 DEF MayEnter
      <4>3. Accounts!Holder(link[l].to)' = Accounts!Holder(row.to)
        BY <1>3, <4>1 DEF Accounts!Holder
      <4>. QED
        BY <3>2, <4>1, <4>2, <4>3 DEF Entrants
    <3>4. \E x : Q \subseteq {} \cup {x}
      <4>1. CASE Accounts!Holder(row.to) = {}
        <5>1. Q \subseteq {} \cup {None}
          BY <3>3, <4>1 DEF Accounts!Holder
        <5>. QED
          BY <5>1
      <4>2. CASE Accounts!Holder(row.to) # {}
        <5>1. PICK h \in Accounts!Exists : account[h].address = row.to
          BY <4>2 DEF Accounts!Holder
        <5>2. \A u \in Accounts!Exists : account[u].address = row.to => u = h
          BY <5>1 DEF AInv, RowsOK
        <5>3. Q \subseteq {} \cup {h}
          BY <3>3, <4>2, <5>2
        <5>. QED
          BY <5>3
      <4>. QED
        BY <4>1, <4>2
    <3>5. IsFiniteSet(Q) /\ Cardinality(Q) <= 1 /\ Cardinality(Q) \in Nat
      <4>1. PICK x : Q \subseteq {} \cup {x}
        BY <3>4
      <4>2. IsFiniteSet({}) /\ Cardinality({}) = 0
        BY FS_EmptySet
      <4>3. PICK Z : Z = {}
        OBVIOUS
      <4>4. IsFiniteSet(Z) /\ Cardinality(Z) = 0 /\ Q \subseteq Z \cup {x}
        BY <4>1, <4>2, <4>3
      <4>5. IsFiniteSet(Q) /\ Cardinality(Q) <= Cardinality(Z) + 1 /\ Cardinality(Q) \in Nat
        BY <4>4, OneMore
      <4>. QED
        BY <4>4, <4>5
    <3>6. done'[l] = 0 /\ leaves' \in Nat
      BY <1>1, <1>4 DEF AccountTypes
    <3>7. InviteOK(l)'
      BY <3>2, <3>5, <3>6 DEF InviteOK
    <3>. QED
      BY <2>2, <3>7
  <2>. QED
    BY <2>1, <2>2
<1>8. ASSUME ~crowded' PROVE OnceOK' /\ PastOK' /\ MovesOK'
  <2>1. OnceOK /\ PastOK /\ MovesOK
    BY <1>2, <1>8 DEF Settles, AInv
  <2>2. OnceOK' /\ PastOK'
    BY <2>1, <1>1 DEF OnceOK, PastOK, Accounts!Exists
  <2>3. row.kind = "move" => row.tv <= account[row.user].tv
    BY Shapes DEF AInv, AccountRecord
  <2>4. MovesOK'
    BY <2>1, <2>3, <1>1, <1>3 DEF MovesOK, Accounts!Exists, Accounts!Sent
  <2>. QED
    BY <2>2, <2>4
<1>. QED
  BY <1>2, <1>4, <1>5, <1>6, <1>7, <1>8, AllTogether

LEMMA SendStep ==
  ASSUME Sentinel, AInv, NEW l \in Link, NEW row \in LinkRecord, Accounts!Send(l, row),
         ~row.used, row.kind = "move" => row.user \in Accounts!Exists /\ row.tv = account[row.user].tv /\ ~row.dead
  PROVE  AInv'
<1>1. /\ UNCHANGED <<account, done, leaves, past, gone, founded>> /\ visit' = visit /\ Accounts!Crowds
      /\ l \in Accounts!Unsent
  BY DEF Accounts!Send, Accounts!history
<1>2. Settles
  BY <1>1, Aside
<1>3. link'[l] = row /\ \A k \in Link : k # l => link'[k] = None \/ link'[k] = link[k]
  BY DEF Accounts!Send
<1>4. link' \in [Link -> LinkRecord \cup {None}]
  BY DEF Accounts!Send, AInv, AccountTypes
<1>. QED
  BY <1>1, <1>2, <1>3, <1>4, SentStep

LEMMA RowFacts ==
  ASSUME NEW kind \in {"reset", "move", "invite"}, NEW u \in User \cup {None}, NEW to \in Address,
         NEW n \in Nat
  PROVE  /\ Accounts!Row(kind, u, to, n) \in LinkRecord /\ Accounts!Row(kind, u, to, n).kind = kind
         /\ Accounts!Row(kind, u, to, n).user = u /\ Accounts!Row(kind, u, to, n).tv = n
         /\ ~Accounts!Row(kind, u, to, n).used /\ ~Accounts!Row(kind, u, to, n).dead
BY DEF Accounts!Row, LinkRecord

LEMMA RequestResetStep ==
  ASSUME Sentinel, AInv, NEW u \in User, NEW l \in Link, Accounts!RequestReset(u, l)
  PROVE  AInv'
<1>1. u \in Accounts!Exists /\ Accounts!Send(l, Accounts!Row("reset", u, account[u].address, 0))
  BY DEF Accounts!RequestReset
<1>2. account[u].address \in Address
  BY <1>1, Shapes DEF AInv, AccountRecord
<1>. QED
  BY <1>1, <1>2, RowFacts, SendStep

LEMMA RequestMoveStep ==
  ASSUME Sentinel, AInv, NEW u \in User, NEW l \in Link, NEW a \in Address, Accounts!RequestMove(u, l, a)
  PROVE  AInv'
<1>1. u \in Accounts!Exists /\ Accounts!Send(l, Accounts!Row("move", u, a, account[u].tv))
  BY DEF Accounts!RequestMove
<1>2. account[u].tv \in Nat
  BY <1>1, Shapes DEF AInv, AccountRecord
<1>. QED
  BY <1>1, <1>2, RowFacts, SendStep

LEMMA CreateInviteStep ==
  ASSUME Sentinel, AInv, NEW l \in Link, NEW a \in Address, Accounts!CreateInvite(a, l)
  PROVE  AInv'
<1>1. Accounts!Send(l, Accounts!Row("invite", None, a, 0))
  BY DEF Accounts!CreateInvite
<1>. QED
  BY <1>1, RowFacts, SendStep

LEMMA CreateInviteLateStep ==
  ASSUME Sentinel, AInv, NEW l \in Link, NEW a \in Address, Accounts!CreateInviteLate(a, l)
  PROVE  AInv'
<1>1. /\ UNCHANGED <<account, done, leaves, past, gone, founded>> /\ visit' = visit /\ crowded' = TRUE
      /\ l \in Accounts!Unsent
  BY DEF Accounts!CreateInviteLate, Accounts!history
<1>2. Settles
  BY <1>1 DEF Settles, AInv, AccountTypes
<1>3. PICK row \in LinkRecord : row = Accounts!Row("invite", None, a, 0)
  BY RowFacts
<1>4. PICK old : link' = [k \in Link |-> IF k = l THEN row ELSE IF k \in old THEN None ELSE link[k]]
  BY <1>3 DEF Accounts!CreateInviteLate
<1>5. link'[l] = row /\ \A k \in Link : k # l => link'[k] = None \/ link'[k] = link[k]
  BY <1>4
<1>6. link' \in [Link -> LinkRecord \cup {None}]
  BY <1>4 DEF AInv, AccountTypes
<1>7. ~row.used /\ row.kind # "move"
  BY <1>3, RowFacts
<1>. QED
  BY <1>1, <1>2, <1>5, <1>6, <1>7, SentStep

(* Links that move no membership are taken back, or marked.                 *)
LEMMA OthersStep ==
  ASSUME Sentinel, AInv, Settles,
         UNCHANGED <<account, done, leaves, past, gone, founded>>,
         link' \in [Link -> LinkRecord \cup {None}],
         \A k \in Link : \/ link'[k] = None
                         \/ link'[k] = link[k]
                         \/ /\ link[k] # None /\ link'[k].kind = "move" /\ link[k].kind = "move" /\ link'[k].used
                            /\ link'[k].user = link[k].user
                            /\ link'[k].tv = link[k].tv /\ link'[k].dead = link[k].dead
  PROVE  AInv'
<1>1. AccountTypes'
  BY DEF Settles, AInv, AccountTypes
<1>2. VisitsOK'
  <2>1. \A w \in Worker : visit[w] # Accounts!Idle /\ Newcomer(w)
          => account'[visit[w].user] = None /\ visit[w].user \notin gone'
    BY DEF AInv, VisitsOK, VisitOK
  <2>. QED
    BY <2>1, RequestsKept
<1>3. RowsOK'
  BY DEF AInv, RowsOK, Accounts!Exists, Accounts!Sent
<1>4. InvitesOK'
  <2> SUFFICES ASSUME NEW k \in Link, link'[k] # None, link'[k].kind = "invite" PROVE InviteOK(k)'
    BY DEF InvitesOK, Accounts!Sent
  <2>1. link'[k] = link[k] /\ k \in Accounts!Sent /\ link[k].kind = "invite"
    BY DEF Accounts!Sent
  <2>2. Entrants(k)' \subseteq Entrants(k)
    BY <2>1, NoNewReader DEF Entrants, Accounts!Exists, MayEnter, Accounts!Holder
  <2>. QED
    BY <2>1, <2>2, <1>1, InviteKept DEF AccountTypes
<1>5. ~crowded' => OnceOK' /\ PastOK' /\ MovesOK'
  BY DEF Settles, AInv, OnceOK, PastOK, MovesOK, Accounts!Exists, Accounts!Sent
<1>. QED
  BY <1>1, <1>2, <1>3, <1>4, <1>5, AllTogether

LEMMA MoveTakenStep ==
  ASSUME Sentinel, AInv, NEW u \in User, NEW a \in Address, Accounts!MoveTaken(u, a)
  PROVE  AInv'
<1>1. /\ UNCHANGED <<account, done, leaves, past, gone, founded>>
      /\ \A k \in Link : link'[k] = None \/ link'[k] = link[k]
      /\ link' \in [Link -> LinkRecord \cup {None}]
  BY DEF Accounts!MoveTaken, Accounts!history, AInv, AccountTypes
<1>2. Settles
  BY Aside DEF Accounts!MoveTaken
<1>. QED
  BY <1>1, <1>2, OthersStep

LEMMA UsedFacts ==
  ASSUME NEW r \in LinkRecord
  PROVE  /\ [r EXCEPT !.used = TRUE] \in LinkRecord /\ [r EXCEPT !.used = TRUE].used = TRUE
         /\ [r EXCEPT !.used = TRUE].kind = r.kind /\ [r EXCEPT !.used = TRUE].user = r.user
         /\ [r EXCEPT !.used = TRUE].to = r.to /\ [r EXCEPT !.used = TRUE].tv = r.tv
         /\ [r EXCEPT !.used = TRUE].dead = r.dead
BY DEF LinkRecord

LEMMA MoveRefusedStep ==
  ASSUME Sentinel, AInv, NEW l \in Link, Accounts!MoveRefused(l)
  PROVE  AInv'
<1>1. /\ UNCHANGED <<account, done, leaves, past, gone, founded>>
      /\ l \in Accounts!Sent /\ link[l].kind = "move"
      /\ link' = [link EXCEPT ![l] = [link[l] EXCEPT !.used = TRUE]]
  BY DEF Accounts!MoveRefused, Accounts!Presentable, Accounts!history
<1>2. Settles
  BY Aside DEF Accounts!MoveRefused
<1>3. link[l] \in LinkRecord /\ link[l] # None
  BY <1>1, Shapes DEF AInv, Accounts!Sent
<1>4. /\ link'[l] = [link[l] EXCEPT !.used = TRUE]
      /\ \A k \in Link : k # l => link'[k] = link[k]
      /\ link' \in [Link -> LinkRecord \cup {None}]
  BY <1>1, <1>3, UsedFacts DEF AInv, AccountTypes
<1>5. /\ link'[l].kind = "move" /\ link'[l].used /\ link'[l].user = link[l].user
      /\ link'[l].tv = link[l].tv /\ link'[l].dead = link[l].dead
  BY <1>1, <1>3, <1>4, UsedFacts
<1>. QED
  BY <1>1, <1>2, <1>3, <1>4, <1>5, OthersStep

LEMMA CommitRevokeStep ==
  ASSUME Sentinel, AInv, NEW w \in Worker, Accounts!CommitRevoke(w)
  PROVE  AInv'
<1>1. /\ UNCHANGED <<account, done, leaves, past, gone, founded, crowded>>
      /\ link' = [link EXCEPT ![visit[w].link] = None]
      /\ visit[w].pc = "revoke" /\ visit' = [visit EXCEPT ![w] = Accounts!Idle]
  BY DEF Accounts!CommitRevoke, Accounts!Ends, Accounts!history
<1>2. Settles
  BY <1>1, Commits, IdleFacts
<1>3. \A k \in Link : link'[k] = None \/ link'[k] = link[k]
  BY <1>1 DEF AInv, AccountTypes
<1>4. link' \in [Link -> LinkRecord \cup {None}]
  BY <1>1 DEF AInv, AccountTypes
<1>. QED
  BY <1>1, <1>2, <1>3, <1>4, OthersStep

LEMMA FailsStep ==
  ASSUME Sentinel, AInv, NEW w \in Worker, Accounts!Fails(w)
  PROVE  AInv'
<1>1. UNCHANGED <<account, link, done, leaves, past, gone, founded, crowded>>
  BY DEF Accounts!Fails, Accounts!history
<1>2. Settles
  BY Commits DEF Accounts!Fails
<1>3. link' \in [Link -> LinkRecord \cup {None}] /\ \A k \in Link : link'[k] = link[k]
  BY <1>1 DEF AInv, AccountTypes
<1>. QED
  BY <1>1, <1>2, <1>3, OthersStep

-----------------------------------------------------------------------------
(* Rows of links are kept: marked or dead they may become, by what happens  *)
(* to u.                                                                    *)
KeptLinks(u) ==
  /\ link' \in [Link -> LinkRecord \cup {None}]
  /\ \A k \in Link : link'[k] = None <=> link[k] = None
  /\ \A k \in Accounts!Sent :
       /\ link'[k].kind = link[k].kind /\ link'[k].user = link[k].user
       /\ link'[k].to = link[k].to /\ link'[k].tv = link[k].tv
       /\ link[k].used => link'[k].used
       /\ link[k].user # u => link'[k].dead = link[k].dead

LEMMA SameKept ==
  ASSUME AInv, link' = link
  PROVE  \A u : KeptLinks(u)
BY DEF AInv, AccountTypes, KeptLinks

LEMMA KilledKept ==
  ASSUME Sentinel, AInv, NEW u \in User, link' = Accounts!Killed(u)
  PROVE  KeptLinks(u)
<1>1. AccountTypes
  BY DEF AInv
<1>. QED
  BY <1>1, KilledFacts DEF KeptLinks

LEMMA MarkedKept ==
  ASSUME Sentinel, AInv, NEW u \in User, NEW l \in Accounts!Sent, Accounts!Marked(l, Accounts!Killed(u))
  PROVE  KeptLinks(u) /\ link'[l].used
<1>1. AccountTypes /\ l \in Link
  BY DEF AInv, Accounts!Sent
<1>2. /\ Accounts!Killed(u) \in [Link -> LinkRecord \cup {None}]
      /\ \A k \in Link : Accounts!Killed(u)[k] = None <=> link[k] = None
  BY <1>1, KilledFacts
<1>3. PICK K : K = Accounts!Killed(u)
  OBVIOUS
<1>4. K[l] \in LinkRecord
  BY <1>1, <1>2, <1>3 DEF Accounts!Sent
<1>5. link' = [K EXCEPT ![l] = [K[l] EXCEPT !.used = TRUE]]
  BY <1>3 DEF Accounts!Marked
<1>6. /\ link'[l] = [K[l] EXCEPT !.used = TRUE] /\ \A k \in Link : k # l => link'[k] = K[k]
      /\ link' \in [Link -> LinkRecord \cup {None}]
  BY <1>1, <1>2, <1>3, <1>4, <1>5, UsedFacts
<1>7. /\ link'[l] # None /\ link'[l].used
      /\ link'[l].kind = K[l].kind /\ link'[l].user = K[l].user /\ link'[l].to = K[l].to
      /\ link'[l].tv = K[l].tv /\ link'[l].dead = K[l].dead
  BY <1>4, <1>6, UsedFacts DEF Sentinel
<1>8. \A k \in Accounts!Sent :
        /\ K[k].kind = link[k].kind /\ K[k].user = link[k].user
        /\ K[k].to = link[k].to /\ K[k].tv = link[k].tv /\ K[k].used = link[k].used
        /\ link[k].user # u => K[k].dead = link[k].dead
  BY <1>1, <1>3, KilledFacts
<1>9. \A k \in Accounts!Sent : k \in Link /\ link[k] # None
  BY DEF Accounts!Sent
<1>10. \A k \in Link : link'[k] = None <=> link[k] = None
  BY <1>2, <1>3, <1>6, <1>7, <1>9
<1>11. ASSUME NEW k \in Accounts!Sent
       PROVE  /\ link'[k].kind = link[k].kind /\ link'[k].user = link[k].user
              /\ link'[k].to = link[k].to /\ link'[k].tv = link[k].tv
              /\ link[k].used => link'[k].used
              /\ link[k].user # u => link'[k].dead = link[k].dead
  <2>1. CASE k = l
    BY <1>7, <1>8, <2>1
  <2>2. CASE k # l
    BY <1>6, <1>8, <1>9, <2>2
  <2>. QED
    BY <2>1, <2>2
<1>. QED
  BY <1>6, <1>7, <1>10, <1>11 DEF KeptLinks

(* An account changes its row, not its address: by itself, or by a link l   *)
(* that takes effect.                                                       *)
Via(l, u, r) ==
  \/ /\ l = None
     /\ \/ (account[u].member => r.member) /\ leaves' = leaves
        \/ leaves' = leaves + 1
  \/ /\ l \in Accounts!Sent /\ link'[l].used /\ done'[l] = done[l] + 1 /\ leaves' = leaves
     /\ account[u].member => r.member
     /\ link[l].kind = "invite" => ReadAs(l, u) /\ ~account[u].member /\ r.member
     /\ ~crowded => done[l] = 0

LEMMA TouchStep ==
  ASSUME Sentinel, AInv, Settles, NEW u \in User, u \in Accounts!Exists, NEW r \in AccountRecord, NEW l,
         account' = [account EXCEPT ![u] = r], r.address = account[u].address,
         account[u].onboarded => r.onboarded,
         KeptLinks(u), UNCHANGED <<gone, founded>>,
         past' = past \/ (past' = past \cup {u} /\ r.onboarded),
         done' \in [Link -> Nat], \A k \in Link : k # l => done'[k] = done[k],
         Via(l, u, r),
         ~crowded => /\ account[u].tv <= r.tv
                     /\ link' = link \/ account[u].tv < r.tv
  PROVE  AInv'
<1>. USE DEF Via
<1>1. /\ account'[u] = r /\ r # None /\ account[u] # None
      /\ \A v \in User : v # u => account'[v] = account[v]
  BY DEF AInv, AccountTypes, Accounts!Exists, Sentinel
<1>2. Accounts!Exists' = Accounts!Exists
  BY <1>1 DEF Accounts!Exists
<1>3. \A v \in Accounts!Exists : account'[v].address = account[v].address
  BY <1>1 DEF Accounts!Exists
<1>4. \A a : Accounts!Holder(a)' = Accounts!Holder(a)
  BY <1>2, <1>3 DEF Accounts!Holder
<1>5. Accounts!Sent' = Accounts!Sent
  BY DEF KeptLinks, Accounts!Sent
<1>6. AccountTypes'
  <2>1. leaves' \in Nat
    BY DEF AInv, AccountTypes
  <2>2. account' \in [User -> AccountRecord \cup {None}]
    BY DEF AInv, AccountTypes
  <2>3. past' \subseteq User
    BY DEF AInv, AccountTypes
  <2>. QED
    BY <2>1, <2>2, <2>3 DEF Settles, KeptLinks, AInv, AccountTypes
<1>7. VisitsOK'
  <2>1. \A w \in Worker : visit[w] # Accounts!Idle /\ Newcomer(w)
          => account'[visit[w].user] = None /\ visit[w].user \notin gone'
    <3> SUFFICES ASSUME NEW w \in Worker, visit[w] # Accounts!Idle, Newcomer(w)
                 PROVE  account'[visit[w].user] = None /\ visit[w].user \notin gone'
      OBVIOUS
    <3>1. account[visit[w].user] = None /\ visit[w].user \notin gone /\ visit[w].user \in User
      BY Named DEF AInv, VisitsOK, VisitOK, Newcomer
    <3>. QED
      BY <3>1, <1>1
  <2>2. \A k \in Link : link'[k] # None => link[k] # None /\ link'[k].kind = link[k].kind
    BY DEF KeptLinks, Accounts!Sent
  <2>. QED
    BY <2>1, <2>2, RequestsKept
<1>8. RowsOK'
  <2>1. \A x, y \in Accounts!Exists : account'[x].address = account'[y].address => x = y
    BY <1>3 DEF AInv, RowsOK
  <2>2. \A k \in Accounts!Sent : done'[k] > 0 => link'[k].used
    <3> SUFFICES ASSUME NEW k \in Accounts!Sent, done'[k] > 0 PROVE link'[k].used
      OBVIOUS
    <3>1. CASE k = l
      BY <3>1, Shapes DEF AInv
    <3>2. CASE k # l
      <4>1. k \in Link /\ done'[k] = done[k]
        BY <3>2 DEF Accounts!Sent
      <4>. QED
        BY <4>1 DEF AInv, RowsOK, KeptLinks
    <3>. QED
      BY <3>1, <3>2
  <2>. QED
    BY <2>1, <2>2, <1>2, <1>5 DEF AInv, RowsOK
<1>9. InvitesOK'
  <2> SUFFICES ASSUME NEW k \in Accounts!Sent, link[k].kind = "invite" PROVE InviteOK(k)'
    BY <1>5 DEF InvitesOK, KeptLinks
  <2>1. /\ k \in Link /\ link'[k].to = link[k].to /\ (link[k].used => link'[k].used)
        /\ leaves \in Nat /\ leaves' \in Nat
    BY <1>6 DEF KeptLinks, Accounts!Sent, AInv, AccountTypes
  <2>2. \A x \in Accounts!Exists : x # u /\ MayEnter(k, x)' => MayEnter(k, x)
    BY <1>1, <2>1, NoNewReader DEF MayEnter, Accounts!Exists
  <2>3. (account[u].member => r.member) /\ MayEnter(k, u)' => MayEnter(k, u)
    BY <1>1, <2>1, NoNewReader DEF MayEnter, Accounts!Exists
  <2>4. Entrants(k)' \subseteq Entrants(k) \cup {u}
    BY <1>2, <1>4, <2>1, <2>2 DEF Entrants
  <2>5. (account[u].member => r.member) => Entrants(k)' \subseteq Entrants(k)
    BY <1>2, <1>4, <2>1, <2>2, <2>3 DEF Entrants
  <2>6. CASE k # l
    <3>1. done'[k] = done[k]
      BY <2>1, <2>6
    <3>2. \/ Entrants(k)' \subseteq Entrants(k) /\ leaves' >= leaves
          \/ leaves' = leaves + 1 /\ \E x : Entrants(k)' \subseteq Entrants(k) \cup {x}
      <4>1. CASE (account[u].member => r.member) /\ leaves' = leaves
        BY <4>1, <2>1, <2>5
      <4>2. CASE leaves' = leaves + 1
        BY <4>2, <2>4
      <4>. QED
        BY <4>1, <4>2
    <3>. QED
      BY <2>1, <3>1, <3>2, InviteKept
  <2>7. CASE k = l
    <3>1. /\ done'[l] = done[l] + 1 /\ leaves' = leaves /\ r.member
          /\ ReadAs(l, u) /\ ~account[u].member
      BY <2>1, <2>7 DEF Sentinel
    <3>2. u \in Entrants(l) /\ u # None
      BY <3>1 DEF Entrants, MayEnter, Sentinel
    <3>3. u \notin Entrants(l)'
      BY <3>1, <3>2, <1>1 DEF Entrants, MayEnter
    <3>4. PICK P : P = Entrants(l)
      OBVIOUS
    <3>5. PICK Q : Q = Entrants(l)'
      OBVIOUS
    <3>6. /\ Q \subseteq P \ {u} /\ u \in P /\ IsFiniteSet(P)
          /\ done[l] + Cardinality(P) <= 1 + leaves /\ done[l] \in Nat
      BY <3>1, <3>2, <3>3, <3>4, <3>5, <2>1, <2>5, <2>7 DEF AInv, InvitesOK, InviteOK, AccountTypes
    <3>7. /\ IsFiniteSet(Q) /\ Cardinality(Q) + 1 <= Cardinality(P)
          /\ Cardinality(Q) \in Nat /\ Cardinality(P) \in Nat
      BY <3>6, OneLess
    <3>8. IsFiniteSet(Q) /\ done'[l] + Cardinality(Q) <= 1 + leaves'
      BY <3>1, <3>6, <3>7, <2>1
    <3>. QED
      BY <3>5, <3>8, <2>7 DEF InviteOK
  <2>. QED
    BY <2>6, <2>7
<1>10. ASSUME ~crowded' PROVE OnceOK' /\ PastOK' /\ MovesOK'
  <2>1. ~crowded /\ OnceOK /\ PastOK /\ MovesOK
    BY <1>10 DEF Settles, AInv
  <2>2. OnceOK'
    <3>1. ASSUME NEW k \in Link PROVE done'[k] <= 1
      <4>1. CASE k # l
        BY <4>1, <2>1 DEF OnceOK
      <4>2. CASE k = l
        <5>1. done[l] = 0 /\ done'[l] = done[l] + 1
          BY <4>2, <2>1 DEF Sentinel
        <5>. QED
          BY <4>2, <5>1
      <4>. QED
        BY <4>1, <4>2
    <3>. QED
      BY <3>1 DEF OnceOK
  <2>3. PastOK'
    <3>1. \A x \in past : x \in Accounts!Exists /\ account'[x].onboarded
      BY <2>1, <1>1 DEF PastOK, Accounts!Exists
    <3>. QED
      BY <3>1, <1>1, <1>2 DEF PastOK
  <2>4. MovesOK'
    <3> SUFFICES ASSUME NEW k \in Accounts!Sent, link[k].kind = "move"
                 PROVE  /\ link[k].user \in Accounts!Exists /\ link[k].tv <= account'[link[k].user].tv
                        /\ link'[k].dead => link[k].tv < account'[link[k].user].tv
      BY <1>2, <1>5 DEF MovesOK, KeptLinks
    <3>1. /\ link[k].user \in Accounts!Exists /\ link[k].tv <= account[link[k].user].tv
          /\ link[k].dead => link[k].tv < account[link[k].user].tv
      BY <2>1 DEF MovesOK
    <3>2. CASE link[k].user # u
      BY <3>1, <3>2, <1>1 DEF KeptLinks, Accounts!Exists
    <3>3. CASE link[k].user = u
      <4>1. link[k].tv \in Nat /\ account[u].tv \in Nat /\ r.tv \in Nat
        BY Shapes DEF AInv, LinkRecord, AccountRecord
      <4>2. account[u].tv <= r.tv /\ (link' = link \/ account[u].tv < r.tv)
        BY <2>1
      <4>3. link[k].tv <= r.tv
        BY <3>1, <3>3, <4>1, <4>2
      <4>4. link'[k].dead => link[k].tv < r.tv
        BY <3>1, <3>3, <4>1, <4>2
      <4>. QED
        BY <3>1, <3>3, <4>3, <4>4, <1>1
    <3>. QED
      BY <3>2, <3>3
  <2>. QED
    BY <2>2, <2>3, <2>4
<1>. QED
  BY <1>6, <1>7, <1>8, <1>9, <1>10, AllTogether

(* Rows of accounts that change.                                            *)
LEMMA RecordFacts ==
  ASSUME NEW r \in AccountRecord, NEW n \in Nat, NEW b \in BOOLEAN
  PROVE  /\ [r EXCEPT !.tv = n] \in AccountRecord
         /\ [r EXCEPT !.tv = n].tv = n /\ [r EXCEPT !.tv = n].address = r.address
         /\ [r EXCEPT !.tv = n].onboarded = r.onboarded /\ [r EXCEPT !.tv = n].member = r.member
         /\ [r EXCEPT !.active = b] \in AccountRecord
         /\ [r EXCEPT !.active = b].tv = r.tv /\ [r EXCEPT !.active = b].address = r.address
         /\ [r EXCEPT !.active = b].onboarded = r.onboarded
         /\ [r EXCEPT !.active = b].member = r.member
         /\ [r EXCEPT !.admin = b] \in AccountRecord
         /\ [r EXCEPT !.admin = b].tv = r.tv /\ [r EXCEPT !.admin = b].address = r.address
         /\ [r EXCEPT !.admin = b].onboarded = r.onboarded
         /\ [r EXCEPT !.admin = b].member = r.member
         /\ [r EXCEPT !.member = b] \in AccountRecord
         /\ [r EXCEPT !.member = b].tv = r.tv /\ [r EXCEPT !.member = b].address = r.address
         /\ [r EXCEPT !.member = b].onboarded = r.onboarded
         /\ [r EXCEPT !.member = b].member = b
BY DEF AccountRecord

BumpedRow(u) == [account[u] EXCEPT !.tv = account[u].tv + 1]

LEMMA BumpedFacts ==
  ASSUME Sentinel, AInv, NEW u \in Accounts!Exists
  PROVE  /\ u \in User /\ account[u] \in AccountRecord /\ account[u].tv \in Nat
         /\ BumpedRow(u) \in AccountRecord
         /\ BumpedRow(u).address = account[u].address
         /\ BumpedRow(u).onboarded = account[u].onboarded
         /\ BumpedRow(u).member = account[u].member
         /\ account[u].tv < BumpedRow(u).tv
         /\ Accounts!Bumped(u) = [account EXCEPT ![u] = BumpedRow(u)]
<1>1. u \in User /\ account[u] \in AccountRecord /\ account[u].tv \in Nat
  BY Shapes DEF AInv, AccountRecord
<1>2. PICK n : n = account[u].tv + 1
  OBVIOUS
<1>3. n \in Nat /\ account[u].tv < n
  BY <1>1, <1>2
<1>4. PICK r : r = account[u]
  OBVIOUS
<1>5. BumpedRow(u) = [r EXCEPT !.tv = n]
  BY <1>2, <1>4 DEF BumpedRow
<1>6. /\ [r EXCEPT !.tv = n] \in AccountRecord /\ [r EXCEPT !.tv = n].tv = n
      /\ [r EXCEPT !.tv = n].address = r.address /\ [r EXCEPT !.tv = n].onboarded = r.onboarded
      /\ [r EXCEPT !.tv = n].member = r.member
  BY <1>1, <1>3, <1>4 DEF AccountRecord
<1>7. Accounts!Bumped(u) = [account EXCEPT ![u] = BumpedRow(u)]
  BY DEF Accounts!Bumped, BumpedRow
<1>. QED
  BY <1>1, <1>3, <1>4, <1>5, <1>6, <1>7

(* By itself: no link takes effect.                                         *)
LEMMA TouchAlone ==
  ASSUME Sentinel, AInv, Settles, NEW u \in Accounts!Exists, NEW r \in AccountRecord,
         account' = [account EXCEPT ![u] = r], r.address = account[u].address,
         account[u].onboarded => r.onboarded,
         \/ link' = link /\ account[u].tv <= r.tv
         \/ link' = Accounts!Killed(u) /\ account[u].tv < r.tv,
         UNCHANGED <<done, past, gone, founded>>,
         \/ (account[u].member => r.member) /\ leaves' = leaves
         \/ leaves' = leaves + 1
  PROVE  AInv'
<1>1. u \in User /\ account[u].tv \in Nat /\ r.tv \in Nat
  BY Shapes DEF AInv, AccountRecord
<1>2. KeptLinks(u)
  BY <1>1, SameKept, KilledKept
<1>3. account[u].tv <= r.tv /\ (link' = link \/ account[u].tv < r.tv)
  BY <1>1
<1>4. done' \in [Link -> Nat] /\ \A k \in Link : k # None => done'[k] = done[k]
  BY DEF AInv, AccountTypes
<1>5. Via(None, u, r)
  BY DEF Via
<1>. QED
  BY <1>1, <1>2, <1>3, <1>4, <1>5, TouchStep

LEMMA RevokeStep ==
  ASSUME Sentinel, AInv, NEW u \in User, Accounts!Revoke(u)
  PROVE  AInv'
<1>1. u \in Accounts!Exists /\ account' = Accounts!Bumped(u) /\ link' = Accounts!Killed(u)
      /\ UNCHANGED <<done, leaves, past, gone, founded>>
  BY DEF Accounts!Revoke, Accounts!Quiet
<1>2. Settles
  BY Aside DEF Accounts!Revoke, Accounts!Quiet
<1>3. PICK r : r = BumpedRow(u)
  OBVIOUS
<1>4. /\ r \in AccountRecord /\ account' = [account EXCEPT ![u] = r]
      /\ r.address = account[u].address /\ r.onboarded = account[u].onboarded
      /\ r.member = account[u].member /\ account[u].tv < r.tv
  BY <1>1, <1>3, BumpedFacts
<1>. QED
  BY <1>1, <1>2, <1>4, TouchAlone

LEMMA DeactivateStep ==
  ASSUME Sentinel, AInv, NEW by \in User, NEW u \in User, Accounts!Deactivate(by, u)
  PROVE  AInv'
<1>1. u \in Accounts!Exists /\ account' = [Accounts!Bumped(u) EXCEPT ![u].active = FALSE] /\ link' = Accounts!Killed(u)
      /\ UNCHANGED <<done, leaves, past, gone, founded>>
  BY DEF Accounts!Deactivate, Accounts!Quiet
<1>2. Settles
  BY Aside DEF Accounts!Deactivate, Accounts!Quiet
<1>3. PICK q : q = BumpedRow(u)
  OBVIOUS
<1>4. PICK r : r = [q EXCEPT !.active = FALSE]
  OBVIOUS
<1>5. /\ q \in AccountRecord /\ Accounts!Bumped(u) = [account EXCEPT ![u] = q]
      /\ q.address = account[u].address /\ q.onboarded = account[u].onboarded
      /\ q.member = account[u].member /\ account[u].tv < q.tv
  BY <1>1, <1>3, BumpedFacts
<1>6. account' = [account EXCEPT ![u] = r]
  BY <1>1, <1>4, <1>5 DEF AInv, AccountTypes
<1>7. /\ r \in AccountRecord /\ r.address = q.address /\ r.onboarded = q.onboarded
      /\ r.member = q.member /\ r.tv = q.tv
  BY <1>4, <1>5, RecordFacts
<1>. QED
  BY <1>1, <1>2, <1>5, <1>6, <1>7, TouchAlone

LEMMA GrantStep ==
  ASSUME Sentinel, AInv, NEW u \in User, Accounts!Grant(u)
  PROVE  AInv'
<1>1. u \in Accounts!Exists /\ account' = [Accounts!Bumped(u) EXCEPT ![u].admin = TRUE] /\ link' = Accounts!Killed(u)
      /\ UNCHANGED <<done, leaves, past, gone, founded>>
  BY DEF Accounts!Grant, Accounts!Quiet
<1>2. Settles
  BY Aside DEF Accounts!Grant, Accounts!Quiet
<1>3. PICK q : q = BumpedRow(u)
  OBVIOUS
<1>4. PICK r : r = [q EXCEPT !.admin = TRUE]
  OBVIOUS
<1>5. /\ q \in AccountRecord /\ Accounts!Bumped(u) = [account EXCEPT ![u] = q]
      /\ q.address = account[u].address /\ q.onboarded = account[u].onboarded
      /\ q.member = account[u].member /\ account[u].tv < q.tv
  BY <1>1, <1>3, BumpedFacts
<1>6. account' = [account EXCEPT ![u] = r]
  BY <1>1, <1>4, <1>5 DEF AInv, AccountTypes
<1>7. /\ r \in AccountRecord /\ r.address = q.address /\ r.onboarded = q.onboarded
      /\ r.member = q.member /\ r.tv = q.tv
  BY <1>4, <1>5, RecordFacts
<1>. QED
  BY <1>1, <1>2, <1>5, <1>6, <1>7, TouchAlone

LEMMA CommitDemoteStep ==
  ASSUME Sentinel, AInv, NEW w \in Worker, Accounts!CommitDemote(w)
  PROVE  AInv'
<1>0. PICK u : u = visit[w].user
  OBVIOUS
<1>1. u \in Accounts!Exists /\ account' = [Accounts!Bumped(u) EXCEPT ![u].admin = FALSE] /\ link' = Accounts!Killed(u)
      /\ UNCHANGED <<done, leaves, past, gone, founded>>
  BY <1>0 DEF Accounts!CommitDemote, Accounts!history
<1>2. Settles
  BY Commits, IdleFacts DEF Accounts!CommitDemote, Accounts!Ends
<1>3. PICK q : q = BumpedRow(u)
  OBVIOUS
<1>4. PICK r : r = [q EXCEPT !.admin = FALSE]
  OBVIOUS
<1>5. /\ q \in AccountRecord /\ Accounts!Bumped(u) = [account EXCEPT ![u] = q]
      /\ q.address = account[u].address /\ q.onboarded = account[u].onboarded
      /\ q.member = account[u].member /\ account[u].tv < q.tv
  BY <1>1, <1>3, BumpedFacts
<1>6. account' = [account EXCEPT ![u] = r]
  BY <1>1, <1>4, <1>5 DEF AInv, AccountTypes
<1>7. /\ r \in AccountRecord /\ r.address = q.address /\ r.onboarded = q.onboarded
      /\ r.member = q.member /\ r.tv = q.tv
  BY <1>4, <1>5, RecordFacts
<1>. QED
  BY <1>1, <1>2, <1>5, <1>6, <1>7, TouchAlone

LEMMA LeaveStep ==
  ASSUME Sentinel, AInv, NEW u \in User, Accounts!Leave(u)
  PROVE  AInv'
<1>1. u \in Accounts!Exists /\ account' = [Accounts!Bumped(u) EXCEPT ![u].member = FALSE] /\ link' = Accounts!Killed(u)
      /\ UNCHANGED <<done, past, gone, founded>> /\ leaves' = leaves + 1
  BY DEF Accounts!Leave
<1>2. Settles
  BY Aside DEF Accounts!Leave
<1>3. PICK q : q = BumpedRow(u)
  OBVIOUS
<1>4. PICK r : r = [q EXCEPT !.member = FALSE]
  OBVIOUS
<1>5. /\ q \in AccountRecord /\ Accounts!Bumped(u) = [account EXCEPT ![u] = q]
      /\ q.address = account[u].address /\ q.onboarded = account[u].onboarded
      /\ account[u].tv < q.tv
  BY <1>1, <1>3, BumpedFacts
<1>6. account' = [account EXCEPT ![u] = r]
  BY <1>1, <1>4, <1>5 DEF AInv, AccountTypes
<1>7. /\ r \in AccountRecord /\ r.address = q.address /\ r.onboarded = q.onboarded /\ r.tv = q.tv
  BY <1>4, <1>5, RecordFacts
<1>. QED
  BY <1>1, <1>2, <1>5, <1>6, <1>7, TouchAlone

LEMMA ReactivateStep ==
  ASSUME Sentinel, AInv, NEW u \in User, Accounts!Reactivate(u)
  PROVE  AInv'
<1>1. u \in Accounts!Exists /\ account' = [account EXCEPT ![u].active = TRUE]
      /\ UNCHANGED <<link, done, leaves, past, gone, founded>>
  BY DEF Accounts!Reactivate, Accounts!Quiet
<1>2. Settles
  BY Aside DEF Accounts!Reactivate, Accounts!Quiet
<1>3. PICK r : r = [account[u] EXCEPT !.active = TRUE]
  OBVIOUS
<1>4. account' = [account EXCEPT ![u] = r]
  BY <1>1, <1>3
<1>5. account[u] \in AccountRecord /\ account[u].tv \in Nat
  BY <1>1, BumpedFacts
<1>6. /\ r \in AccountRecord /\ r.address = account[u].address
      /\ r.onboarded = account[u].onboarded /\ r.member = account[u].member /\ r.tv = account[u].tv
  BY <1>3, <1>5, RecordFacts
<1>7. account[u].tv <= r.tv /\ link' = link
  BY <1>1, <1>5, <1>6
<1>. QED
  BY <1>1, <1>2, <1>4, <1>6, <1>7, TouchAlone

(* What took effect was never used before, where requests do not overlap.   *)
LEMMA UnusedNotDone ==
  ASSUME Sentinel, AInv, NEW l \in Accounts!Sent, ~link[l].used
  PROVE  done[l] = 0
<1>1. l \in Link /\ done[l] \in Nat
  BY DEF AInv, AccountTypes, Accounts!Sent
<1>. QED
  BY <1>1 DEF AInv, RowsOK

(* A link takes effect on the account that was read with it.                *)
TakesEffect(w, l, u, r) ==
  /\ visit[w] # Accounts!Idle /\ visit' = [visit EXCEPT ![w] = Accounts!Idle]
  /\ Accounts!Marked(l, Accounts!Killed(u)) /\ Accounts!TookEffect(l)
  /\ UNCHANGED <<leaves, gone, founded, crowded>>
  /\ account' = [account EXCEPT ![u] = r]
  /\ r.address = account[u].address /\ r.tv = visit[w].tv + 1
  /\ account[u].onboarded => r.onboarded
  /\ account[u].member => r.member
  /\ past' = past \/ (past' = past \cup {u} /\ r.onboarded)
  /\ link[l].kind = "invite" => ReadAs(l, u) /\ ~account[u].member /\ r.member
  /\ ~crowded => ~link[l].used /\ visit[w].tv = account[u].tv

LEMMA EffectStep ==
  ASSUME Sentinel, AInv, NEW w \in Worker, NEW l \in Accounts!Sent, NEW u \in Accounts!Exists,
         NEW r \in AccountRecord, TakesEffect(w, l, u, r)
  PROVE  AInv'
<1>. USE DEF TakesEffect
<1>1. Settles
  BY Commits
<1>2. u \in User /\ account[u].tv \in Nat /\ l \in Link
  BY BumpedFacts DEF Accounts!Sent
<1>3. KeptLinks(u) /\ link'[l].used
  BY <1>2, MarkedKept
<1>4. /\ done' \in [Link -> Nat] /\ done'[l] = done[l] + 1
      /\ \A k \in Link : k # l => done'[k] = done[k]
  BY <1>2 DEF Accounts!TookEffect, AInv, AccountTypes
<1>5. ~crowded => account[u].tv <= r.tv /\ (link' = link \/ account[u].tv < r.tv)
  BY <1>2
<1>6. ~crowded => done[l] = 0
  BY UnusedNotDone
<1>7. Via(l, u, r)
  BY <1>3, <1>4, <1>6 DEF Via
<1>. QED
  BY <1>1, <1>2, <1>3, <1>4, <1>5, <1>7, TouchStep

LEMMA CommitResetStep ==
  ASSUME Sentinel, AInv, NEW w \in Worker, Accounts!CommitReset(w)
  PROVE  AInv'
<1>0. PICK l, u : l = visit[w].link /\ u = visit[w].user
  OBVIOUS
<1>1. /\ visit[w].pc = "reset" /\ visit' = [visit EXCEPT ![w] = Accounts!Idle] /\ l \in Accounts!Sent /\ u \in Accounts!Exists
      /\ account' = [account EXCEPT ![u].tv = visit[w].tv + 1]
      /\ Accounts!Marked(l, Accounts!Killed(u)) /\ Accounts!TookEffect(l)
      /\ UNCHANGED <<leaves, past, gone, founded, crowded>>
  BY <1>0 DEF Accounts!CommitReset, Accounts!Ends, Accounts!history
<1>2. visit[w] # Accounts!Idle
  BY <1>1, IdleFacts
<1>3. visit[w].tv \in Nat /\ link[l].kind = "reset"
  BY <1>0, <1>1, <1>2, Named DEF AInv, VisitsOK, VisitOK
<1>4. PICK n : n = visit[w].tv + 1
  OBVIOUS
<1>5. PICK r : r = [account[u] EXCEPT !.tv = n]
  OBVIOUS
<1>6. account' = [account EXCEPT ![u] = r]
  BY <1>1, <1>4, <1>5
<1>7. account[u] \in AccountRecord /\ n \in Nat
  BY <1>1, <1>3, <1>4, BumpedFacts
<1>8. /\ r \in AccountRecord /\ r.tv = n /\ r.address = account[u].address
      /\ r.onboarded = account[u].onboarded /\ r.member = account[u].member
  BY <1>5, <1>7, RecordFacts
<1>9. ~crowded => ~link[l].used /\ visit[w].tv = account[u].tv
  BY <1>0, <1>1, <1>2 DEF AInv, AloneOK, Fresh, Accounts!Presentable
<1>10. TakesEffect(w, l, u, r)
  BY <1>1, <1>2, <1>3, <1>4, <1>6, <1>8, <1>9 DEF TakesEffect
<1>. QED
  BY <1>1, <1>8, <1>10, EffectStep

LEMMA MemberFacts ==
  ASSUME NEW r \in AccountRecord, NEW n \in Nat
  PROVE  /\ [r EXCEPT !.member = TRUE, !.onboarded = TRUE, !.tv = n] \in AccountRecord
         /\ [r EXCEPT !.member = TRUE, !.onboarded = TRUE, !.tv = n].tv = n
         /\ [r EXCEPT !.member = TRUE, !.onboarded = TRUE, !.tv = n].address = r.address
         /\ [r EXCEPT !.member = TRUE, !.onboarded = TRUE, !.tv = n].member = TRUE
         /\ [r EXCEPT !.member = TRUE, !.onboarded = TRUE, !.tv = n].onboarded = TRUE
BY DEF AccountRecord

(* An invite is accepted for the account that its address has.              *)
LEMMA CommitAcceptHeldStep ==
  ASSUME Sentinel, AInv, NEW w \in Worker, Accounts!CommitAccept(w), visit[w].had
  PROVE  AInv'
<1>0. PICK l, u : l = visit[w].link /\ u = visit[w].user
  OBVIOUS
<1>1. /\ visit[w].pc = "accept" /\ visit' = [visit EXCEPT ![w] = Accounts!Idle] /\ l \in Accounts!Sent
      /\ u \in Accounts!Exists /\ ~account[u].member
      /\ Accounts!Marked(l, Accounts!Killed(u)) /\ Accounts!TookEffect(l) /\ past' = past \cup {u}
      /\ UNCHANGED <<leaves, gone, founded, crowded>>
  BY <1>0 DEF Accounts!CommitAccept, Accounts!Ends
<1>2. account' = [account EXCEPT ![u] =
                    [account[u] EXCEPT !.member = TRUE, !.onboarded = TRUE, !.tv = visit[w].tv + 1]]
  BY <1>0 DEF Accounts!CommitAccept
<1>3. visit[w] # Accounts!Idle
  BY <1>1, IdleFacts
<1>4. PICK n : n = visit[w].tv + 1
  OBVIOUS
<1>5. PICK r : r = [account[u] EXCEPT !.member = TRUE, !.onboarded = TRUE, !.tv = n]
  OBVIOUS
<1>6. account' = [account EXCEPT ![u] = r]
  BY <1>2, <1>4, <1>5
<1>7. account[u] \in AccountRecord /\ n \in Nat
  BY <1>1, <1>3, <1>4, Named, BumpedFacts
<1>8. r \in AccountRecord /\ r.tv = n /\ r.address = account[u].address /\ r.member /\ r.onboarded
  BY <1>5, <1>7, MemberFacts, Zenon
<1>9. ~crowded => ~link[l].used /\ visit[w].tv = account[u].tv
  BY <1>0, <1>1, <1>3 DEF AInv, AloneOK, Fresh, Accounts!Presentable
<1>10. ReadAs(l, u)
  BY <1>0, <1>1 DEF ReadAs
<1>11. TakesEffect(w, l, u, r)
  BY <1>1, <1>3, <1>4, <1>6, <1>8, <1>9, <1>10 DEF TakesEffect
<1>. QED
  BY <1>1, <1>8, <1>11, EffectStep

-----------------------------------------------------------------------------
(* An account comes about at an address that nobody holds: by signing up,   *)
(* as the first administrator, or by a link l that takes effect.            *)
BornBy(l, u, r) ==
  \/ l = None /\ done' = done
  \/ /\ l \in Accounts!Sent /\ link'[l].used /\ Accounts!TookEffect(l)
     /\ link[l].to = r.address /\ r.member
     /\ ~crowded => done[l] = 0

LEMMA BornStep ==
  ASSUME Sentinel, AInv, Settles, NEW u \in User, account[u] = None, u \notin gone,
         NEW r \in AccountRecord, NEW l, BornBy(l, u, r), Accounts!Holder(r.address) = {},
         account' = [account EXCEPT ![u] = r], KeptLinks(u),
         UNCHANGED <<leaves, gone>>, founded' \in BOOLEAN,
         past' = past \/ (past' = past \cup {u} /\ r.onboarded),
         \A w \in Worker : visit'[w] # Accounts!Idle /\ Newcomer(w) => visit[w].user # u,
         r.member \/ \A w \in Worker : visit[w] # Accounts!Idle => visit[w].user # u
  PROVE  AInv'
<1>1. /\ account'[u] = r /\ r # None
      /\ \A v \in User : v # u => account'[v] = account[v]
  BY DEF AInv, AccountTypes, Sentinel
<1>2. Accounts!Exists' = Accounts!Exists \cup {u} /\ u \notin Accounts!Exists
  BY <1>1 DEF Accounts!Exists
<1>3. \A v \in Accounts!Exists : account'[v] = account[v]
  BY <1>1 DEF Accounts!Exists
<1>4. /\ \A a : a # r.address => Accounts!Holder(a)' = Accounts!Holder(a)
      /\ Accounts!Holder(r.address)' = {u}
      /\ \A v \in Accounts!Exists : account[v].address # r.address
  BY <1>1, <1>2, <1>3 DEF Accounts!Holder
<1>5. Accounts!Sent' = Accounts!Sent
  BY DEF KeptLinks, Accounts!Sent
<1>6. /\ done' \in [Link -> Nat] /\ \A k \in Link : k # l => done'[k] = done[k]
      /\ l # None => l \in Accounts!Sent /\ l \in Link /\ link'[l].used /\ done'[l] = done[l] + 1
                     /\ link[l].to = r.address /\ r.member /\ (~crowded => done[l] = 0)
      /\ l = None => done' = done
  BY DEF BornBy, Accounts!TookEffect, AInv, AccountTypes, Accounts!Sent, Sentinel
<1>7. AccountTypes'
  <2>1. account' \in [User -> AccountRecord \cup {None}]
    BY DEF AInv, AccountTypes
  <2>2. past' \subseteq User
    BY DEF AInv, AccountTypes
  <2>. QED
    BY <2>1, <2>2, <1>6 DEF Settles, KeptLinks, AInv, AccountTypes
<1>8. VisitsOK'
  <2>1. \A w \in Worker : visit[w] # Accounts!Idle /\ visit'[w] # Accounts!Idle /\ Newcomer(w)
          => account'[visit[w].user] = None /\ visit[w].user \notin gone'
    <3> SUFFICES ASSUME NEW w \in Worker, visit[w] # Accounts!Idle, visit'[w] # Accounts!Idle, Newcomer(w)
                 PROVE  account'[visit[w].user] = None /\ visit[w].user \notin gone'
      OBVIOUS
    <3>1. /\ account[visit[w].user] = None /\ visit[w].user \notin gone /\ visit[w].user \in User
          /\ visit[w].user # u
      BY Named DEF AInv, VisitsOK, VisitOK, Newcomer
    <3>. QED
      BY <3>1, <1>1
  <2>2. \A k \in Link : link'[k] # None => link[k] # None /\ link'[k].kind = link[k].kind
    BY DEF KeptLinks, Accounts!Sent
  <2>. QED
    BY <2>1, <2>2, RequestsKept
<1>9. RowsOK'
  <2>1. \A x, y \in Accounts!Exists' : account'[x].address = account'[y].address => x = y
    BY <1>1, <1>2, <1>3, <1>4 DEF AInv, RowsOK
  <2>2. \A k \in Accounts!Sent : done'[k] > 0 => link'[k].used
    <3> SUFFICES ASSUME NEW k \in Accounts!Sent, done'[k] > 0 PROVE link'[k].used
      OBVIOUS
    <3>0. k \in Link /\ k # None
      BY DEF Accounts!Sent, Sentinel
    <3>1. CASE k = l
      BY <3>0, <3>1, <1>6
    <3>2. CASE k # l
      <4>1. done'[k] = done[k]
        BY <3>0, <3>2, <1>6
      <4>. QED
        BY <4>1 DEF AInv, RowsOK, KeptLinks
    <3>. QED
      BY <3>1, <3>2
  <2>3. \A x \in Accounts!Exists' : x \notin gone'
    BY <1>2 DEF AInv, RowsOK
  <2>. QED
    BY <2>1, <2>2, <2>3, <1>5 DEF RowsOK
<1>10. InvitesOK'
  <2> SUFFICES ASSUME NEW k \in Accounts!Sent, link[k].kind = "invite" PROVE InviteOK(k)'
    BY <1>5 DEF InvitesOK, KeptLinks
  <2>1. /\ k \in Link /\ link'[k].to = link[k].to /\ (link[k].used => link'[k].used)
        /\ leaves \in Nat /\ leaves' = leaves /\ k # None
    BY DEF KeptLinks, Accounts!Sent, AInv, AccountTypes, Sentinel
  <2>2. \A x \in Accounts!Exists : MayEnter(k, x)' => MayEnter(k, x)
    BY <1>3, <2>1, NoNewReader DEF MayEnter
  <2>3. MayEnter(k, u)' => link[k].to = r.address /\ ~r.member
    <3>1. ~r.member => ~ReadAs(k, u)
      BY IdleFacts DEF ReadAs
    <3>. QED
      BY <3>1, <1>1, <2>1, NoNewReader DEF MayEnter
  <2>4. CASE link[k].to # r.address
    <3>1. Accounts!Holder(link[k].to)' = Accounts!Holder(link[k].to)
      BY <2>1, <2>4, <1>4
    <3>2. Entrants(k)' \subseteq Entrants(k)
      BY <3>1, <2>2, <2>3, <2>4, <1>2 DEF Entrants
    <3>3. k # l
      BY <2>1, <2>4, <1>6
    <3>. QED
      BY <3>2, <3>3, <2>1, <1>6, InviteKept
  <2>5. CASE link[k].to = r.address
    <3>1. PICK P : P = Entrants(k)
      OBVIOUS
    <3>2. PICK Q : Q = Entrants(k)'
      OBVIOUS
    <3>3. None \in P
      BY <3>1, <2>5 DEF Entrants
    <3>4. /\ Q \subseteq (P \ {None}) \cup {u}
          /\ r.member => Q \subseteq P \ {None}
      <4>1. Accounts!Holder(link[k].to)' # {} /\ None \notin Accounts!Exists'
        BY <2>1, <2>5, <1>4 DEF Accounts!Exists, Sentinel
      <4>2. \A x \in Q : x \in Accounts!Exists' /\ MayEnter(k, x)'
        BY <3>2, <4>1 DEF Entrants
      <4>3. \A x \in Accounts!Exists : MayEnter(k, x) => x \in P
        BY <3>1 DEF Entrants
      <4>4. \A x \in Q : x # None
        BY <4>1, <4>2
      <4>5. \A x \in Q : x # u => x \in P
        BY <4>2, <4>3, <2>2, <1>2
      <4>6. r.member => u \notin Q
        BY <4>2, <2>3
      <4>. QED
        BY <4>4, <4>5, <4>6
    <3>5. /\ IsFiniteSet(P) /\ done[k] + Cardinality(P) <= 1 + leaves
          /\ done[k] \in Nat
      BY <3>1, <2>1 DEF AInv, InvitesOK, InviteOK, AccountTypes
    <3>6. /\ IsFiniteSet(Q) /\ Cardinality(Q) <= Cardinality(P)
          /\ Cardinality(Q) \in Nat /\ Cardinality(P) \in Nat
      BY <3>3, <3>4, <3>5, OneForOther
    <3>7. r.member => Cardinality(Q) + 1 <= Cardinality(P)
      BY <3>3, <3>4, <3>5, OneLess
    <3>8. done'[k] + Cardinality(Q) <= 1 + leaves'
      <4>1. CASE k = l
        BY <4>1, <3>5, <3>6, <3>7, <2>1, <1>6
      <4>2. CASE k # l
        BY <4>2, <3>5, <3>6, <2>1, <1>6
      <4>. QED
        BY <4>1, <4>2
    <3>. QED
      BY <3>2, <3>6, <3>8 DEF InviteOK
  <2>. QED
    BY <2>4, <2>5
<1>11. ASSUME ~crowded' PROVE OnceOK' /\ PastOK' /\ MovesOK'
  <2>1. ~crowded /\ OnceOK /\ PastOK /\ MovesOK
    BY <1>11 DEF Settles, AInv
  <2>2. OnceOK'
    <3>1. ASSUME NEW k \in Link PROVE done'[k] <= 1
      <4>1. CASE k # l
        BY <4>1, <2>1, <1>6 DEF OnceOK
      <4>2. CASE k = l
        BY <4>2, <2>1, <1>6 DEF Sentinel
      <4>. QED
        BY <4>1, <4>2
    <3>. QED
      BY <3>1 DEF OnceOK
  <2>3. PastOK'
    BY <2>1, <1>1, <1>2, <1>3 DEF PastOK
  <2>4. MovesOK'
    <3> SUFFICES ASSUME NEW k \in Accounts!Sent, link[k].kind = "move"
                 PROVE  /\ link[k].user \in Accounts!Exists /\ link[k].tv <= account'[link[k].user].tv
                        /\ link'[k].dead => link[k].tv < account'[link[k].user].tv
      BY <1>2, <1>5 DEF MovesOK, KeptLinks
    <3>1. /\ link[k].user \in Accounts!Exists /\ link[k].tv <= account[link[k].user].tv
          /\ link[k].dead => link[k].tv < account[link[k].user].tv
      BY <2>1 DEF MovesOK
    <3>2. link'[k].dead = link[k].dead
      BY <3>1, <1>2 DEF KeptLinks
    <3>. QED
      BY <3>1, <3>2, <1>3
  <2>. QED
    BY <2>2, <2>3, <2>4
<1>. QED
  BY <1>7, <1>8, <1>9, <1>10, <1>11, AllTogether

LEMMA NewFacts ==
  ASSUME NEW a \in Address, NEW b \in BOOLEAN, NEW c \in BOOLEAN
  PROVE  /\ Accounts!NewAccount(a, b, c) \in AccountRecord /\ Accounts!NewAccount(a, b, c).address = a
         /\ Accounts!NewAccount(a, b, c).tv = 0
BY DEF Accounts!NewAccount, AccountRecord

LEMMA SignUpStep ==
  ASSUME Sentinel, AInv, NEW u \in User, NEW a \in Address, Accounts!SignUp(u, a)
  PROVE  AInv'
<1>1. /\ u \in Accounts!Free /\ Accounts!Holder(a) = {} /\ account' = [account EXCEPT ![u] = Accounts!NewAccount(a, FALSE, FALSE)]
      /\ UNCHANGED <<link, done, leaves, past, gone, founded>> /\ visit' = visit /\ Accounts!Crowds
  BY DEF Accounts!SignUp, Accounts!Quiet
<1>2. Settles
  BY <1>1, Aside
<1>3. PICK r : r = Accounts!NewAccount(a, FALSE, FALSE)
  OBVIOUS
<1>4. r \in AccountRecord /\ r.address = a
  BY <1>3, NewFacts
<1>5. account[u] = None /\ u \notin gone /\ \A w \in Worker : visit[w].pc = "idle" \/ visit[w].user # u
  BY <1>1 DEF Accounts!Free
<1>6. \A w \in Worker : visit[w] # Accounts!Idle => visit[w].user # u
  BY <1>5, Shapes DEF AInv
<1>7. KeptLinks(u) /\ BornBy(None, u, r)
  BY <1>1, SameKept DEF BornBy
<1>8. founded' \in BOOLEAN
  BY <1>1 DEF AInv, AccountTypes
<1>. QED
  BY <1>1, <1>2, <1>3, <1>4, <1>5, <1>6, <1>7, <1>8, BornStep

(* The id of a newcomer is its own.                                         *)
LEMMA NewcomerFacts ==
  ASSUME Sentinel, AInv, NEW w \in Worker, visit[w] # Accounts!Idle, Newcomer(w),
         visit' = [visit EXCEPT ![w] = Accounts!Idle]
  PROVE  /\ visit[w].user \in User /\ account[visit[w].user] = None /\ visit[w].user \notin gone
         /\ \A v \in Worker : visit'[v] # Accounts!Idle /\ Newcomer(v) => visit[v].user # visit[w].user
<1>1. VisitOK(w) /\ visit[w].user \in User
  BY Named DEF AInv, VisitsOK, Newcomer
<1>2. \A v \in Worker : visit'[v] # Accounts!Idle => v # w /\ visit[v] # Accounts!Idle
  BY DEF AInv, AccountTypes
<1>. QED
  BY <1>1, <1>2 DEF VisitOK

LEMMA CommitRegisterStep ==
  ASSUME Sentinel, AInv, NEW w \in Worker, NEW a \in Address, Accounts!CommitRegister(w, a)
  PROVE  AInv'
<1>0. PICK u : u = visit[w].user
  OBVIOUS
<1>1. /\ visit[w].pc = "register" /\ visit' = [visit EXCEPT ![w] = Accounts!Idle] /\ Accounts!Holder(a) = {}
      /\ account' = [account EXCEPT ![u] =
                       [Accounts!NewAccount(a, TRUE, FALSE) EXCEPT !.member = TRUE, !.onboarded = TRUE]]
      /\ past' = past \cup {u} /\ founded' = TRUE
      /\ UNCHANGED <<link, done, leaves, gone, crowded>>
  BY <1>0 DEF Accounts!CommitRegister, Accounts!Ends
<1>2. visit[w] # Accounts!Idle /\ Newcomer(w)
  BY <1>1, IdleFacts DEF Newcomer
<1>3. Settles
  BY <1>1, <1>2, Commits
<1>4. /\ u \in User /\ account[u] = None /\ u \notin gone
      /\ \A v \in Worker : visit'[v] # Accounts!Idle /\ Newcomer(v) => visit[v].user # u
  BY <1>0, <1>1, <1>2, NewcomerFacts
<1>5. PICK r : r = [Accounts!NewAccount(a, TRUE, FALSE) EXCEPT !.member = TRUE, !.onboarded = TRUE]
  OBVIOUS
<1>6. r \in AccountRecord /\ r.address = a /\ r.member /\ r.onboarded
  BY <1>5 DEF Accounts!NewAccount, AccountRecord
<1>7. KeptLinks(u) /\ BornBy(None, u, r)
  BY <1>1, SameKept DEF BornBy
<1>8. account' = [account EXCEPT ![u] = r]
  BY <1>1, <1>5
<1>. QED
  BY <1>1, <1>3, <1>4, <1>6, <1>7, <1>8, BornStep

(* An invite is accepted at an address that nobody has.                     *)
LEMMA CommitAcceptNewStep ==
  ASSUME Sentinel, AInv, NEW w \in Worker, Accounts!CommitAccept(w), ~visit[w].had
  PROVE  AInv'
<1>0. PICK l, u : l = visit[w].link /\ u = visit[w].user
  OBVIOUS
<1>1. /\ visit[w].pc = "accept" /\ visit' = [visit EXCEPT ![w] = Accounts!Idle] /\ l \in Accounts!Sent
      /\ Accounts!Holder(link[l].to) = {}
      /\ Accounts!Marked(l, Accounts!Killed(u)) /\ Accounts!TookEffect(l) /\ past' = past \cup {u}
      /\ UNCHANGED <<leaves, gone, founded, crowded>>
  BY <1>0 DEF Accounts!CommitAccept, Accounts!Ends
<1>2. PICK r : r = [(IF visit[w].had THEN account[u] ELSE Accounts!NewAccount(link[l].to, FALSE, TRUE)) EXCEPT
                      !.member = TRUE, !.onboarded = TRUE, !.tv = IF visit[w].had THEN visit[w].tv + 1 ELSE @]
  OBVIOUS
<1>3. account' = [account EXCEPT ![u] = r]
  BY <1>0, <1>2 DEF Accounts!CommitAccept
<1>4. visit[w] # Accounts!Idle /\ Newcomer(w)
  BY <1>1, IdleFacts DEF Newcomer
<1>5. Settles
  BY <1>1, <1>4, Commits
<1>6. /\ u \in User /\ account[u] = None /\ u \notin gone
      /\ \A v \in Worker : visit'[v] # Accounts!Idle /\ Newcomer(v) => visit[v].user # u
  BY <1>0, <1>1, <1>4, NewcomerFacts
<1>7. link[l].to \in Address /\ l \in Link
  BY <1>1, Shapes DEF AInv, LinkRecord
<1>8. PICK n : n = Accounts!NewAccount(link[l].to, FALSE, TRUE)
  OBVIOUS
<1>9. n \in AccountRecord /\ n.address = link[l].to /\ n.tv = 0
  BY <1>7, <1>8, NewFacts
<1>10. r = [n EXCEPT !.member = TRUE, !.onboarded = TRUE, !.tv = n.tv]
  BY <1>2, <1>8
<1>11. r \in AccountRecord /\ r.address = link[l].to /\ r.member /\ r.onboarded
  <2>1. PICK m : m = n.tv /\ m \in Nat
    BY <1>9
  <2>2. r = [n EXCEPT !.member = TRUE, !.onboarded = TRUE, !.tv = m]
    BY <2>1, <1>10
  <2>. QED
    BY <2>1, <2>2, <1>9, MemberFacts, Zenon
<1>12. KeptLinks(u) /\ link'[l].used
  BY <1>1, <1>6, MarkedKept
<1>13. ~crowded => done[l] = 0
  <2>1. ~crowded => ~link[l].used
    BY <1>0, <1>1, <1>4 DEF AInv, AloneOK, Fresh, Accounts!Presentable
  <2>. QED
    BY <2>1, <1>1, UnusedNotDone
<1>14. BornBy(l, u, r)
  BY <1>1, <1>11, <1>12, <1>13 DEF BornBy
<1>15. founded' \in BOOLEAN
  BY <1>1 DEF AInv, AccountTypes
<1>. QED
  BY <1>1, <1>3, <1>5, <1>6, <1>11, <1>12, <1>14, <1>15, BornStep

-----------------------------------------------------------------------------
(* Departures: a deleted account leaves its address to a newcomer, and so   *)
(* does one that moves, which may come to be the holder of another.         *)
LEMMA CommitDeleteStep ==
  ASSUME Sentinel, AInv, NEW w \in Worker, Accounts!CommitDelete(w)
  PROVE  AInv'
<1>0. PICK u : u = visit[w].user
  OBVIOUS
<1>1. /\ visit[w].pc = "delete" /\ visit' = [visit EXCEPT ![w] = Accounts!Idle] /\ u \in Accounts!Exists
      /\ account' = [account EXCEPT ![u] = None]
      /\ link' = [l \in Link |-> IF l \in Accounts!Sent /\ link[l].user = u THEN None ELSE link[l]]
      /\ gone' = gone \cup {u} /\ leaves' = leaves + 1 /\ UNCHANGED <<done, past, founded, crowded>>
  BY <1>0 DEF Accounts!CommitDelete, Accounts!Ends
<1>2. visit[w] # Accounts!Idle
  BY <1>1, IdleFacts
<1>3. Settles
  BY <1>1, <1>2, Commits
<1>4. /\ u \in User /\ account'[u] = None /\ Accounts!Exists' = Accounts!Exists \ {u}
      /\ \A v \in User : v # u => account'[v] = account[v]
  BY <1>1 DEF Accounts!Exists, AInv, AccountTypes
<1>5. \A v \in Accounts!Exists' : v \in Accounts!Exists /\ v # u /\ account'[v] = account[v]
  BY <1>4 DEF Accounts!Exists
<1>6. \A k \in Link : link'[k] = None \/ link'[k] = link[k]
  BY <1>1
<1>7. \A k \in Accounts!Sent' : k \in Accounts!Sent /\ link'[k] = link[k] /\ link[k].user # u
  BY <1>1 DEF Accounts!Sent
<1>8. AccountTypes'
  <2>1. account' \in [User -> AccountRecord \cup {None}] /\ link' \in [Link -> LinkRecord \cup {None}]
    BY <1>1 DEF AInv, AccountTypes
  <2>2. gone' \subseteq User /\ leaves' \in Nat
    BY <1>1, <1>4 DEF AInv, AccountTypes
  <2>. QED
    BY <2>1, <2>2, <1>1, <1>3 DEF Settles, AInv, AccountTypes
<1>9. VisitsOK'
  <2>1. \A v \in Worker : visit[v] # Accounts!Idle /\ Newcomer(v)
          => account'[visit[v].user] = None /\ visit[v].user \notin gone'
    <3> SUFFICES ASSUME NEW v \in Worker, visit[v] # Accounts!Idle, Newcomer(v)
                 PROVE  account'[visit[v].user] = None /\ visit[v].user \notin gone'
      OBVIOUS
    <3>1. account[visit[v].user] = None /\ visit[v].user \notin gone /\ visit[v].user \in User
      BY Named DEF AInv, VisitsOK, VisitOK, Newcomer
    <3>. QED
      BY <3>1, <1>1, <1>4 DEF Accounts!Exists
  <2>. QED
    BY <2>1, <1>3, <1>6, RequestsKept
<1>10. RowsOK'
  <2>1. \A x, y \in Accounts!Exists' : account'[x].address = account'[y].address => x = y
    BY <1>5 DEF AInv, RowsOK
  <2>2. \A x \in Accounts!Exists' : x \notin gone'
    BY <1>1, <1>5 DEF AInv, RowsOK
  <2>3. \A k \in Accounts!Sent' : done'[k] > 0 => link'[k].used
    BY <1>1, <1>7 DEF AInv, RowsOK
  <2>. QED
    BY <2>1, <2>2, <2>3 DEF RowsOK
<1>11. InvitesOK'
  <2> SUFFICES ASSUME NEW k \in Accounts!Sent', link'[k].kind = "invite" PROVE InviteOK(k)'
    BY DEF InvitesOK
  <2>1. k \in Accounts!Sent /\ link'[k] = link[k] /\ link[k].kind = "invite" /\ k \in Link
    BY <1>7 DEF Accounts!Sent
  <2>2. \A x \in Accounts!Exists' : MayEnter(k, x)' => MayEnter(k, x)
    BY <1>5, <2>1, <1>3, NoNewReader DEF MayEnter
  <2>3. Entrants(k)' \subseteq Entrants(k) \cup {None}
    BY <2>2, <1>5 DEF Entrants
  <2>4. done'[k] = done[k] /\ leaves' \in Nat /\ leaves' = leaves + 1
    BY <1>1, <1>8 DEF AccountTypes
  <2>. QED
    BY <2>1, <2>3, <2>4, InviteKept
<1>12. ASSUME ~crowded' PROVE OnceOK' /\ PastOK' /\ MovesOK'
  <2>1. ~crowded /\ OnceOK /\ PastOK /\ MovesOK /\ Fresh(w)
    BY <1>12, <1>2, <1>3 DEF Settles, AInv, AloneOK
  <2>2. u \notin past
    BY <2>1, <1>0, <1>1 DEF Fresh, PastOK
  <2>3. PastOK'
    <3>1. \A x \in past : x \in Accounts!Exists' /\ account'[x] = account[x]
      BY <2>1, <2>2, <1>4 DEF PastOK, Accounts!Exists
    <3>. QED
      BY <3>1, <2>1, <1>1 DEF PastOK
  <2>4. MovesOK'
    <3>1. \A k \in Accounts!Sent' : link'[k].kind = "move" =>
            link[k].user \in Accounts!Exists /\ link[k].user # u
      BY <2>1, <1>7 DEF MovesOK
    <3>2. \A k \in Accounts!Sent' : link'[k].kind = "move" =>
            link'[k].user \in Accounts!Exists' /\ account'[link'[k].user] = account[link[k].user]
      BY <3>1, <1>4, <1>7 DEF Accounts!Exists
    <3>. QED
      BY <3>2, <2>1, <1>7 DEF MovesOK
  <2>. QED
    BY <2>1, <2>3, <2>4, <1>1 DEF OnceOK
<1>. QED
  BY <1>3, <1>8, <1>9, <1>10, <1>11, <1>12, AllTogether

LEMMA CommitMoveStep ==
  ASSUME Sentinel, AInv, NEW w \in Worker, Accounts!CommitMove(w)
  PROVE  AInv'
<1>0. PICK l, u : l = visit[w].link /\ u = visit[w].user
  OBVIOUS
<1>1. /\ visit[w].pc = "move" /\ visit' = [visit EXCEPT ![w] = Accounts!Idle] /\ l \in Accounts!Sent /\ u \in Accounts!Exists
      /\ Accounts!Holder(link[l].to) \subseteq {u}
      /\ account' = [account EXCEPT ![u].address = link[l].to, ![u].verified = TRUE,
                                    ![u].tv = visit[w].tv + 1]
      /\ Accounts!Marked(l, Accounts!Killed(u)) /\ Accounts!TookEffect(l) /\ leaves' = leaves + 1
      /\ UNCHANGED <<past, gone, founded, crowded>>
  BY <1>0 DEF Accounts!CommitMove, Accounts!Ends
<1>2. visit[w] # Accounts!Idle
  BY <1>1, IdleFacts
<1>3. Settles
  BY <1>1, <1>2, Commits
<1>4. /\ u \in User /\ account[u] \in AccountRecord /\ account[u].tv \in Nat /\ l \in Link
      /\ link[l].to \in Address /\ link[l].kind = "move" /\ visit[w].tv \in Nat
  <2>1. u \in User /\ account[u] \in AccountRecord /\ account[u].tv \in Nat
    BY <1>1, BumpedFacts
  <2>2. l \in Link /\ link[l].to \in Address
    BY <1>1, Shapes DEF AInv, LinkRecord
  <2>3. link[l].kind = "move"
    BY <1>0, <1>1, <1>2 DEF AInv, VisitsOK, VisitOK
  <2>. QED
    BY <2>1, <2>2, <2>3, <1>2, Named
<1>5. PICK a, n : a = link[l].to /\ n = visit[w].tv + 1
  OBVIOUS
<1>6. PICK r : r = [account[u] EXCEPT !.address = a, !.verified = TRUE, !.tv = n]
  OBVIOUS
<1>7. account' = [account EXCEPT ![u] = r]
  BY <1>1, <1>4, <1>5, <1>6 DEF AInv, AccountTypes
<1>8. /\ r \in AccountRecord /\ r.address = a /\ r.tv = n
      /\ r.member = account[u].member /\ r.onboarded = account[u].onboarded
  <2>1. a \in Address /\ n \in Nat
    BY <1>4, <1>5
  <2>. QED
    BY <2>1, <1>4, <1>6 DEF AccountRecord
<1>9. /\ account'[u] = r /\ r # None /\ Accounts!Exists' = Accounts!Exists
      /\ \A v \in User : v # u => account'[v] = account[v]
  <2>1. account[u] # None /\ r # None
    BY <1>1, <1>8 DEF Accounts!Exists, Sentinel
  <2>2. account'[u] = r /\ \A v \in User : v # u => account'[v] = account[v]
    BY <1>4, <1>7 DEF AInv, AccountTypes
  <2>. QED
    BY <2>1, <2>2, <1>4 DEF Accounts!Exists
<1>10. KeptLinks(u) /\ link'[l].used
  BY <1>1, <1>4, MarkedKept
<1>11. Accounts!Sent' = Accounts!Sent
  BY <1>10 DEF KeptLinks, Accounts!Sent
<1>12. /\ done' \in [Link -> Nat] /\ done'[l] = done[l] + 1
       /\ \A k \in Link : k # l => done'[k] = done[k]
  BY <1>1, <1>4 DEF Accounts!TookEffect, AInv, AccountTypes
<1>13. AccountTypes'
  <2>1. account' \in [User -> AccountRecord \cup {None}] /\ leaves' \in Nat
    <3>1. account' \in [User -> AccountRecord \cup {None}]
      BY <1>4, <1>7, <1>8 DEF AInv, AccountTypes
    <3>. QED
      BY <3>1, <1>1 DEF AInv, AccountTypes
  <2>. QED
    BY <2>1, <1>1, <1>3, <1>10, <1>12 DEF Settles, KeptLinks, AInv, AccountTypes
<1>14. VisitsOK'
  <2>1. \A v \in Worker : visit[v] # Accounts!Idle /\ Newcomer(v)
          => account'[visit[v].user] = None /\ visit[v].user \notin gone'
    <3> SUFFICES ASSUME NEW v \in Worker, visit[v] # Accounts!Idle, Newcomer(v)
                 PROVE  account'[visit[v].user] = None /\ visit[v].user \notin gone'
      OBVIOUS
    <3>1. account[visit[v].user] = None /\ visit[v].user \notin gone /\ visit[v].user \in User
      BY Named DEF AInv, VisitsOK, VisitOK, Newcomer
    <3>. QED
      BY <3>1, <1>1, <1>9 DEF Accounts!Exists
  <2>2. \A k \in Link : link'[k] # None => link[k] # None /\ link'[k].kind = link[k].kind
    BY <1>10 DEF KeptLinks, Accounts!Sent
  <2>. QED
    BY <2>1, <2>2, <1>3, RequestsKept
<1>15. RowsOK'
  <2>1. \A x \in Accounts!Exists : x # u => account[x].address # a
    BY <1>1, <1>5 DEF Accounts!Holder
  <2>2. \A x, y \in Accounts!Exists : account'[x].address = account'[y].address => x = y
    BY <2>1, <1>8, <1>9 DEF AInv, RowsOK, Accounts!Exists
  <2>3. \A k \in Accounts!Sent : done'[k] > 0 => link'[k].used
    BY <1>10, <1>12 DEF AInv, RowsOK, KeptLinks, Accounts!Sent
  <2>. QED
    BY <2>2, <2>3, <1>1, <1>9, <1>11 DEF AInv, RowsOK
<1>16. InvitesOK'
  <2> SUFFICES ASSUME NEW k \in Accounts!Sent, link[k].kind = "invite" PROVE InviteOK(k)'
    BY <1>10, <1>11 DEF InvitesOK, KeptLinks
  <2>1. /\ k \in Link /\ link'[k].to = link[k].to /\ (link[k].used => link'[k].used)
        /\ k # l /\ done'[k] = done[k]
    BY <1>4, <1>10, <1>12 DEF KeptLinks, Accounts!Sent
  <2>2. \A x \in Accounts!Exists : x # u /\ MayEnter(k, x)' => MayEnter(k, x)
    BY <1>3, <1>9, <2>1, NoNewReader DEF MayEnter, Accounts!Exists
  <2>3. \E x : Entrants(k)' \subseteq Entrants(k) \cup {x}
    <3>1. CASE link[k].to = a
      <4>1. u \in Accounts!Holder(link[k].to)'
        BY <3>1, <2>1, <1>1, <1>8, <1>9 DEF Accounts!Holder
      <4>2. Entrants(k)' \subseteq Entrants(k) \cup {u}
        BY <4>1, <2>1, <2>2, <1>9 DEF Entrants
      <4>. QED
        BY <4>2
    <3>2. CASE link[k].to # a
      <4>1. MayEnter(k, u)' => MayEnter(k, u)
        BY <3>2, <2>1, <1>3, <1>8, <1>9, NoNewReader DEF MayEnter
      <4>2. Entrants(k)' \subseteq Entrants(k) \cup {None}
        BY <4>1, <2>2, <1>9 DEF Entrants
      <4>. QED
        BY <4>2
    <3>. QED
      BY <3>1, <3>2
  <2>4. leaves' \in Nat
    BY <1>13 DEF AccountTypes
  <2>. QED
    BY <2>1, <2>3, <2>4, <1>1, InviteKept
<1>17. ASSUME ~crowded' PROVE OnceOK' /\ PastOK' /\ MovesOK'
  <2>1. ~crowded /\ OnceOK /\ PastOK /\ MovesOK /\ Fresh(w)
    BY <1>17, <1>2, <1>3 DEF Settles, AInv, AloneOK
  <2>2. ~link[l].used /\ visit[w].tv = account[u].tv
    BY <2>1, <1>0, <1>1 DEF Fresh, Accounts!Presentable
  <2>3. OnceOK'
    <3>1. done[l] = 0
      BY <2>2, <1>1, UnusedNotDone
    <3>. QED
      BY <3>1, <2>1, <1>12 DEF OnceOK
  <2>4. PastOK'
    BY <2>1, <1>1, <1>8, <1>9 DEF PastOK, Accounts!Exists
  <2>5. MovesOK'
    <3> SUFFICES ASSUME NEW k \in Accounts!Sent, link[k].kind = "move"
                 PROVE  /\ link[k].user \in Accounts!Exists /\ link[k].tv <= account'[link[k].user].tv
                        /\ link'[k].dead => link[k].tv < account'[link[k].user].tv
      BY <1>9, <1>10, <1>11 DEF MovesOK, KeptLinks
    <3>1. /\ link[k].user \in Accounts!Exists /\ link[k].tv <= account[link[k].user].tv
          /\ link[k].dead => link[k].tv < account[link[k].user].tv
      BY <2>1 DEF MovesOK
    <3>2. CASE link[k].user # u
      BY <3>1, <3>2, <1>9, <1>10 DEF KeptLinks, Accounts!Exists
    <3>3. CASE link[k].user = u
      <4>1. link[k].tv \in Nat
        BY Shapes DEF AInv, LinkRecord
      <4>2. link[k].tv < r.tv
        BY <4>1, <3>1, <3>3, <2>2, <1>4, <1>5, <1>8
      <4>. QED
        BY <4>1, <4>2, <3>1, <3>3, <1>4, <1>5, <1>8, <1>9
    <3>. QED
      BY <3>2, <3>3
  <2>. QED
    BY <2>3, <2>4, <2>5
<1>. QED
  BY <1>3, <1>13, <1>14, <1>15, <1>16, <1>17, AllTogether

-----------------------------------------------------------------------------
(* A request reads, and decides: its row is what it saw.                    *)
Reads(w, pc, l, u) ==
  /\ Accounts!Read(w, pc, l, u)
  /\ pc \in {"reset", "move", "accept", "revoke", "register", "demote", "delete"}
  /\ pc \in {"reset", "move"} => Accounts!Presentable(l, pc) /\ link[l].user = u
  /\ pc = "move" => link[l].tv = account[u].tv
  /\ pc \in {"accept", "revoke"} => Accounts!Presentable(l, "invite")
  /\ pc \in {"register", "demote", "delete"} => l = None
  /\ pc = "register" => u \in Accounts!Free
  /\ pc = "accept" => u \in Accounts!Free \/ u \in Accounts!Holder(link[l].to)
  /\ pc \in {"reset", "move", "demote", "delete"} => u \in Accounts!Exists
  /\ pc = "delete" => ~account[u].onboarded
  /\ pc = "revoke" => u = None

LEMMA ReadsFacts ==
  ASSUME Sentinel, AInv, NEW w \in Worker, NEW pc, NEW l, NEW u, Reads(w, pc, l, u)
  PROVE  /\ visit[w] = Accounts!Idle /\ Accounts!Crowds
         /\ UNCHANGED <<account, link, done, leaves, past, gone, founded>>
         /\ visit' \in [Worker -> Visits \cup {Accounts!Idle}] /\ visit'[w] \in Visits
         /\ \A v \in Worker : v # w => visit'[v] = visit[v]
         /\ visit'[w].pc = pc /\ visit'[w].link = l /\ visit'[w].user = u
         /\ visit'[w].had <=> u \in Accounts!Exists
         /\ u \in Accounts!Exists => visit'[w].tv = account[u].tv
         /\ u \in User \cup {None} /\ (pc # "revoke" => u \in User)
<1>1. /\ visit[w] = Accounts!Idle /\ Accounts!Crowds
      /\ UNCHANGED <<account, link, done, leaves, past, gone, founded>>
      /\ visit' = [visit EXCEPT ![w] = [pc |-> pc, link |-> l, user |-> u,
                                    tv |-> IF u \in Accounts!Exists THEN account[u].tv ELSE 0,
                                    had |-> u \in Accounts!Exists]]
  BY DEF Reads, Accounts!Read, Accounts!history
<1>2. l \in Link \cup {None} /\ u \in User \cup {None} /\ (pc # "revoke" => u \in User)
  BY DEF Reads, Accounts!Presentable, Accounts!Sent, Accounts!Free, Accounts!Exists, Accounts!Holder
<1>3. PICK n : n = IF u \in Accounts!Exists THEN account[u].tv ELSE 0
  OBVIOUS
<1>4. n \in Nat /\ (u \in Accounts!Exists => n = account[u].tv)
  BY <1>3, BumpedFacts
<1>5. PICK q : q = [pc |-> pc, link |-> l, user |-> u, tv |-> n, had |-> u \in Accounts!Exists]
  OBVIOUS
<1>6. visit' = [visit EXCEPT ![w] = q]
  BY <1>1, <1>3, <1>5
<1>7. q \in Visits
  BY <1>2, <1>4, <1>5 DEF Reads, Visits
<1>8. /\ q.pc = pc /\ q.link = l /\ q.user = u /\ q.tv = n
      /\ q.had <=> u \in Accounts!Exists
  BY <1>5
<1>9. /\ visit'[w] = q /\ \A v \in Worker : v # w => visit'[v] = visit[v]
      /\ visit' \in [Worker -> Visits \cup {Accounts!Idle}]
  BY <1>6, <1>7 DEF AInv, AccountTypes
<1>. QED
  BY <1>1, <1>2, <1>4, <1>7, <1>8, <1>9

LEMMA ReadsStep ==
  ASSUME Sentinel, AInv, NEW w \in Worker, NEW pc, NEW l, NEW u, Reads(w, pc, l, u)
  PROVE  AInv'
<1>1. /\ visit[w] = Accounts!Idle /\ Accounts!Crowds
      /\ UNCHANGED <<account, link, done, leaves, past, gone, founded>>
      /\ visit' \in [Worker -> Visits \cup {Accounts!Idle}] /\ visit'[w] \in Visits
      /\ \A v \in Worker : v # w => visit'[v] = visit[v]
      /\ visit'[w].pc = pc /\ visit'[w].link = l /\ visit'[w].user = u
      /\ visit'[w].had <=> u \in Accounts!Exists
      /\ u \in Accounts!Exists => visit'[w].tv = account[u].tv
      /\ pc # "revoke" => u \in User
  BY ReadsFacts
<1>2. Accounts!Exists' = Accounts!Exists /\ Accounts!Sent' = Accounts!Sent /\ \A a : Accounts!Holder(a)' = Accounts!Holder(a)
  BY <1>1 DEF Accounts!Exists, Accounts!Sent, Accounts!Holder
<1>3. AccountTypes'
  BY <1>1 DEF AInv, AccountTypes, Accounts!Crowds, Accounts!Busy
<1>4. VisitsOK'
  <2> SUFFICES ASSUME NEW x \in Worker, visit'[x] # Accounts!Idle PROVE VisitOK(x)'
    BY DEF VisitsOK, VisitOK
  <2>1. CASE x # w
    <3>1. visit'[x] = visit[x] /\ visit[x] # Accounts!Idle /\ VisitOK(x)
      BY <2>1, <1>1 DEF AInv, VisitsOK
    <3>2. Newcomer(x) => visit[x].user # u
      <4> SUFFICES ASSUME Newcomer(x) PROVE visit[x].user # u
        OBVIOUS
      <4>1. account[visit[x].user] = None /\ visit[x].user \in User /\ visit[x].pc # "idle"
        BY <3>1, Named, Shapes DEF AInv, VisitOK, Newcomer
      <4>2. visit[x].user \notin Accounts!Exists /\ visit[x].user \notin Accounts!Free /\ visit[x].user # None
        BY <4>1 DEF Accounts!Exists, Accounts!Free, Sentinel
      <4>. QED
        BY <4>2 DEF Reads, Accounts!Holder
    <3>3. \A v \in Worker : v # x /\ visit'[v] # Accounts!Idle /\ Newcomer(x) => visit'[v].user # visit[x].user
      BY <3>1, <3>2, <1>1 DEF VisitOK
    <3>. QED
      BY <3>1, <3>3, <1>1, <1>2 DEF VisitOK, Newcomer
  <2>2. CASE x = w
    <3>1. pc \in {"reset", "move", "accept", "revoke"} => l \in Accounts!Sent /\ l \in Link
      BY DEF Reads, Accounts!Presentable, Accounts!Sent
    <3>2. /\ pc = "reset" => link[l].kind = "reset"
          /\ pc = "move" => link[l].kind = "move"
          /\ pc \in {"accept", "revoke"} => link[l].kind = "invite"
      BY DEF Reads, Accounts!Presentable
    <3>3. Newcomer(w)' => u \in Accounts!Free
      BY <1>1 DEF Newcomer, Reads, Accounts!Holder
    <3>4. \A v \in Worker : v # w /\ visit[v] # Accounts!Idle => visit[v].pc # "idle"
      BY Shapes DEF AInv
    <3>5. Newcomer(w)' =>
            /\ account[u] = None /\ u \notin gone
            /\ \A v \in Worker : v # w /\ visit'[v] # Accounts!Idle => visit'[v].user # u
      BY <3>3, <3>4, <1>1 DEF Accounts!Free
    <3>. QED
      BY <2>2, <3>1, <3>2, <3>5, <1>1, <1>2 DEF VisitOK
  <2>. QED
    BY <2>1, <2>2
<1>5. RowsOK'
  BY <1>1, <1>2 DEF AInv, RowsOK
<1>6. InvitesOK'
  <2> SUFFICES ASSUME NEW k \in Accounts!Sent, link[k].kind = "invite" PROVE InviteOK(k)'
    BY <1>1, <1>2 DEF InvitesOK
  <2>1. \A x : ReadAs(k, x)' => ReadAs(k, x) \/ (pc = "accept" /\ l = k /\ x = u)
    BY <1>1 DEF ReadAs
  <2>2. pc = "accept" /\ l = k /\ u \in Accounts!Exists => ~link[k].used /\ account[u].address = link[k].to
    BY DEF Reads, Accounts!Presentable, Accounts!Free, Accounts!Exists, Accounts!Holder
  <2>3. \A x \in Accounts!Exists : MayEnter(k, x)' => MayEnter(k, x)
    BY <2>1, <2>2, <1>1 DEF MayEnter
  <2>4. Entrants(k)' \subseteq Entrants(k)
    BY <2>3, <1>1, <1>2 DEF Entrants
  <2>. QED
    BY <2>4, <1>1, <1>3, InviteKept DEF AccountTypes
<1>7. ASSUME ~crowded' PROVE AloneOK' /\ OnceOK' /\ PastOK' /\ MovesOK'
  <2>1. ~crowded /\ OnceOK /\ PastOK /\ MovesOK /\ \A v \in Worker : visit[v] = Accounts!Idle
    BY <1>7, <1>1 DEF Accounts!Crowds, Accounts!Busy, AInv
  <2>2. Fresh(w)'
    <3>1. pc = "reset" => Accounts!Presentable(l, "reset") /\ u \in Accounts!Exists
      BY DEF Reads
    <3>2. pc = "move" => /\ Accounts!Presentable(l, "move") /\ u \in Accounts!Exists /\ link[l].user = u
                         /\ link[l].tv = account[u].tv
      BY DEF Reads
    <3>3. /\ pc = "accept" => Accounts!Presentable(l, "invite")
          /\ pc = "delete" => u \in Accounts!Exists /\ ~account[u].onboarded
      BY DEF Reads
    <3>4. \A kind : Accounts!Presentable(l, kind)' <=> Accounts!Presentable(l, kind)
      BY <1>1, <1>2 DEF Accounts!Presentable
    <3>. QED
      BY <3>1, <3>2, <3>3, <3>4, <1>1, <1>2 DEF Fresh
  <2>3. AloneOK'
    BY <2>1, <2>2, <1>1 DEF AloneOK
  <2>4. OnceOK' /\ PastOK' /\ MovesOK'
    BY <2>1, <1>1, <1>2 DEF OnceOK, PastOK, MovesOK
  <2>. QED
    BY <2>3, <2>4
<1>. QED
  BY <1>3, <1>4, <1>5, <1>6, <1>7 DEF AInv

LEMMA RequestsStep ==
  ASSUME Sentinel, AInv, NEW w \in Worker, Accounts!Requests(w)
  PROVE  AInv'
<1>1. \A u \in Accounts!Admins : u \in User
  BY DEF Accounts!Admins, Accounts!Exists
<1>2. ASSUME NEW l \in Link, Accounts!ReadReset(w, l) \/ Accounts!ReadMove(w, l) \/ Accounts!ReadRevoke(w, l)
      PROVE  AInv'
  <2>1. CASE Accounts!ReadReset(w, l)
    <3>1. Reads(w, "reset", l, link[l].user)
      BY <2>1 DEF Accounts!ReadReset, Reads
    <3>. QED
      BY <3>1, ReadsStep
  <2>2. CASE Accounts!ReadMove(w, l)
    <3>1. Reads(w, "move", l, link[l].user)
      BY <2>2 DEF Accounts!ReadMove, Reads
    <3>. QED
      BY <3>1, ReadsStep
  <2>3. CASE Accounts!ReadRevoke(w, l)
    <3>1. Reads(w, "revoke", l, None)
      BY <2>3 DEF Accounts!ReadRevoke, Reads
    <3>. QED
      BY <3>1, ReadsStep
  <2>. QED
    BY <1>2, <2>1, <2>2, <2>3
<1>3. ASSUME NEW u \in User, Accounts!ReadRegister(w, u)
      PROVE  AInv'
  <2>1. Reads(w, "register", None, u)
    BY <1>3 DEF Accounts!ReadRegister, Reads
  <2>. QED
    BY <2>1, ReadsStep
<1>4. ASSUME NEW u \in User, NEW l \in Link, Accounts!ReadAccept(w, l, u)
      PROVE  AInv'
  <2>1. Reads(w, "accept", l, u)
    BY <1>4 DEF Accounts!ReadAccept, Reads
  <2>. QED
    BY <2>1, ReadsStep
<1>5. ASSUME NEW u \in User, NEW by \in User, Accounts!ReadDemote(w, u) \/ Accounts!ReadDelete(w, by, u)
      PROVE  AInv'
  <2>1. CASE Accounts!ReadDemote(w, u)
    <3>1. Reads(w, "demote", None, u)
      BY <2>1 DEF Accounts!ReadDemote, Reads
    <3>. QED
      BY <3>1, ReadsStep
  <2>2. CASE Accounts!ReadDelete(w, by, u)
    <3>1. Reads(w, "delete", None, u)
      BY <2>2 DEF Accounts!ReadDelete, Reads
    <3>. QED
      BY <3>1, ReadsStep
  <2>. QED
    BY <1>5, <2>1, <2>2
<1>6. Accounts!CommitReset(w) \/ Accounts!CommitMove(w) \/ Accounts!CommitRevoke(w) \/ Accounts!CommitDemote(w) \/ Accounts!CommitDelete(w) \/ Accounts!Fails(w)
        => AInv'
  BY CommitResetStep, CommitMoveStep, CommitRevokeStep, CommitDemoteStep, CommitDeleteStep, FailsStep
<1>7. Accounts!CommitAccept(w) => AInv'
  BY CommitAcceptHeldStep, CommitAcceptNewStep
<1>8. ASSUME NEW a \in Address, Accounts!CommitRegister(w, a) PROVE AInv'
  BY <1>8, CommitRegisterStep
<1>. QED
  BY <1>1, <1>2, <1>3, <1>4, <1>5, <1>6, <1>7, <1>8 DEF Accounts!Requests

LEMMA NextAInv ==
  ASSUME Sentinel, AInv, [Accounts!Next]_Accounts!vars
  PROVE  AInv'
<1>1. ASSUME NEW w \in Worker, Accounts!Requests(w) PROVE AInv'
  BY <1>1, RequestsStep
<1>2. ASSUME NEW u \in User, Accounts!Revoke(u) \/ Accounts!Leave(u) PROVE AInv'
  BY <1>2, RevokeStep, LeaveStep
<1>3. ASSUME NEW u \in User, NEW by \in User, Accounts!Deactivate(by, u) \/ Accounts!Reactivate(u) \/ Accounts!Grant(u)
      PROVE  AInv'
  BY <1>3, DeactivateStep, ReactivateStep, GrantStep
<1>4. ASSUME NEW u \in User, NEW l \in Link, Accounts!RequestReset(u, l) PROVE AInv'
  BY <1>4, RequestResetStep
<1>5. ASSUME NEW u \in User, NEW l \in Link, NEW a \in Address, Accounts!RequestMove(u, l, a) PROVE AInv'
  BY <1>5, RequestMoveStep
<1>6. ASSUME NEW u \in User, NEW a \in Address, Accounts!SignUp(u, a) \/ Accounts!MoveTaken(u, a) PROVE AInv'
  BY <1>6, SignUpStep, MoveTakenStep
<1>7. ASSUME NEW l \in Link, Accounts!MoveRefused(l) PROVE AInv'
  BY <1>7, MoveRefusedStep
<1>8. ASSUME NEW l \in Link, NEW a \in Address, Accounts!CreateInvite(a, l) \/ Accounts!CreateInviteLate(a, l)
      PROVE  AInv'
  BY <1>8, CreateInviteStep, CreateInviteLateStep
<1>9. ASSUME UNCHANGED Accounts!vars PROVE AInv'
  <2>1. UNCHANGED <<account, link, visit, done, leaves, past, gone, crowded, founded>>
    BY <1>9 DEF Accounts!vars
  <2>2. Accounts!Exists' = Accounts!Exists /\ Accounts!Sent' = Accounts!Sent /\ \A a : Accounts!Holder(a)' = Accounts!Holder(a)
    BY <2>1 DEF Accounts!Exists, Accounts!Sent, Accounts!Holder
  <2>3. AccountTypes' /\ VisitsOK' /\ RowsOK'
    BY <2>1, <2>2 DEF AInv, AccountTypes, VisitsOK, VisitOK, Newcomer, RowsOK
  <2>4. InvitesOK'
    <3>1. \A k, x : MayEnter(k, x)' <=> MayEnter(k, x)
      BY <2>1 DEF MayEnter, ReadAs
    <3>2. \A k \in Accounts!Sent : Entrants(k)' = Entrants(k)
      BY <2>1, <2>2, <3>1 DEF Entrants
    <3>. QED
      BY <2>1, <2>2, <3>2 DEF AInv, InvitesOK, InviteOK
  <2>5. (AloneOK /\ OnceOK /\ PastOK /\ MovesOK)' <=> (AloneOK /\ OnceOK /\ PastOK /\ MovesOK)
    BY <2>1, <2>2 DEF AloneOK, Fresh, Accounts!Presentable, OnceOK, PastOK, MovesOK
  <2>. QED
    BY <2>1, <2>3, <2>4, <2>5 DEF AInv
<1>10. \A u \in Accounts!Admins : u \in User
  BY DEF Accounts!Admins, Accounts!Exists
<1>11. Accounts!Next => AInv'
  BY <1>1, <1>2, <1>3, <1>4, <1>5, <1>6, <1>7, <1>8, <1>10 DEF Accounts!Next
<1>. QED
  BY <1>9, <1>11

LEMMA AInvInit == MCInit => AInv
BY IdentityAssumption, NoneIsNobody, InitAInv DEF MCInit

LEMMA AInvNext == AInv /\ [MCNext]_<<part, vars, keys, accounts>> => AInv'
<1> SUFFICES ASSUME AInv, [MCNext]_<<part, vars, keys, accounts>> PROVE AInv'
  OBVIOUS
<1>1. [Accounts!Next]_Accounts!vars
  BY DEF MCNext, accounts, Accounts!vars
<1>. QED
  BY <1>1, IdentityAssumption, NoneIsNobody, NextAInv

(* Links take effect by three commits.                                      *)
LEMMA OnlyCommitsTakeEffect ==
  ASSUME [Accounts!Next]_Accounts!vars
  PROVE  \/ UNCHANGED done
         \/ \E w \in Worker : Accounts!CommitReset(w) \/ Accounts!CommitMove(w) \/ Accounts!CommitAccept(w)
<1>1. ASSUME NEW w \in Worker, Accounts!Requests(w)
      PROVE  UNCHANGED done \/ Accounts!CommitReset(w) \/ Accounts!CommitMove(w) \/ Accounts!CommitAccept(w)
  <2>1. \A l, u, pc : Accounts!Read(w, pc, l, u) => UNCHANGED done
    BY DEF Accounts!Read
  <2>2. \A l, u, by : \/ Accounts!ReadReset(w, l) \/ Accounts!ReadMove(w, l) \/ Accounts!ReadRevoke(w, l) \/ Accounts!ReadRegister(w, u)
                     \/ Accounts!ReadAccept(w, l, u) \/ Accounts!ReadDemote(w, u) \/ Accounts!ReadDelete(w, by, u)
                     => UNCHANGED done
    BY <2>1 DEF Accounts!ReadReset, Accounts!ReadMove, Accounts!ReadRevoke, Accounts!ReadRegister,
        Accounts!ReadAccept, Accounts!ReadDemote, Accounts!ReadDelete
  <2>3. Accounts!CommitRevoke(w) \/ Accounts!CommitDemote(w) \/ Accounts!CommitDelete(w) \/ Accounts!Fails(w) => UNCHANGED done
    BY DEF Accounts!CommitRevoke, Accounts!CommitDemote, Accounts!CommitDelete, Accounts!Fails
  <2>4. \A a : Accounts!CommitRegister(w, a) => UNCHANGED done
    BY DEF Accounts!CommitRegister
  <2>. QED
    BY <1>1, <2>2, <2>3, <2>4 DEF Accounts!Requests
<1>2. \A l, row : Accounts!Send(l, row) => UNCHANGED done
  BY DEF Accounts!Send
<1>3. \A l, u, a : Accounts!RequestReset(u, l) \/ Accounts!RequestMove(u, l, a) \/ Accounts!CreateInvite(a, l)
                 \/ Accounts!CreateInviteLate(a, l) => UNCHANGED done
  BY <1>2 DEF Accounts!RequestReset, Accounts!RequestMove, Accounts!CreateInvite, Accounts!CreateInviteLate
<1>4. \A l, u, a : Accounts!MoveTaken(u, a) \/ Accounts!MoveRefused(l) \/ Accounts!SignUp(u, a) => UNCHANGED done
  BY DEF Accounts!MoveTaken, Accounts!MoveRefused, Accounts!SignUp, Accounts!Quiet
<1>5. \A u, by : Accounts!Revoke(u) \/ Accounts!Leave(u) \/ Accounts!Deactivate(by, u) \/ Accounts!Reactivate(u) \/ Accounts!Grant(u) => UNCHANGED done
  BY DEF Accounts!Revoke, Accounts!Leave, Accounts!Deactivate, Accounts!Reactivate, Accounts!Grant, Accounts!Quiet
<1>6. UNCHANGED Accounts!vars => UNCHANGED done
  BY DEF Accounts!vars
<1>. QED
  BY <1>1, <1>3, <1>4, <1>5, <1>6 DEF Accounts!Next

-----------------------------------------------------------------------------
(* However many requests present it at once, an invite admits one person,  *)
(* once, plus one for every departure; and where requests do not overlap a  *)
(* reset or a confirmation link takes effect once (auth.py, invites.py).    *)
THEOREM LinkTakesEffectOnce == MCSpec => []LinksWorkOnce
<1>1. ASSUME AInv PROVE LinksWorkOnce
  <2> SUFFICES ASSUME NEW l \in Accounts!Sent
               PROVE  /\ link[l].kind = "invite" => done[l] <= 1 + leaves
                      /\ ~crowded => done[l] <= 1
    BY DEF LinksWorkOnce, Accounts!LinksWorkOnce
  <2>1. l \in Link /\ done[l] \in Nat /\ leaves \in Nat
    BY <1>1 DEF AInv, AccountTypes, Accounts!Sent
  <2>2. ASSUME link[l].kind = "invite" PROVE done[l] <= 1 + leaves
    <3>1. PICK P : P = Entrants(l)
      OBVIOUS
    <3>2. IsFiniteSet(P) /\ done[l] + Cardinality(P) <= 1 + leaves
      BY <3>1, <2>2, <1>1 DEF AInv, InvitesOK, InviteOK
    <3>3. Cardinality(P) \in Nat
      BY <3>2, FS_CardinalityType
    <3>. QED
      BY <3>2, <3>3, <2>1
  <2>3. ~crowded => done[l] <= 1
    BY <2>1, <1>1 DEF AInv, OnceOK
  <2>. QED
    BY <2>2, <2>3
<1>. QED
  BY <1>1, AInvInit, AInvNext, PTL DEF MCSpec

(* Where requests do not overlap, an account that was ever in a department  *)
(* is never deleted (delete_user and _history_reason in platform.py).       *)
THEOREM MembersAreKept == MCSpec => []DeletedNeverBelonged
<1>1. AInv => DeletedNeverBelonged
  BY DEF AInv, PastOK, RowsOK, DeletedNeverBelonged, Accounts!DeletedNeverBelonged
<1>. QED
  BY <1>1, AInvInit, AInvNext, PTL DEF MCSpec

(* A confirmation link that was sent before a bump moves no address any     *)
(* more, where requests do not overlap (confirm_email_change).              *)
THEOREM BumpedLinksMoveNothing == MCSpec => DeadLinksMoveNothing
<1>1. ASSUME AInv, [Accounts!Next]_Accounts!vars PROVE Accounts!DeadMovesNothing
  <2> SUFFICES ASSUME NEW l \in Accounts!Sent, ~crowded, link[l].kind = "move", done'[l] # done[l], link[l].dead
               PROVE  FALSE
    BY DEF Accounts!DeadMovesNothing
  <2>1. PICK w \in Worker : Accounts!CommitReset(w) \/ Accounts!CommitMove(w) \/ Accounts!CommitAccept(w)
    BY <1>1, OnlyCommitsTakeEffect
  <2>2. Accounts!TookEffect(visit[w].link) /\ visit[w].link \in Accounts!Sent /\ visit[w].pc \in {"reset", "move", "accept"}
    BY <2>1 DEF Accounts!CommitReset, Accounts!CommitMove, Accounts!CommitAccept, Accounts!Ends
  <2>3. visit[w].link = l
    BY <2>2, <1>1 DEF Accounts!TookEffect, AInv, AccountTypes, Accounts!Sent
  <2>4. visit[w] # Accounts!Idle
    BY <2>2, IdleFacts
  <2>5. visit[w].pc = "move"
    BY <2>2, <2>3, <2>4, <1>1 DEF AInv, VisitsOK, VisitOK
  <2>6. /\ link[l].user = visit[w].user /\ link[l].tv = account[visit[w].user].tv
        /\ link[l].tv < account[link[l].user].tv
    BY <2>3, <2>4, <2>5, <1>1 DEF AInv, AloneOK, Fresh, MovesOK
  <2>7. link[l].tv \in Nat
    BY <1>1, IdentityAssumption, NoneIsNobody, Shapes DEF AInv, LinkRecord
  <2>. QED
    BY <2>6, <2>7
<1>2. ASSUME AInv, [MCNext]_<<part, vars, keys, accounts>>
      PROVE  [part = "accounts" => Accounts!DeadMovesNothing]_<<part, accounts>>
  <2>1. [Accounts!Next]_Accounts!vars
    BY <1>2 DEF MCNext, accounts, Accounts!vars
  <2>. QED
    BY <1>1, <1>2, <2>1
<1>. QED
  BY <1>2, AInvInit, AInvNext, PTL DEF MCSpec, DeadLinksMoveNothing
=============================================================================
