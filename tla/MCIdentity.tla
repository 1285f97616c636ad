----------------------------- MODULE MCIdentity -----------------------------
(* Instances for TLC of what keeps tokens and accounts of identity in      *)
(* order.  The parts share no state, so a behaviour is of one of them, the *)
(* others staying as they began: the revocation gate with Redis and        *)
(* identity failing, the gate with both of them well, the signing keys,    *)
(* and the accounts.                                                       *)
EXTENDS RevocationGate, TLC

CONSTANTS
  Caller,
  Instance, MaxKeys, PublishWait, RetireWait, Floor, DocumentTTL, TokenLife, \* of SigningKeys
  User, Address, Link, Worker, Invite, Clerk, MaxLeaves, MaxTokenVersion     \* of Accounts

VARIABLES
  part,
  disk, made, since, settled, restarted, proc, tokens, client, waiting, refused, late,
  account, link, visit, done, leaves, past, gone, crowded, founded

keys     == <<disk, made, since, settled, restarted, proc, tokens, client, waiting, refused, late>>
accounts == <<account, link, visit, done, leaves, past, gone, crowded, founded>>

Healthy == INSTANCE RevocationGate WITH
  Request <- {Caller}, Life <- 2, Skew <- 1, TTL <- 1,
  RedisFails <- FALSE, IdentityFails <- FALSE, MaxVersion <- 2, MaxTime <- 5

Keys == INSTANCE SigningKeys WITH
  Publication <- PublishWait, Retirement <- RetireWait, TTL <- DocumentTTL, Life <- TokenLife

Accounts == INSTANCE Accounts WITH req <- visit, MaxVersion <- MaxTokenVersion

ASSUME IdentityAssumption == Keys!Settings /\ Accounts!Settings

MCInit ==
  /\ part \in {"outages", "healthy", "keys", "accounts", "rush"}
  /\ IF part = "healthy" THEN Healthy!Init ELSE Init
  /\ Keys!Init /\ Accounts!Init

(* The clerk is one request at a time and follows several links; the others *)
(* are several requests that follow one, the invite.                        *)
OneAtATime == \A w \in Worker \ {Clerk} : visit'[w] = visit[w]
OneLink    == \A l \in Link \ {Invite} : link'[l] = link[l]

MCNext ==
  \/ /\ \/ part = "outages" /\ Next
        \/ part = "healthy" /\ Healthy!Next
     /\ UNCHANGED <<part, keys, accounts>>
  \/ part = "keys" /\ ~late /\ Keys!Next /\ UNCHANGED <<part, vars, accounts>>
  \/ /\ part \in {"accounts", "rush"} /\ Accounts!Next
     /\ IF part = "accounts" THEN OneAtATime /\ link'[Invite] = link[Invite]
        ELSE OneLink /\ visit'[Clerk] = visit[Clerk]
     /\ UNCHANGED <<part, vars, keys>>

MCSpec == MCInit /\ [][MCNext]_<<part, vars, keys, accounts>>

(* The two of each kind change places, some kinds together. *)
Together(f, S) == \A x, y \in S : f[x] = x <=> f[y] = y

Symmetry ==
  {f \in {r @@ i @@ u @@ l @@ a @@ w :
           r \in Permutations(Request), i \in Permutations(Instance), u \in Permutations(User),
           l \in Permutations(Link \ {Invite}), a \in Permutations(Address), w \in Permutations(Worker \ {Clerk})} :
     /\ Together(f, Request \cup Instance \cup User)
     /\ Together(f, (Link \cup Worker \cup Address) \ {Invite, Clerk})}

-----------------------------------------------------------------------------
(* What Accounts and SigningKeys promise. *)
LinksWorkOnce        == Accounts!LinksWorkOnce
DeletedNeverBelonged == Accounts!DeletedNeverBelonged
DeadLinksMoveNothing == [][part = "accounts" => Accounts!DeadMovesNothing]_<<part, accounts>>
GoodTokensPass       == Keys!GoodTokensPass
=============================================================================
