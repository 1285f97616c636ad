# A TLA+ model of CC-Platforms

CC-Platforms is a set of web products around one identity service: **identity**
(accounts, departments, sessions), **Pulse** (weekly reports written from GitHub
activity, code search and chat) and **Forge** (a playground for running small
ML and LLM workflows), with two shared packages, `packages/core` (verification
of access tokens) and `packages/ui` (the browser side).

What is hard in it is not any one function. Every request runs in a thread with
a database session of its own at READ COMMITTED, **no row is ever locked and no
row carries a version**, a change and the signal that follows it are separate
commits, workers and providers fail in the middle, and a product decides on
copies of what identity and GitHub know. These modules model that, TLC checks it
on small instances and TLAPS proves all of the safety properties TLC checks for
every size.

- [Inventory](#inventory) – the parts, their state, what is hard about each
- [Modules](#modules) – what models what, and how state and actions correspond
- [Runs](#runs) – what each run checks, its bounds, what it shows
- [Proofs](#proofs) – what is proved, from what, by which invariant
- [Where the code and its words differ](#where-the-code-and-its-words-differ)
- [Not modelled](#not-modelled) and [what is left](#what-is-left)

## Inventory

Paths are relative to `src/`. `identity/`, `pulse/`, `forge/` stand for
`services/<name>/app/`.

| component | state | operations | interacts with | hard behaviours | what makes it correct |
|---|---|---|---|---|---|
| **identity sessions** `identity/services/auth.py` | `refresh_tokens` (family, `is_revoked`, `replaced_by`), `users.token_version`, `is_active` | login, rotate, logout, list and revoke sessions, logout-all, password change, bump | directory (bumps), revocations, browser | rotation racing rotation and sign-out; replay against deliberate sign-out; change and bump in two commits | an ended family never mints again; no false theft alarm; bumped tokens are refused; claims catch up |
| **accounts and links** `auth.py`, `invites.py`, `platform.py` | `users`, `password_reset_tokens`, `email_change_tokens`, `invites` | register, sign up, send, present or revoke a link; grant, demote, deactivate, delete | sessions, directory | single use by read and write; what a bump kills; deletion decided on what is left of a history | a link works once; a dead one moves nothing; who belonged is not deleted |
| **identity directory** `departments.py`, `teams.py`, `invites.py` | `departments`, `teams`, `memberships` | add, update, transfer, remove member; head and lead; create, delete; accept invite | sessions (bump) | check-then-act guards; cascades; handover of leads; who must be bumped | one membership per department; an admin remains; leads qualify; no team of another department; everyone whose claims moved is bumped |
| **signing keys, JWKS client** `security/keys.py`, `scripts/rotate-identity-keys.sh`, `crescent_core/jwks.py` | key files, what each process has read, the client's cache | prepare, promote, finish, abort, roll back, restart; mint; fetch, wait, judge | every product | processes that read at different times; one fetch for many waiters; cooldown | a good token is never turned away in any phase |
| **revocation publishing and gate** `identity/revocations.py`, `crescent_core/published_revocations.py`, `revocation.py`, `verify.py` | Redis keys with expiry, a version cache per product process | publish, look up, decide | sessions, every product | publication after commit; loss; stale answers stored late; outages | a published revocation is seen at once; no false logout; staleness is bounded; unchecked only after a failure |
| **pulse reports** `pulse/services/reports.py`, `generation.py` | `reports`, `approvals`, `llm_usage` | create, edit, generate, submit, decide, delete, file a repository | budgets, repositories | provider call between check and write; two approvers; delete after submit | status agrees with the log; nobody decides their own; one report a week; nothing unsubmitted changes after submission; spend on usable replies is recorded |
| **pulse budgets** `llm_budget.py`, `provider_limits.py`, `credentials.py` | `llm_usage`, allowances and keys at three levels | set, drop, resolve; check, call, wait, retry, record | reports, index, chat, ad-hoc | sum read before others write to it; raising on one's own money | the platform pays no more than it allowed; the overshoot is bounded |
| **pulse chat, journals, access** `chat.py`, `repositories.py`, `activity.py`, `journals.py` | conversations, messages, journal entries; leads, deputies, recent work | ask, retrieve, store; write, delete; set posts | index, budgets, identity | access, index and conversation change between the steps of a question; one rule written three times | answers quote what could be read; the rules agree |
| **pulse code index** `repo_index.py`, `embeddings.py`, `tasks.py` | `indexed_repos`, `repo_chunks` | ask, ingest, resume, delete | broker, GitHub, embeddings, budgets, chat | overlapping tasks; kills between batches; HEAD moves; halving | a ready index is one whole commit; a run resumes without paying twice; every request is answered |
| **pulse GitHub sync** `sync.py`, `github_client.py` | `repositories`, `commits`, `pull_requests`, `issues` | one pass: read, list, fetch, save, stamp | GitHub, people | windows and cursors; branch cap; overlapping passes | nothing due is behind the cursor; credit is not lost |
| **pulse people and leavers** `identity_client.py`, `leavers.py` | profile cache, `github_accounts` | look up in batches, drop credentials | identity | partial answers; a cache shared by threads | only who has left loses a credential, and they do |
| **forge runs** `forge/services/runs.py`, `tasks.py`, `llm_budget.py` | `workflow_runs`, `llm_usage` | queue, dispatch, execute; delete under a run | broker, budgets, datasets | commit then dispatch; redelivery; death of a worker; budget checked at queue time | a run is queued, running or answered, never lost; the ledger has every answer |
| **forge steps, execution, code generation, images** `steps.py`, `execution.py`, `codegen.py`, `images.py` | `workflow_steps` | validate, save, run, export | runs | one meaning in two programs | the script does what the run did |
| **browser session** `packages/ui/composables` | the token pair of a tab | refresh on 401 and on a timer, sign out | sessions | parallel 401s, several tabs | a refresh is never replayed by the same browser |
| **personas, service clients, prompts, adapters, PDF, mail, HTTP surface, frontends, migrations** | none, or rows of one owner | – | – | – | – |

How they interact. A sign-in at identity gives a browser a *pair*: a refresh
token, stored hashed in `refresh_tokens`, and an access token that carries the
account's `token_version` and memberships. Products verify access tokens
themselves: signature (JWKS), then Redis, then a cached `token_version` lookup
at identity. Any change of authority at identity is committed first and then
*bumps* `token_version` in a second transaction, which publishes to Redis in a
third step. Pulse and Forge do their slow work in Celery tasks sent after a
commit, and spend against a ledger that is summed before each call. Pulse's
access rules follow from what its pass over GitHub copied and whom it was
credited to; Pulse asks identity for names and for who has left.

The hazards these give rise to are listed, each at its line, in `PROJECT.json`.

## Modules

| module | models | composed of |
|---|---|---|
| `Sessions` | `auth.py`: rows, families, versions, concurrent requests | – |
| `Accounts` | registration, links and invites, platform administration | its bumps are steps here; what a bump does to sessions is `Sessions` |
| `Directory` | departments, teams, memberships and the bump each change owes | its `Bump` is the `readBump`/`bump` of `Sessions` |
| `RevocationGate` | publication, Redis, the cached lookup and the verdict | takes `token_version` bumps as steps; how two bumps overlap is `Sessions` |
| `SigningKeys` | the rotation script, what processes have read, the key cache of a product | – |
| `ReportContract` | what Pulse promises of a report: a text and a log | – |
| `Reports` | the weekly report workflow under concurrent requests | implements `ReportContract` when requests do not overlap |
| `RepoIndex` | one indexed repository, its tasks and its budget | – |
| `Answers` | who may read a repository, questions, excerpts, journals | an index is `none`, `busy` or `ready` here, its contents are `RepoIndex` |
| `Sync` | a pass over one repository, two at once, people who push and leave | – |
| `People` | profile lookups, their cache, the drop of leavers' credentials | – |
| `Credentials` | whose key and whose allowance a call goes by | one call is one step; overlapping ones are `Spending` and `Reports` |
| `Spending` | checks, throttling, retries and ledger rows of one person's requests | the allowance is a constant, `Credentials` says which |
| `ForgeRuns` | queueing, dispatch, execution, the ledger | the outcome of a run is a choice, `ForgePipeline` says which |
| `ForgePipeline` | validation, order, the run and the exported script, as functions of steps and data | – |
| `MCSessions`, `MCRevocationGate`, `MCRepoIndex` | instances for TLC: symmetry, prices | extend the module they name |
| `MCDirectory`, `MCReports` | two instances each, one request at a time and overlapping | extend the module they name |
| `MCIdentity` | the gate failing and well, the keys, the accounts | extends `RevocationGate`; instances of it, `SigningKeys` and `Accounts` |
| `MCPulse` | what may be quoted, passes, leavers, allowances, spending | extends `Answers`; instances of `Sync`, `People`, `Credentials`, `Spending` |
| `MCBackground` | the index, the runs and the canvases of Forge | extends `MCRepoIndex`; instances of `ForgeRuns`, `ForgePipeline` |
| `SessionsProofs`, `DirectoryProofs`, `ReportsProofs` | theorems | extend the module they name |
| `IdentityProofs`, `PulseProofs` | theorems of all the modules in one run | extend `MCIdentity`, `MCPulse` |
| `BackgroundProofs`, `ForgeProofs` | theorems of `RepoIndex`; of `ForgeRuns` and `ForgePipeline` | extend `MCBackground` |
| `Totals` | lemmas about least and largest members, and about sums | – |

The assumptions on a module's constants are in its operator `Settings`, or in
an ASSUME where it is a module that runs extend. The MC module that makes the
instance takes the constants from its `.cfg`, ASSUMEs the `Settings` of each,
and so TLC evaluates, on every run, what the proofs assume.

**A request is a read step and a commit step.** The read step evaluates every
check of the handler and leaves in `req` what the handler keeps in local
variables or in ORM objects; the commit step writes only the columns the
handler changed, onto whatever the rows are by then, and fails where a
constraint or a missing row would fail it. A handler that depends on nothing it
read is one step. A commit expires ORM objects, so what follows one reads again.
This is the whole memory model: nothing else orders two requests.

*Sessions.* A `Token` is a refresh row and the access token minted beside it
(`row` holds what both fix: account, family, `token_version`, claims); a family
is named by its first row. `revoked` and `next` are `is_revoked` and
`replaced_by`. The rotation of `rotate_refresh_token` is a read of the token
row, a read of the account, and one of four commits. `claims` is a version
number for memberships and roles, moved by the directory handlers, which then
bump. `presented`, `alarmed`, `signedOut`, `condemned` and `crashes` are history.

*Accounts.* A `link` is a row of `password_reset_tokens`, `email_change_tokens`
or `invites`, told apart by `kind`; one that has expired is one nobody presents.
A handler's ORM object remembers the `tv` it read and writes that plus one, so
an accepted invite may lose a bump made meanwhile, as in the code. An invite
is stored after its mail went out: `CreateInviteLate` goes by who belonged, and
which invites were pending, some time before. `leaves`
counts what may let somebody in again: leaving, moving to another address and
the deletion of an account. One
department; who leads or heads is `Directory`.

*RevocationGate.* One account, one product process. `now` counts, `lag` is how
far the product's clock is behind, `keyUser` and `keySid` are the Redis keys with
their expiry, `cache` is one `_cache` entry, `req` the requests inside
`verify_token`. A publisher commits, re-reads the version where the code does,
and then sets its key, so **two publishers may set in the wrong order**.
`disturbed` tells the states after a call to Redis has failed, a bump has been
made while another publication had read the version, or the account was deleted
before the version could be read again (`ReloadFails`). `last` is the verdict of
the last step and is empty after any other.

*SigningKeys.* A key is a number, its `kid` the same number. `disk` is the key
directory after a command of the script, `proc[i]` what instance `i` has read of
it: private and public half each when first needed, the retired ones at start.
`client` is one `JWKSClient`, `waiting` the verifications that share its fetch.
`late` marks the one case the script's printed steps do not cover.

*Directory.* `members[m]` is a row or `None`; a plan in `req` names the row to
insert, change or delete, the columns an UPDATE writes (`Keep` for the others),
the teams and headship that change hands, and whom to bump. `stale` holds the
accounts whose `Claims` a commit has moved and no bump has followed. Foreign
keys, the unique constraint and both cascades are in `CanInsert`, `CanWrite`
and `Drop`. The caller is a platform admin, whom no guard stops.

*Reports.* `status`, `author`, `text`, `dept` are columns, `log` the approvals in
commit order with the transaction time `now()` gave them – which is the time the
transaction *began*. A generation asks the model at most twice (`Retry`,
`GiveUp`): a reply that is empty or is not the JSON it should be is charged for
and thrown away. `paid` is what the provider charged, `wasted` what of it was for
such replies, `ledger` what was recorded.

*RepoIndex.* `stored[f, s]` counts the copies of file `f` at commit `s`: the
table itself does not say which commit a chunk came from, the history in this
model does, and `StoredPaths` forgets it as the code does. `task[w].todo` is the
deque of batches; `seen` is the `ingest_sha` the run read when it started.
`used` is today's ledger of the owner. A killed process loses its message, its
task or its undelivered request (messages are acknowledged before they run). The
broker may take a message and its answer be lost (`DispatchUnclear`): the row then
says that it failed and the task runs.

*Answers.* A question is three steps: what may be searched (`Put`), the excerpts
(`Retrieve`), the stored answer and its citations (`Store`), with providers
called in between. `CanSee` is `_can_see_repo`, `VisibleScope` the same rule as
the query `visible_repo_scope`, `MayWrite` the journal's narrower one. Anyone may
index any repository, Pulse may come to track it afterwards (`Track`), and an index
that is older than the row of its repository has no `repo_id` (`loose`) until it is
asked for again.

*Sync.* One repository: passes over several share only the login map read at the
start (`map`; `was` is the author each row it fetched had). A `Login` is a GitHub
account: it is connected by one person at a time (`account`), may be given up and
be connected by a colleague, and `owners` remembers all who had it. A commit has a branch, an author, a date of its own and the moment it was
pushed; an item is a pull request or an issue and its `updated_at`. All rows of a
pass on one repository are one transaction (`Save`). `listed` is when the pass
that wrote the cursor listed the repository.

*People.* Each thread asks for what its cache lacks, batch by batch; an answer is
stored some time after identity gave it. Silence is any way a batch fails.
`since` is how long ago someone last left or came back.

*Credentials* and *Spending.* `key` and `cap` are rows of `api_credentials` and
`token_budgets` by scope; two rows for one owner may exist, since the unique
constraint contains a column that is NULL in each row, and a lookup takes either.
In `Spending` a request is its remaining calls; a check compares the ledger with
the next estimate, and the ledger row comes with the result.

*ForgeRuns.* One learner and workflow. `queue[r]` counts the messages of a run:
the broker may take a message and lose its reply, so that the request reports a
failure and the run happens all the same. `job[w]` holds the tokens a worker has
been billed and not yet stored, `wasted` those billed for a reply that was empty,
which `ai_provider.py` raises as an error and nothing stores. Retries that the
OpenAI client makes by itself are not modelled.

*ForgePipeline.* A table is its columns and the list of what was done to them, an
archive a set of entries; `Execute` and `Script` give the final table, model and
refusal. The canvas (`draft`) is edited in any order and stored as `Cleaned`.
`Prepared` is the loop of `run_tabular`, a fold of `Prepare` over the steps, and
`Complaint` the checks after it; `LagBlock`, `MissingBlock`, `EncodingBlock` and
`WrittenFeatures` are the blocks `_tabular_blocks` writes, each from the last
step of its kind. `Ordered` sorts by counting (`Rank`), which is what a sort by
place and then position comes to.

## Runs

A run is a question, or a few that need no state of each other's. `MCIdentity`,
`MCPulse` and `MCBackground` put several modules in one run: the
variable `part` is chosen at the start and only that module moves, the others
staying in an initial state. Nothing is gained from interleaving them, and
nothing is claimed of it. Where two parts are of one module (`accounts` and
`rush`, the four of `Sync`) they are one instance, and a part says which of its
steps it leaves out, so that each goes far in what it is about; the theorems are
of the instance, whatever is left out.

| run | asks | result |
|---|---|---|
| `sessions` | 1 account, 3 rows, up to 2 requests, a version and a claims change, a crash: seven properties of rotation, alarm, sign-out and bump | holds |
| `sessions_rotation_fork` | is a refresh token honoured once under concurrency? | **violated**: two rotations of one token both succeed |
| `identity` | five parts. *outages*: Redis and identity fail at will, two overlapping lookups: no false logout, bounded staleness, unchecked only after a failure. *healthy*: both are well and the product's clock is behind; in both parts, is a published revocation seen by every later request until Redis fails or a publication is overtaken? *keys*: 3 keys, 2 instances, one product, every command of the script: is a good token ever turned away? *accounts*: 2 accounts, 2 addresses, 2 links, one request at a time; *rush*: two requests on one invite | holds |
| `gate_redis_down` | is an ended session noticed without Redis? | **violated** |
| `directory` | *alone*: 3 people, 2 departments, a team, 3 rows, one request at a time: an admin remains, leads qualify, own team, nobody left with old claims. *races*: 2 requests overlap on 1 person: one membership per department | holds |
| `reports` | *overlapping*: 2 people, 2 rows, 2 requests, a repository that stays where it is filed: status agrees with the log, decisions answer submissions. *serial*: one request at a time, 2 departments, a crash, an unusable reply: the contract, stamps, spend, cap | holds |
| `reports_regenerated` | can a submitted report's text change? | **violated** |
| `pulse` | eight parts. *people*, *items*, *branches*, *passes*: `Sync` with 2 people and 2 GitHub accounts that change hands; with issues; with more branches than may be read; with two passes. *leavers*: 2 people, batches of 1, a page and the pass. *chat*: 1 repository, tracked from some moment on, an asker and an admin. *credentials*: a person, a department and the platform, a row each. *spending*: 2 requests of up to 2 calls | holds |
| `background` | three parts. *index*: 4 files (one without text) in 2 commits, batches of 2, a cap of 3 that forces halving and pauses, 2 outstanding requests, one kill: whole, resumable, within the cap, always answered. *runs*: 2 runs, 1 request, 2 workers, a kill, a lost reply of the broker, an empty one of the model. *canvas*: 25 steps, 5 archives, 6 kinds, 2 edits from each template | holds |
| `index_overlap` | 2 tasks: does a ready index hold one snapshot? | **violated** |
| `forge_export` | does the exported script do what the run did, for everything that validates and runs? | **violated** |
| `adhoc_allowance` | does a report that starts inside the allowance finish inside it? | **violated** |

Why the bounds are enough to be interesting. Three refresh rows are a rotation
and its successor beside a second family, or a chain of three; one bump is
enough to condemn a pair minted before it and one claims change to make a token
stale. The gate's clock runs past `Life + Skew` when healthy and past
`TTL + Latency` in the parts that fail, so keys and entries expire inside the
run. Three signing keys are a rotation completed and another begun. An invite
needs two workers and two accounts to be used twice. In `directory`, three rows
are the member who goes, the one who takes over and a third who would be
stranded, or somebody in both departments beside a colleague. `MaxStamp` 3 and
4 are submit, decide and submit again. `MaxWasted` 1 is a reply charged for
nothing before or after one that is used. The clock of `Sync` reaches 3 or 4 with
an overlap of 2 and a latency of 1, so that a commit may fall out of the window
and a push may land between the listing and the stamp; `MaxAccountMoves` 2 is an
account given up and connected by somebody else before its commits are listed
again. `People` has a latency
and a lifetime of 1 each and two batches; the bound `Long` it proves tight there
fails when lowered by one. `SpendIsBounded` likewise fails with one call less,
alone and with two requests, which is what `MaxBilled` 10 is for. The index
needs four files to have a batch that is split, a batch that is skipped and a
file that alone exceeds what is left; `used` starts anywhere up to the cap. Two
runs and two workers let a message be delivered twice and be overtaken.

Properties that the code keeps only while requests do not overlap say so
(`Alone`, `crowded`, or the part they speak of). Every bound is a CONSTANT named
in its module. Deadlock is not checked: the bounds on versions, rows, crashes
and time make every model stop, and a server with nothing to do is not stuck.

**Fairness** is assumed only in `RepoIndex` and `ForgeRuns`: a request that has
committed goes on to dispatch (the same function, no wait in between), and a
worker takes a message and goes on with its task (Celery's loop; the provider
clients have timeouts). Workers serve the queue in order, so a run whose message is
there again and again is taken in the end (strong fairness of `Take`, per run). Nothing is assumed of users, GitHub, providers, the
clock or pushes. A provider failure is never *required*: `EveryAskIsAnswered`
holds because a batch is halved until it fits or ends the run, `RunsFinish`
because every path through a task stores an outcome.

Every property is broken by a plausible mistake in the code it is about: the
operators marked `Fault:` in the modules are those mistakes – a family filter
dropped, a cache entry that lives a TTL too long, a handover that bumps only one
side, a cursor stamped at the end of a pass, a leaver told by what was not
answered, a resume that ignores the commit, a batch requeued whole.

## Proofs

Checked by TLAPS for every value of the constants the assumptions allow
(sentinels are not members of the sets they mark; bounds are naturals; `TTL > 0`;
waits in the order the scripts print them; `Latency < Overlap`, a call of fifteen
seconds against seven days). None limits the number of requests, rows, accounts,
files, keys or tasks, and none of the parameters of a run is among them.

**Sessions** (`SessionsProofs`)

| theorem | says | because |
|---|---|---|
| `TypeCorrect` | types | – |
| `RotationNeverLeaves` | a replaced row is revoked, its successor exists, same family and account | rows only gain marks; what a request remembers of a row stays true (`IInv`) |
| `AlarmNeedsReplay` | the theft alarm needs two presentations of that row | a row with `replaced_by` has been presented once (`ReplacedWasPresented`) |
| `EndedForGood` | a family with no live row and no rotation in flight never mints again (action property) | a rotation starts from a live row (`StartsLive`); a new row founds a family or follows a rotation (`Breeds`) |
| `HonouredOnce`, `SignOutLasts`, `BumpIsFinal`, `ClaimsFollow` | one request at a time: one live row per family; a family signed out stays out; a bump kills every access token held before it; an accepted token carries the present claims | what the one request remembers is the present (`SerialInv`) |

**Identity** (`IdentityProofs`: `RevocationGate`, `SigningKeys`, `Accounts`)

| theorem | says | because |
|---|---|---|
| `GateTypeCorrect` | types | – |
| `NoFalseLogout` | the gate refuses only what identity has revoked | whatever is quoted as identity's word – key, cache entry, answer in flight – was true when said, and revocation is for good (`KeysOK`) |
| `BoundedStaleness` | accepted on identity's word means outdated for less than `TTL + Latency` | an answer that has become false did so after its lookup began (`CacheOK`, `RequestsOK`), so even one stored over a newer answer expires in time |
| `UncheckedOnlyAfterFailure` | a token is accepted unchecked only within a lookup and a back-off of a failed lookup (`Backoff > 0`) | the request that failed began before the failure, and the entry it stores ends a lookup and a back-off after it (`FailuresOK`), whatever is stored in between |
| `PublishedIsFelt` | a published revocation is refused by whoever asks later, until Redis fails or a publication is overtaken | a token expires within its life of the bump or the ending that kills it (`TokensOK`); undisturbed, that is still to be published, or its key is there and lives as long, skew included (`Calm`) |
| `NoTokenTurnedAway` | a genuine token passes wherever a product gets an answer, in every phase of a rotation | keys in use are in every document on its way and in what a product has, or that is old enough to be fetched again (`KeysFit`); the script's waits are longer than what documents live |
| `LinkTakesEffectOnce` | an invite admits one person once, and one more for each departure, however many requests present it; other links work once where requests do not overlap | count who may *still* come in by it (`Entrants`): at most one at first, every admission takes one away, only a departure brings one |
| `MembersAreKept`, `BumpedLinksMoveNothing` | one request at a time: who ever belonged is not deleted; a confirmation link sent before a bump moves nothing | what the request has read is still so (`AloneOK`), the history is where `_history_reason` looks (`PastOK`), a dead link's account was bumped since (`MovesOK`) |

**Directory** (`DirectoryProofs`)

| theorem | says | because |
|---|---|---|
| `DirectoryTypes` | types, and every `team_id` and `dept_id` names a row | cascades cover every row that names what they drop; `CanWrite` and `CanInsert` are the foreign keys |
| `NobodyTwice` | one membership per person and department | the constraint speaks of the account the plan names, so the plan and its row must still agree (`PlansFit`) |
| `LeadersStayQualified`, `TeamsStayHome`, `BumpsReachAll`, `AdminsRemain` | one request at a time: leads and heads keep the role that lets them; nobody is in another department's team; whose claims a commit moved is in the bump still owed; the last admin stays | a plan's guards hold when it commits, and the handover of a plan covers everybody led by the row it changes (`PlanSound`) |

**Reports** (`ReportsProofs`)

| theorem | says | because |
|---|---|---|
| `ReportTypes` | types | – |
| `StatusAgreesWithLog` | the stored status is where the last committed entry put it | status and entry are one commit |
| `NoSelfDecision` | every decision follows, and is dated after, a submission by the author, and is not the author's | a row that is gone never comes back and a log only grows, so the submission a decider saw is still there |
| `OneReportPerWeek` | one weekly report per person | insertion checks in its commit (the unique index) |
| `NoneStranded`, `SpendIsExact` | one request at a time: a report carries its repository's department; the ledger is what was paid less what replies of no use have cost, in any number, and but for those within the cap | what was read is still so (`Serial`) |
| `WorkflowKeepsContract` | one request at a time, each step is one of `ReportContract`, or changes nothing it sees | the same invariant; each commit is matched with the step of the contract it is |

**Pulse** (`PulseProofs`: `Answers`, `People`, `Credentials`, `Spending`, `Sync`)

| theorem | says | because |
|---|---|---|
| `RulesAgree` | what is listed opens, what opens is listed, and who writes may read | the query is a union of what the rule is a disjunction of; writing asks for more of each |
| `NothingUnreadableQuoted` | no stored answer quotes what its reader could not read when the question was put, but from an index older than Pulse's row of the repository (those who ask are people) | what a question in hand may search was readable when it was put (`AsksOK`), and each step narrows it, whatever becomes of access and of the index |
| `LeaversAreDropped` | who loses a credential is away or came back less than `Long` ago, and an answered pass leaves nobody who went away `Long` ago (action property) | with `k` batches to go, what a pass has read wrongly is younger than `Long` less the time they take (`InTime`); so is what the cache has (`CacheOK`) |
| `MoneyIsCapped` | who has no key and no grant behind them spends at most the platform's most permissive allowance of the platform's money | no allowance of theirs is above it (`CapsAreWithin`) and no upsert in flight would write one (`Wanted`) |
| `SpendingIsBounded` | what is billed is recorded, in hand or lost; ledger and what is in hand exceed the allowance by less than the calls of the requests that overlap | the ledger and the sum of what each request has spent and been let through to spend (`Load`) |
| `NothingMissed` | what was pushed before the cursor's pass listed the repository, soon after it was made, is stored | a pass's catch is whole (`Whole`), since what its window leaves out was due by the cursor it has read (`Relied`), a push before the listing shows in `pushed_at` (`Foreseen`), and a branch whose head is stored is stored as far as it is due (`InLine`) |
| `ItemsFollow` | passes one at a time: no item touched before the last pass that saved is out of date | what the pass did not bring is as it was at the cursor it has read (`Abreast`) |
| `CreditIsKept` | no step blanks the credit for a commit, and whoever has it before and after had its author's account connected (action property) | the login map of a pass and what it has read of a row name owners only, and an owner is one for good (`Owned`) |

**Background** (`BackgroundProofs`: `RepoIndex`)

| theorem | says | because |
|---|---|---|
| `NobodyForgotten` | while no process dies, a pending row has a request or a message behind it and a running row a task, however tasks overlap | each step that moves the one moves the other (`Kept`) |
| `ReadyMeansWhole`, `ResumesWhatItHas` | one task at a time: a ready index holds every text of its commit once and nothing else; an unfinished run has chunks of the commit `ingest_sha` names only | exactly the texts still in the deque are missing (`Serial`): a listing holds every file once, cutting it into batches and halving one keep that, the first batch stored takes its files from both sides |
| `AllowanceHolds` | one task at a time: nothing is billed past the allowance | a batch is embedded only if it fits what is left, and nobody else writes the ledger |

**Forge** (`ForgeProofs`: `ForgeRuns`, `ForgePipeline`)

| theorem | says | because |
|---|---|---|
| `RunsNeverForgotten` | a queued or running run has a message, a request or a worker behind it unless a process was killed | what requests and workers have in hand from one step to the next (`Hands`): who gives a run up has handed it on or finished it |
| `LedgerStaysExact` | what was charged is in `llm_usage`, with the worker that will write it, or went on empty replies; but for those the cap holds for who waits for one run before the next | bill, ledger and jobs in hand balance (`Recorded`); with one run at a time it is in one place (`OneRun`), and what its check let through covers what it costs (`Budgeted`) |
| `ExportIsFaithful` | where a stored workflow is `PlainlyWritten`, a run of it that succeeds did what the exported script does, whatever the steps, their parameters, the columns, the archive and the order on the canvas | only a sequence that was validated whole is ever stored (`Stores`, `CanvasInv`); sorted without two steps of a kind, each kind comes once and after those before it (`Sorted`); what the loop has prepared after `m` steps is what the blocks for those `m` steps say (`Reached`, by induction on `m`); what a successful run has checked is what would make the script fail |

How they go.

*Overlap.* Most theorems hold however requests interleave, and their invariant
says what a request in flight remembers and which part of that stays true of the
store while others move. The first of each pair of facts in such an invariant
was found to be needed when the property alone failed to be preserved:
`NoFalseAlarm` says nothing of a rotation that is about to raise it,
`AcceptedIsFresh` nothing of an answer still on its way, `OneMembershipPerDept`
nothing of a plan whose row was replaced, `NothingBehindCursor` nothing of a
pass that will move the cursor.

*One at a time.* Where the code promises something only to requests that do not
overlap, `Alone` says that at most one worker of the model is on: which are off is
settled in the initial state, so `Alone'` is `Alone`. Then everything the one
request has read is still so when it commits, and that is the invariant
(`Serial`, `Serially`, `SerialInv`; `~crowded` in `Accounts` and `Forge`, where overlap is
recorded when it happens).

*Parts.* The theorems of `IdentityProofs`, `PulseProofs` and `ForgeProofs`
about an instance are of the behaviours of `MCSpec`. Each step of it is one of
the instance or leaves its variables alone, which is all the argument uses; so
it would do as well for the module's own `Spec`.

*Sums.* `SumFunction` of the community modules is a fold, recursive underneath.
`Totals` proves what it means (the value at one member and the sum over the
rest), by induction on finite sets. The library's induction rules take an
operator, which the provers cannot instantiate; so the induction is over the
members of a *set* of subsets, which is an ordinary bound variable and follows
from the well-foundedness of `<` on the naturals.

*Two programs on one list.* `ExportIsFaithful` compares a fold over a list of
steps with a script that looks steps up by kind. `FoldLeft` is a fold over a set
of positions, defined by CHOOSE; that the function it chooses exists, and that
its value at the first `m` positions follows from the value at `m - 1`
(`PreparingExists`, `PreparedUnfolded`), is again an induction over a set of
numbers. What `m` steps come to (`Reached`) is then written down in closed form
from which kinds are among them: a step of the sorted list can only be of a kind
that has not come yet, so it changes just one part of the table, and the lag step,
which throws away the columns before it, comes before all that count. The
hypothesis `PlainlyWritten` is needed as it stands: without any of its conjuncts
`forge_export` has a counterexample.

Model-checked only:

- `EveryAskIsAnswered` and `RunsFinish`: liveness under fairness needs ENABLED,
  which is out of this prover's reach.
- The properties shown *violated* below, of course.

## Where the code and its words differ

Shown by a run:

- *A refresh token works once* (`auth.py:219`, `test_auth.py:126`). Two
  concurrent refreshes with one token both succeed (`sessions_rotation_fork`).
- *A lost publication is caught by the version lookup* (`revocations.py:64`).
  Not when one session was ended: that moves no version (`gate_redis_down`).
- *A submitted report cannot be edited or regenerated* (`generation.py:210`,
  `reports.py:170`). It can, by a request that checked before
  (`reports_regenerated`).
- *A re-index is a replacement, not two snapshots answering at once*
  (`repo_index.py:260`). Not while two tasks ingest the row (`index_overlap`).
- *What runs and what is exported can never disagree* (`steps.py:283`). Both sort
  alike and then differ (`forge_export`): a forecast whose target is a lagged
  column runs and its script stops, since the script looks the target up before
  it builds the lags; duplicated steps, columns that do not exist, a feature list
  of the target alone and the settings of `linear_regression`, which the run
  drops and the script writes, are others. `PlainlyWritten` lists the cases;
  outside them the two agree. So do images: loose files make a class of their own
  for the run and are not counted by the check before it.
- *Checking every section keeps a report inside the allowance* (`adhoc.py:349`).
  All are checked against a ledger written after the last (`adhoc_allowance`);
  `SpendIsBounded` says by how much it may overshoot.

Excepted by name in a property that holds otherwise:

- *The cap refuses spending instead of reporting it* (`generation.py:222`), *the
  ledger is the only record of what was spent* (`forge/services/llm_budget.py:61`).
  A reply that is empty, or for a report not the JSON it should be, is charged for
  and recorded nowhere (`llm.py:79-102`, `forge/services/ai_provider.py:54`, `:79`).
  No check sees it, so nothing bounds it over a day: `wasted` in `AloneSpendIsExact`
  and `LedgerIsExact`, which would be false without.
- *The repo has to still be visible now* (`chat.py:107`). An index asked for before
  Pulse had a row of the repository keeps `repo_id` NULL (`repo_index.py:616`) and
  is searched whatever becomes of the repository, until it is asked for again:
  `loose` in `QuotesWereReadable`.
- *Attribution is history, not a live permission* (pulse `README.md:356`). The credit
  is never blanked, but whoever has the GitHub account connected now overrides the
  author the row has (`sync.py:154`): who connects an account a colleague has given
  up takes over what is listed again. `CreditStays` says that it goes no further.

Seen with more workers than the runs use, or while modelling, without a run of
their own:

- With two requests in flight what `AloneNoneStranded` and `AloneSpendIsExact`
  (Reports), `SignedOutStaysOut`, `BumpKills` and `ClaimsCurrent` (Sessions) and
  all properties of `directory` but `OneMembershipPerDept` say would fail: each
  rests on a check that nothing holds until the commit. That is why they are
  stated for requests that do not overlap.
- With two publishers the older version may be written last, and a revoked token
  is then accepted although its revocation was published. `PublishedDies`
  excuses what `disturbed` records.
- An invite may admit two people when the first one's account is deleted while
  the second request is under way: three overlapping requests, which the proof of
  `LinkTakesEffectOnce` showed and `leaves` counts.
- Were the time between listing and stamp as long as the overlap, a push in
  between could be missed by every later pass: `NothingMissed` needs
  `Latency < Overlap`, and nothing less would do.
- `confirm_email_change`, `reset_password` and `accept_invite` write a
  `token_version` they read earlier: a bump committed meanwhile is lost.
- `platform.py:34` says the workspace cannot be locked out. One admin deactivates
  the other, who keeps the flag, and then revokes their own. Two administrators
  who revoke each other at once leave none, and `register_user` makes the next
  visitor one.
- `credentials.py:264` says you may only relax a limit on spend you are paying
  for. Raise your allowance while your key is installed, then delete the key: the
  platform pays up to the raised allowance (`OnlyPayersRelax`, which is why
  `PlatformMoneyCapped` excepts who had a key). Lowering the platform's allowance
  leaves rows set before above it.
- The unique constraints on credentials and budgets include a column that is
  NULL in every row, so the database enforces none of them, and the branches that
  answer 409 are never taken; racing upserts leave twins.
- `main.py:18` says keys are read once at start, `rotate-identity-keys.sh:297`
  that an unrestarted instance keeps working. The pair is read when first needed:
  an instance that had only served its JWKS signs with the new key under the old
  `kid` after a promotion (`late`). An interruption between lines 282 and 285 of
  the script leaves no private key and only `abort` to run.
- A person may be lead and deputy at once when both are set at the same time.
- A deleted index or conversation makes the commit of an answer fail after its
  tokens were billed; `chat.py:280` checks without the embedding it just paid.
- `repo_index.py:482` bills per batch so that a failing run shows in the ledger;
  `embeddings.py:93` loses what earlier requests of the same batch cost.
- A commit of a branch behind `GITHUB_SYNC_MAX_BRANCHES` is asked for later only
  from the cursor's overlap on, and may never be stored (pulse `README.md:317`).
- Someone who came back within `TTL + Latency * (1 + batches)` may still lose the
  stored credential as a leaver.
- A worker that dies leaves an index, a Forge run or a `sync_run` running for ever.

## Not modelled

Text (prompts, PDF, mail), presentation, migrations, and the numbers models
learn have no protocol to check. HTTP routes only name the service functions.
Service-client tokens are stateless. Personas are rows of one owner, set in one
transaction. Access-token expiry is modelled in `RevocationGate` and
`SigningKeys` and left out of `Sessions`, where it could only refuse more. Names
and slugs of departments and teams, and comments on reports, change nothing a
property here speaks of. Of `SigningKeys` and the rotation script, `--force`, `rotate-now` and `prune`:
the first two skip the waits the property rests on. Of the sync, paging and
GitHub's rate limits, logins and repositories that are renamed, and how commits
are collapsed for a report. Of uploads,
listing and previewing. The browser's side of a session is the one protocol that
is missing: its losers meet `RefreshReuse` of `Sessions`.

## What is left

- `BrowserSession`: tabs and parallel 401s over an abstract `Sessions`.
- The composition of `Directory`'s bump into `Sessions`' version into the gate,
  with the end-to-end bound "a demotion is felt within a commit, a publication
  and a cache lifetime".
- An abstract session (*live or ended*) for `Sessions` with requests one at a
  time, and an abstract index (*the commit it answers from*) for `RepoIndex` with
  one task, with the refinements proved as `WorkflowKeepsContract` is.
