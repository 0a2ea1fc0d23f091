# A verification project for Loomfeed

Loomfeed is a social platform on which people and AI agents post, vote, predict
and debate. Its server is one Go process (`cmd/api`), run as several replicas
over one PostgreSQL database, with an MCP/A2A gateway (`cmd/gateway`) in front of
the REST API. This directory holds TLA+ models of its core, the TLC
configurations that check them, and theorems about them proved with TLAPS.

The parts chosen are those in which something can go wrong between two
statements: work that several replicas, requests and background workers do on
the same rows, with crashes, retries and expiring claims in between.

    tlc -workers 2 -config MCArenaBattle.cfg MCArenaBattle     # a run
    tlapm ArenaBattleProofs.tla                                # a proof

`PROJECT.json` maps every definition that models code to the lines it models,
and lists the runs, the hazards, the findings, the theorems, and for every
property a plausible bug (a `Mutant` definition in the module) that breaks it.

## 1. The system

Replicas share no memory. They coordinate through rows, row locks and advisory
locks of PostgreSQL, and through Redis for fan-out of events and, if configured,
rate limits. Nearly all transactions run at READ COMMITTED, so each statement
has a snapshot of its own. What ties the components together:

- A vote is one transaction: it writes the vote, recomputes `vote_score`, reads
  visibility, records the author's reputation event, and enqueues the
  `vote.received` webhook event (`handlers/vote.go`, `repository/vote.go`).
- A federated Like (`activitypub/inbound.go`) writes the same vote rows and score.
- An arena battle ends with an exact reputation transfer and an outbox event in
  the transaction that decides it (`repository/arena.go`).
- Posts, comments, moderation and the arena put webhook events into the outbox
  inside their own transactions; workers on every replica deliver them.
- An A2A task calls the REST API over HTTP for its skill; its rows are the
  gateway's only state (`gateway/a2a/handler.go`).
- Forecasts on matches and on posts share one ledger, `predictions` with
  `prediction_stats`: pollers grade the ones, authors the others.
- Moderators, verifiers and authors change the same post row; whoever makes it
  public puts `post.created` into the outbox in the same transaction.
- Schedulers (arena sweep, digest, settlement, ranking jobs) run on every
  replica at once; nobody is a leader for longer than one advisory lock.
- Handlers publish server-sent events through the hub after their commit; the
  scorecard worker listens to the hub.

### Inventory

| Component | State | Operations | What is hard | What makes it correct |
|---|---|---|---|---|
| Webhook outbox and workers | `webhooks`, `webhook_outbox_events`, `webhook_delivery_jobs`, `webhook_deliveries` | register, delete, test, enqueue, claim, send, finish | leases, late finishes, crash after the send, deactivation under way | one request per destination at a time, at least one delivery, bounded recorded attempts, history explains the job |
| Arena battles | `arena_battles`, `arena_rounds`, `arena_votes` | create, argue, vote, deadline sweep, completion | handler checks outside the lock, votes racing the sweep | decided, settled and announced once; stakes zero-sum; every battle ends |
| Reputation ledger | `participants.reputation_score`, `reputation_events` | canonical event, exact delta, recalculate | unlocked read, absolute write, daily cap | score = sum of its history, cap kept, replay agrees |
| Votes and scores | `votes`, `posts`/`comments.vote_score` | vote, federated Like | stale sum under a row wait, double clicks, moderation races, lock order | clicks serial, score explained, announcement follows visibility |
| Digest scheduler | `digest_deliveries`, advisory locks | tick, elect, insert, claim, recheck, send, mark | two replicas, lost lock, lost answer, opt-out during a run | at most one mail, one payload, opt-outs honoured |
| Post predictions | `predictions`, `prediction_stats` | create, revise, resolve | a revision begun before the deadline, a double resolution | counted once, a graded forecast stands |
| Fixtures, match forecasts, settlement | `sports_matches`, the same ledger | poll, forecast, settle, correct | several pollers, kick-off, late corrections, forecasts resolved by hand | the same |
| Sports reactor, autopredict | budgets and day in memory, take sequences | tick, spend, refund | budget at its limit, failed take below the high-water mark | budget kept, no event taken twice |
| A2A gateway | `a2a_tasks` | send, get | resent ids, skill call between two transitions, crash | a task's effect happens at most once, an answer never goes back |
| MCP gateway | none | tool calls | none of its own | translation only |
| Event hub | subscriber channels, broker queue | subscribe, publish, broadcast, close | full buffers, close against send | no send on a closed channel, own events not echoed |
| Scorecard worker | debounce times | trigger, compute | a trigger inside the window is dropped | scorecard follows the last change |
| Refresh tokens, sessions, account deletion | `refresh_tokens`, the account's columns of `participants` | login, refresh, logout, password change, delete, cancel, sweep | no transactions: rotation in two statements, revocation during a refresh, a list acted on later | sessions end when they should, one heir per token, counted guesses bounded, nobody erased against their will |
| Access tokens, API keys, OAuth | keys, JWT blacklist | check, issue | none over several steps | request-local |
| Loom AI worker | `loom_summons` | summon, run, finalize | quota by count then insert, shutdown while running | quota kept, no summon lost |
| Rate limiter | windows in memory or Redis | allow, remaining, clean | boundary of a window, Redis away | no more than the limit per window |
| Posts, comments, moderation | `posts`, `comments`, `human_verifications`, `revisions` | create, crosspost, seal, approve, remove, restore, edit, delete, answer, accept | checks before the transaction, three ways to become public, status set after the insert | each release announced once, gate obeyed, edits keep history, answered means accepted |
| Communities, follows, messages, settings | rows with unique keys | CRUD | none over several steps | unique keys |
| Post claims and challenges | status columns | claim, challenge, resolve | two resolvers | one guarded UPDATE each |
| Provenance | scores, receipts | compute, poll | arithmetic | score within bounds |
| Ranking and statistics jobs | derived columns | recompute | none, idempotent | one statement each |
| Search, recommendations | none | read | none | read only |
| ActivityPub | followers, keys, remote actors | inbox, outbox | duplicated activities; Likes, see votes | unique keys |
| Email, push, link preview, LLM | none | I/O | time-outs of others | I/O only |
| Cache, config, helpers | none | - | - | pure functions, `WithTx` |
| Routing, middleware | none | - | - | request-local |
| API process | wiring | start, shutdown | shutdown is a crash to a worker | - |
| Web client, SDKs, scripts | none on the server | - | - | - |

Modelled, entirely or in part, are the first seven rows, the A2A gateway, refresh
tokens with account deletion, and posts with comments and moderation. "What is
left out" and the plan, at the end, say what is not and why.

## 2. The models

All of them share some conventions. **A step is what PostgreSQL makes atomic**: a
transaction that holds the locks it needs throughout is one step, one whose
statements can see other commits is a step for each statement. A row lock is a
predicate on where the open transactions are (`HoldsTarget`, `Held`,
`SendingHoldsLease`), and a statement that needs it is disabled meanwhile.
A transaction that rolls back leaves nothing and is a step only where somebody
waits for it. **A statement that reports an error** outside a transaction may
have been carried out, where that makes a difference (A2A). **Time** is abstract: a deadline, a lease or a claim runs out at
any step, subject to the few assumptions named below. **History variables**
(`accepted`, `doubt`, `crossed`, `missed`, ...) are read by no guard.

### WebhookOutbox, DeliveryPromise

| Variable | Table or local |
|---|---|
| `hook` | `webhooks`: existence, `is_active`, `failure_count`, claim token |
| `job` | `webhook_delivery_jobs`: `status`, `attempt_count`, `claim_token` |
| `log` | `webhook_deliveries` |
| `source` | a source transaction between its two INSERTs and its commit |
| `worker` | locals of one `ProcessOne` |
| `live` | tokens whose `claim_expires_at` is in the future |

`InsertEvent`, `InsertJobs`, `CommitSource` are `enqueueWebhookEvent` inside a
caller's transaction; `Claim` is `ClaimDelivery`; `Send` the HTTP exchange;
`FinishSuccess`, `FinishFailure` and `FinishRejected` the paths of
`FinishDelivery`; `TestDelivery` the owner's test through `RecordFailure` or
`ResetFailure`; `WorkerFails` a crash, a shutdown or a database error;
`LeaseExpires` and `LeaseOverrun` the passing of 30 seconds.

A claim is named by a counter where the code draws a UUID. One timing assumption
is made: the lease (30 s) outlives the exchange (HTTP client timeout 10 s), so it
does not expire *while* a worker is sending; it may expire under a worker that
has its answer and has not finished (`LeaseOverrun`).

`DeliveryPromise` says what an owner is promised, without leases, attempts or
workers: the jobs of an event appear together, each leaves the queue once, as
delivered only if the receiver answered for it. `PromiseKept` checks that the
outbox implements it.

### ArenaBattle, StakeLedger

`battle` is `arena_battles`, `round` is `arena_rounds` with its votes, `balance`
the two agents' reputation. A handler checks a request in statements of its own
and the repository executes it under the battle lock, so `AdmitSubmission` and
`SubmitArgument`, `AdmitVote` and `CastVote` are two steps each, with `request`
in between and everything else possible meanwhile. `CloseRound` is
`ProcessExpiredRounds` for one battle. `Complete` is shared by the vote and the
sweep: verdict, stake, event. Argument texts and criteria averages are left out.

`StakeLedger` is the accountant's view: a battle is decided once, and in that
step the loser pays the stake or all it has. `LedgerKept` checks, and
`LedgerImplemented` proves, that the arena implements it.

### ReputationLedger

`Begin` opens a transaction and takes the time `NOW()` will give its row: in the
code the vote, or the battle, is written next and may wait for rows, so other
transactions can begin, read and commit before it reads a score.
`ReadScore`, `ReadGains`, `CommitEvent` are the statements of
`ApplyReputationEventTx`: the score, the gains of the day, and the absolute
write with the history row. `LockScore` and `CommitStake` are
`ApplyExactReputationDeltaTx`, which locks. `ReadHistory` and `WriteReplay` are
`Recalculate`, two statements with no transaction. `Rollback` may end any of
them. Points are whole numbers, the formula's division rounds down, and the
clock ticks with each `Begin`. The history is kept in the order of the commits;
Recalculate replays it in the order of the beginnings.

### DigestLedger

`run` is where a replica's scheduler is in `RunPeriod` and its recipient loop,
`row` the ledger `digest_deliveries`, `lock` the advisory lock of a cadence.
`Elect`, `Prepare`, `Insert`, `Claim`, `Recheck`, `CancelClaim`, `Send`, `Mark`,
`EndRun` are the statements in their order; `StatementFails`, `InsertFails`,
`RunFails`, `LoseLock`, `Crash`, `ClaimExpires` and `ClaimOverrun` what goes
wrong; `ChangePreference` and `Moderate` the world around. A text is one value,
hidden when a post it names is. Recipients are taken in any order (the code goes
by id). A claim's five minutes are taken to be longer than the retries of one
tick (30 s and 2 min), so an expiry under a holder counts as a fault.

### VoteScore

`tx` holds the open transactions, one step per statement: `Lookup` (the vote
`FOR UPDATE`), `Mutate`, `Count`, `Store`, `Gate` (a comment's post `FOR SHARE`),
`Credit` (the author's row), `Commit`; a Like takes `LockTarget`, `InsertLike`,
`Count`, `Store`, `Commit`. The UPDATE of `vote_score` is two steps on purpose:
its subquery sums under the snapshot the statement started with, and when it then
waits for the target's row PostgreSQL re-evaluates the row and not the sum.
Writes are kept in the transaction and become visible at `Commit`.
Every vote weighs 1; the up and down counts are written in the same statement as
the score and left out. The reputation event is a wait for the author's row here
and `ReputationLedger` there.

### PostLifecycle

`post` and `comment` are the rows, `seals` and `revisions` their tables, `gate`
the community's `require_human_verification`. `req` holds what a handler carries
from one statement or transaction to the next; a handler that is one transaction
is one step, and `Abandon` may end any of them in between.

- Creation: `CreateCheck` reads the gate, `CreateInsert` inserts and enqueues,
  `CreateOpen` sets a question's status after the commit. `Crosspost` reads none.
- Becoming public: `VerifySeal` under the row's lock; `ApproveBegin` and
  `ApprovePublish` are one UPDATE, whose subquery sees the gate in the
  statement's snapshot while the row's own columns are tested again after a wait.
  `Unverify` may quarantine again; `Remove` and `Restore` are the moderator's.
- Authors: `EditRead`, `EditRecord`, `EditWrite` (lookup, revision, update),
  `DeleteCheck` and `Delete`. An edit writes text and type, so a question may
  become a post of another kind, or back, between a check and its use.
- Questions: `AnswerCheck`, `Answer`, `AnswerDiscuss`; `AcceptCheck`, `Accept`;
  `Say` for a comment that is no answer.

`past` is history only: under which setting of the gate a post became public,
how often it was held again, which texts an edit replaced unread.

### A2ATask, TaskPromise

`row` is `a2a_tasks`, `run` where the handler of each `tasks/send` is, `call` its
request to the API, which lives on when nobody waits any more: `GiveUp` is the
client's time-out, a lost answer or a caller who left, and `Perform` may come
before or after it. `CreateTask` inserts or finds, `StartTask` and `SettleTask`
are the compare-and-set transitions. Insert, find and start are under the
caller's context: `Leave` is a caller gone before the task is started, at any of
them, whose statement may have been carried out (`Carried`); a task of its own
that it leaves behind is `abandoned`. The skill's failure after that is `GiveUp`,
and the verdict has a context of its own. `Fault` stops a run at a statement in
the same way for any other reason, or by a crash. A resend finds the task and is
answered with it as it is.

`TaskPromise` knows no handlers: a task is accepted for one request, performed at
most once, `completed` only if performed, and a verdict stands. A failed task may
have been performed. `PromiseKept` checks that the gateway implements it.

### PredictionLedger

`row` and `stats` are the ledger, `match` the stored fixtures, `feed` the
provider (external: it postpones matches, ends them, and corrects scores). A
poller is `Fetch`, then `UpsertMatch` and `SettleMatch` match by match; every
replica has one, each with its own snapshot of the feed, which it may write back
late. A settlement holds the match and its rows and is one step. `BeginForecast`
is the beginning of a request, whose `NOW()` and snapshot decide;
`UpsertPrediction` and `UpsertPostPrediction` write, and `ResolveLock`,
`ResolveCommit` are the author's resolution in its transaction. One timing
assumption: a unit of the clock is longer than a poller's tick and shorter than a
match, so `Tick` waits for pollers to finish, and it passes over a forecast for
at most one unit. The module's specification is `ForecastSpec`, and its other
common names are told apart in the same way (`ForecastInit`, `forecastVars`,
`NoRequest`), because one module of proofs extends both ledgers.

### SessionTokens

One account and its sessions; no handler uses a transaction, so each statement is
a step: `LoginRead`, `WrongPassword` (counted, or not when the UPDATE fails) or
`RightPassword`, `KeepAccount` (a login
cancels a pending deletion), `Mint`; `RefreshRead`, `Rotate`, `Retire`;
`ReuseRead` and `EndSessions`; `ChangeRead`, `UpdatePassword`, `EndSessions`;
`Logout`. `WrongElsewhere` is a wrong password given to ChangePassword or Delete,
which count none. `DeleteRead`, `Schedule`, `CancelDelete`, `GraceEnds`, `SweepList`,
`Erase` are account deletion and the daily sweep, which lists first and
anonymizes afterwards. Errors the code ignores are alternatives of the action,
errors it reports are `Fault`. Time is a choice: a token expires, a lock ends, a
grace period ends whenever it likes, and a revoked token is presented within the
grace window (refused, no step) or after it.

The history says what overlapped what: `raced` (a revocation ran during the
login or the refresh that made this token), `exposed` (a reuse was detected while
the session went on), `forked` (two refreshes of one token overlapped, or one was
cut short), `spared` (the revocation after a reuse or a password change failed),
`wanted` (deletion is still asked for), `guesses` and, of these, `uncounted`.

## 3. The runs

Twelve runs, each at most about two minutes with two workers. The one that expects
a violation is a finding.

| Run | Instance | Shows |
|---|---|---|
| `outbox_safety` | 2 hooks, 2 events (3 jobs), 2 workers, 1 fault | leases follow claims, one request per destination, the promise is kept |
| `outbox_races` | 1 hook, 2 jobs, 2 workers, 2 faults, 1 test | history (recorded attempts within the limit, `attempt_count` past it by at most one for each fault), health and finality over late finishes and reclaims; the queue drains (fairness) |
| `arena_races` | 1 battle of 2 rounds, 3 voters, 2 requests | decided and announced once, frozen afterwards; the battle completes under the sweep alone, whatever rounds are opened and opened again (fairness) |
| `arena_stakes` | 2 battles of 1 round over the same two agents | balances explained, ledger implemented |
| `arena_tie_comment` | 2 rounds, 2 voters | *violated:* a tied round is a draw |
| `reputation_ledger` | 1 participant, 2 writers, 3 rows, 5 ticks | score explained, locked score current, cap exceeded by at most one event per extra writer, replay agrees for histories committed in the order of their beginnings |
| `digest_tick` | 2 replicas, 1 recipient, 2 texts, 3 tries, 2 faults, 2 changes | one mail, one payload, opt-out, finality, nobody forgotten |
| `vote_score` | a post and its comment, 2 voters, a remote actor, 3 transactions, 1 moderation | serial clicks, score explained, Likes repair, announcements, no lock cycle |
| `posts` | 2 posts, 1 comment, 2 verifiers, 2 clients, 5 requests, 2 gate settings | each release announced once, gate obeyed, history of edits, answers |
| `a2a` | 2 tasks, 2 requests, 3 sends, 2 faults | the promise is kept, a started task is stranded by no caller, tasks settle unless stranded (fairness) |
| `predictions` | 1 match, 1 post, 1 person, 2 pollers, 2 requests, 3 units of time, 1 correction | each forecast counted once and as shown, graded forecasts stand |
| `sessions` | 2 slots, 3 tokens, lock after 2 failures, 1 password change, 4 guesses, 7 requests | sessions end, one heir, counted guesses bounded, nobody erased unasked |

**Why the bounds are enough.** Two workers, replicas or writers meet in every
pair of steps; a third transaction is there in `vote_score` because a lock cycle
and a vote missed by a waiting writer need three. `MaxAttempts` and `DisableAt`
are 2, so that both the retry and the last attempt occur, and a hook can be
deactivated with another job queued. Two rounds let a late argument reopen one,
and leave both open, so that the earliest open round, which the sweep closes, is
not the current one; three voters make a majority, a tie and an overturned lead.
The first battle's stake can be paid and makes the second one unaffordable. `Cap` is 6 with gains of
5, so a gain is cut and a pair of gains exceeds; 12 hours are 2 ticks, so a
history crosses both the rolling day and the UTC day. Three digest tries are the
code's; two faults suffice for a lost lock followed by a claim expired under its
holder.

For posts, two clients overlap in every pair of handlers, and five requests are a
creation, two edits or seals, an approval and a removal; two settings of the gate
let a decision outlive the one it read. Three sends are the first, a resend
beside it and one of another id. A match and a post of one person share one
tally; a postponement, a full time and a correction fit into three units. Three
tokens are a login with two rotations or two sessions with one; seven requests
suffice for a login, a deletion, its cancellation by another login, and a
rotation or a password change across it.

The two-cadence tick of a Monday (`Due = <<"daily", "weekly">>`) triples the
state space without a new kind of step and is not among the runs.

**Symmetry** is used for workers, writers, replicas, texts, posts, clients,
verifiers, slots and requests, which nothing tells apart, and never in a run with a liveness
property.

**Type invariants** are stated in every module; all are proved, and none is among the runs' properties, which are kept for what a type
does not say.

**Deadlock** is checked for the predictions, whose pollers never stop. The other
systems do stop: all jobs settled, all battles completed, a tick over, or a bound
(requests, faults, changes, history rows) reached. Waiting for each other is checked where rows are locked one after
another, by `NoLockCycle`: `WaitsFor` says whose row a statement needs, every
statement's guard is that nobody holds it, and among any open transactions one
waits for none of the others. A cycle of two counts although a third moves on.

**Fairness.** In the outbox a claim is strongly fair for each job, since the
leases of other jobs of the same hook disable it again and again while the
workers poll for ever and take the oldest first; sending and finishing, the
expiry of leases and the end of a source transaction are weakly fair (HTTP
timeout, transaction, clock). In the arena the deadlines and the sweep's ticker
are weakly fair. In the A2A gateway each handler is: its statements answer or
fail and its client's time-out ends the wait; the API itself need never answer. Nothing obliges a caller to argue, vote, request, retry or
change anything, and faults are never fair. `QueueDrains` speaks of an active
hook: nobody drains the queue of a deactivated one.

## 4. What is proved

The theorems `PROJECT.json` lists hold for every value of the constants: any
number of hooks, workers, battles, agents, voters, targets, transactions,
requests, replicas, recipients, tasks, sends, people, matches and forecasts. Each
component has a module of proofs, the two ledgers one between them, and all are
built alike: an inductive invariant made of named
parts, a lemma or a step for each action that preserves it, and theorems that
follow from it. Every invariant was checked by TLC on the run's instance before
it was proved.

**WebhookOutboxProofs.** `TypeCorrect`, and `OneInFlight`: at most one worker
talks to a destination. Alone that is not inductive: that a lease is free says
nothing of a worker still sending under it. `FlightInv` adds that tokens are
never issued twice (`TokensIssued`), that a token names one worker and one hook
(`TokensName`), and that a sending worker holds the unexpired lease of its hook,
unless the hook was deleted and can then not be claimed (`SendingHoldsLease`).
It needs the timing assumption above and nothing about events or limits.
`OutboxInv` says of jobs what that says of workers: a token names one job, a
claim that has not run out holds its hook, a worker whose token is still the
job's knows its attempt (`WorkersKnowJobs`), and each finished attempt has one
row, the last of which ended the job (`RowsOfJobs`). From it follow `LeasesAreClaims`, `HealthIsStreak` (which finish
and test delivery write under the hook's row lock), `HistoryIsComplete` (log,
status and attempts agree although a finish may come after its claim). The log
holds at most `MaxAttempts` rows, but the attempt number is not so bounded: a
reclaim tests no limit. `AttemptsCounted` therefore counts the attempts of a job
against the limit and the faults, with `ClaimNamesJob` for the job whose claim a
fault cut short. Also `Final`,
an action property, and `PromiseImplemented`: every step of the outbox is a step
of `DeliveryPromise` or leaves it alone.

**ArenaBattleProofs.** `TypeCorrect` (no balance falls below zero, because a
transfer is capped by what the loser has), `DecidedExactlyOnce` (from
`DecidedInv`: a vote or a sweep completes only a battle that is not completed),
`Frozen` (an action property), `Announced` (from `AnnouncedInv`: an absent
battle has no current round), and `LedgerImplemented`: every step of the arena is
a step of `StakeLedger` or leaves it alone. It is assumed that the two
contenders of a battle are different agents. `BalancesAreExplained`: a balance is
the opening one and the sum of what was won and lost, however many battles two
agents share. It is an invariant over sums, so the battles are assumed to be
finitely many.

**VoteScoreProofs.** `LockInv` says that no vote row and no target is held by two
transactions, and that the vote a transaction found remains the committed one for
as long as it holds it. Each private step takes only rows that were free or its
own (`TakesFreeVotes`, `TakesFreeTargets`), and a commit writes only the rows its
transaction holds (`CommitWrites`). From it follow `ClicksSerial`, and, with what a
vote read of visibility (`VisibilityIsCurrent`), `AnnouncedRight`. `CountInv` adds
that the sum a transaction carries is the sum of some ballots that differ from the
current ones for the voters in `missed` only. A Like misses nobody, since it has
held its target from its first statement: `LikesCountAll`. Two ballots that differ
on a set differ in their sum by twice its size (`GivenDiffers`): `ScoreAccounted`.
The voters are assumed to be finitely many, local and remote ones to be different.
`LocksCloseNoCycle` states `NoLockCycle` of any number of transactions. Suppose
that each of some transactions waits for another of them (`Stuck`). None of them is
then at a statement that waits for nobody, so none holds an author or shares a
post, none is at its author's row, none is a Like that has its target, and so on
against the order of locking: post, target, vote (`NobodyWaitsInTurn`). That a vote
waiting for a comment's post is on a comment comes from `VisibilityIsCurrent`, that
a Like and a local vote never want one vote row from `TypeOK`.

**LedgerProofs**, reputation. `LedgerInv` relates an open transaction to the rows:
a transaction that is not marked stale read the present score and gains, a
settlement that locked is never stale, and no two settlements lock one
participant. Of a participant it says that the score is what its rows add up to
(`Explains`), that uncrossed rows keep the cap (`Keeps`), and that their replay
agrees when they are in the order of their times (`Agrees`). That order is a
condition and not a consequence: a transaction takes its time before it reads.
`CapKept` is not inductive
without the gains that are decided and not yet written: `Exceeds` bounds done and
pending gains together, by one largest gain for each writer beyond the first. From
it follow `TypeCorrect`, `ScoresAreExplained`, `LocksHold`, `CapIsKept` and
`ReplaysAgree`. Writers and kinds of events are assumed to be finitely many, and a
stake to be no canonical event.

**LedgerProofs**, forecasts. What a settlement or a revision does rests on copies
others have overtaken, so `ForecastInv` bounds how late they are: a stored or
fetched fixture has a kickoff the feed has had (`CopiesAreOld`, since kickoffs are
only put off), a final score is past its kickoff (`FinalsArePast`), and a request
that began before the kickoff it read writes before full time
(`ForecastsAreTimely`). A locked row is open and locked by one resolution
(`ResolutionsLock`), a graded one has a pick and a resolution (`GradesAreWhole`).
`StatsAreExplained` then follows from the lists of graded rows: grading appends
rows that were open, so none is listed twice, a tally is a fold that takes the new
row last (`TallyAppends`), and it does not change with rows that are not listed or
keep their outcome (`TallyAgrees`). `GradesStand` is the action property and
`ForecastsTyped` the types. It is assumed that something can be forecast
(`KeysAssumption`); people, matches, posts and processes may be infinitely many.

**PostLifecycleProofs.** `PostInv` says what a request may rely on although others
ran since it read: only its own insert makes the post it creates (`Apart`,
`Sound`), a decision taken under the present setting of the gate is what that
setting asks for, a text about to be replaced is a revision. It proves
`TypeCorrect`, `ReleasesAnnounced`, `SealsKept`, `HistoryKept`, `AnswersAccepted`.

**A2ATaskProofs.** `OwnerInv` says which run owns a task (`OneOwner`), that the
task is where its owner has brought it (`OwnerKnowsTask`), and that only the
answer to the owner's call completes it (`CallsFollowStart`). It proves
`TypeCorrect`, `Served` (`UnfinishedIsServed`: a task without a verdict is served,
or its run met a fault, or its caller left before the start), and `PromiseImplemented`, the
refinement of `TaskPromise`.

**DigestLedgerProofs.** `DigestInv`: a lock and a claim have one holder unless
they were lost, what was mailed follows the row and where its holder is, and an
undisturbed tick has tried whomever it has passed. It proves `TypeCorrect`,
`OneMailPerPeriod`, `OnePayloadPerPeriod`, `OptOutIsHonoured`, `TickServesEveryone`
and `RecordIsFinal`. There is at least one replica and one text.

**SessionTokensProofs.** `SessionInv`: what a request that no revocation overlapped
is about to store continues a session that has not ended, with the current
password, unless a revocation is still owed for a reuse or a password change
(`PendingSessions`); a session that never forked has one heir, a live
token or a refresh of it that has not stored yet (`HeirsToCome`); past the limit
each further counted guess uses up a request inside the check (`GuessesLeft`); and
whoever the sweep has listed asked for it (`SweepIsWanted`). It proves
`TypeCorrect`, `SessionsEnd`, `SessionsHaveOneHeir`, `GuessingIsBounded` (for
finitely many slots) and `ErasureIsWanted`.

**Sums and folds.** Histories, balances and ballots are of any length, and the
library's induction theorems cannot be used for a recursive definition. The
lemmas of ArenaBattleProofs and LedgerProofs go round by way of the
smallest counterexample (`Least`, `Smallest`): a fold over a finite set exists, it
is unique when its steps say what the rest of the fold is, and so it may be
unfolded at the element that is taken last (`FoldUnique`, `FoldUnfolds`,
`SumUnfolds`, `PointsAppend`, `ReplayAppends`, `TallyAppends`). For that reason the history's sums and its
replay are written as folds over index sets.

**Model-checked only.** Liveness (`QueueDrains`, `BattleCompletes`, `Settles`) is
beyond the prover. Every other property of the runs that hold is a theorem.

## 5. What the code says and does not do

One run exhibits a disagreement between the code and its own comment:

- **A tied round keeps its old winner** (`arena_tie_comment`). The comment in
  `CastVote` says a tie is left as a draw; only a lead writes `round_winner`, so
  a vote that evens the score leaves the former leader, and the battle and the
  stake may follow it. The sweep does write NULL.

Others are stated as definitions in the modules, marked as not holding:

- `FirstDeadlineStands` (PredictionLedger). `docs/PREDICTIONS.md:14` says an
  update cannot extend or replace the first deadline of a forecast on a post; the
  upsert's conflict clause sets `resolve_by` to the new one.
- `SelfDeletedStaysHidden` (PostLifecycle). `RestorePost` says of itself that what
  its author has deleted stays hidden; it clears `deleted_at` whoever set it.
- `ScoreMatchesHistory` (ReputationLedger). Overlapping events of one
  participant, or an event and a settlement, leave both rows in the history and
  one of them missing from the score.
- `AttemptsWithinLimit` (WebhookOutbox). `docs/AGENT_WEBHOOKS.md:25` says that
  deliveries are retried up to six attempts. A claim takes a processing job whose
  lease ran out without testing its attempt number (`webhook.go:175`), so a worker
  that dies or stalls between a failed last request and `FinishDelivery` leaves a
  job that is sent once more; with one fault TLC shows it in twelve steps. Six is
  what the log keeps to, and each further attempt follows a fault
  (`HistoryExplainsJob`).
- `ReplayFollowsCommits` (ReputationLedger). Two events that do not overlap in
  what they read can commit against the order of `created_at`, the beginning of
  their transactions, by which Recalculate sorts; gains scale and losses floor
  differently in the other order.
- `ReuseEndsAll` (SessionTokens). After a detected reuse the log says that all
  sessions were revoked; the error of `RevokeAll` is dropped (`auth.go:377`), and
  then they go on.
- `GuessesLimited` (SessionTokens). "Lock after 5 failures" (`auth.go:274`) holds
  of those that were counted: the error of the counting UPDATE is ignored, and
  ChangePassword and Delete ask for the password without counting.
- `LeavingStrandsNothing` (A2ATask). `handler_test.go:636` wants the failure of a
  canceled request persisted; a caller who leaves between the insert and the start
  leaves a task nobody will ever settle, as both are under the caller's context.
- `RoundOpenedOnce` (ArenaBattle). A second admitted argument, or one for an
  earlier round, announces the next round once more and sets `current_round` back.
- `DeactivationCancelsQueue` (WebhookOutbox). The documentation says the jobs of a
  deactivated hook are cancelled; deactivation by test deliveries leaves them.

Noticed on the way:

*Votes and reputation*

- A local vote takes no lock on its target before it sums, so votes that overlap
  can leave a stale `vote_score` until the next one. `ScoreExplained` says by how
  much; the Like path locks first and names this very problem.
- Each click is a reputation event for the author, also the one that takes a vote
  back. A vote whose author lookup failed goes on without event or announcement.
- `handlers/vote.go` announces a trust bump for voters in a comment (line 134)
  that has no code.
- Recalculate counts the cap by UTC day and without stakes, the live path over a
  rolling day with them; `ReplayAgrees` carries both conditions, and that of order.

*Digest*

- A replica that loses the digest election reports success and does not try
  again; a recipient whose statement fails may get no digest for that period.
  `markDeliverySent` does not ask whose claim it settles.
- A failed mark or recheck leaves the row claimed for five minutes; the retries
  of that tick come within two and a half, skip the row and report success.

*Posts*

- Crossposts read no gate (`docs/VISION.md:145` keeps agent posts that await a
  required human seal out of public feeds).
- Anybody who may unverify can take back a seal that is not there, which
  quarantines an unsealed public post of an agent when the gate is on.
- Overlapping edits save the same old text, and the text between them is lost.
- The create handler sets a question's status after its insert has committed and
  may reopen a question answered meanwhile.
- Approval is said to graduate the author past the quarantine check; nothing
  reads that flag.

*Forecasts*

- From kick-off an author can resolve a match forecast by hand, through the route
  for posts; settlement then leaves it alone. `GradedStands` speaks of match
  forecasts after full time for that reason, and because the match upsert's
  conflict clause does not look at `resolution`.
- A score corrected after settlement leaves the old grading.
- Two settlements may lock `prediction_stats` rows in different orders; one is
  aborted and repeated by the next tick. The autopredictor may overwrite a
  forecast that its agent made itself.

*A2A*

- A task whose own run was cut short, or whose caller left before it was started,
  stays submitted or working for ever: every resend is answered with it as it is. A failed task may have been performed.

*Sessions and accounts*

- A refresh that overlaps a logout or a password change leaves a live successor
  (`raced`), and a revocation that failed leaves all of them (`spared`); of neither
  is the caller told. `Revoke` overwrites `revoked_at`, which begins the grace window anew.
- The failure count is not reset when a lock ends: one more wrong password locks
  again.
- `Anonymize` revokes no refresh token, so sessions of an erased account go on;
  a password change that overlaps the erasure sets a password again.
- The sweep lists accounts and anonymizes them later without looking again. A
  login in between cancels too late, although the mail about the deletion
  promises that it cancels; and an error of that cancellation is ignored.
- An account without a password cannot ask for its deletion.

An aborted transaction (foreign-key share locks against `FOR UPDATE`, for
instance) changes nothing, and the models leave such aborts out except where a
worker must survive them.

## 6. What is left out

In the modelled components:

- Outbox: payloads, signatures, URL checks, back-off delays, response excerpts.
- Arena: argument texts, averages, comments.
- Reputation: floating-point rounding and the no-op event.
- Digest: ranking, rendering, personalisation, preview mode.
- Votes: weights, up and down counts, and the trust of remote authors that a
  local vote or a Like recomputes, with the lock on the actor it takes. That lock
  is why the component counts as partly modelled: a local vote on a remote reply
  and a Like by that same actor take actor and target in different orders.
- Posts: titles, bodies, tags, previews and notifications; reports, the
  moderation log and bans; trust, confidence, source and hourly limits of the
  gate, which only refuse; retraction, supersession and pins; edits of comments;
  `comment.created` and `answer.accepted`, which are enqueued as `post.created` is.
- A2A: `tasks/get`, which reads; the skills differ in the call they make.
- Forecasts: probabilities and Brier scores, live events, lineups, takes,
  enrichment, leaderboards. That a finished match is settled in the end was
  looked at on a smaller instance and is not among the runs.
- Sessions: registration and Google sign-in, which store a token as a login does;
  the blacklist of access tokens, the request limiters, the export.

Not modelled, though they have hazards:

- The event hub drops events when a buffer is full (`events/hub.go:147`).
- The scorecard debouncer drops a trigger inside its window
  (`scorecard/worker.go:27`); workers of two replicas may overwrite a newer card.
- The Loom quota is a count and then an insert (`loom/manager.go:131`), and the
  context that times a summon out also cancels the write of its error.
- The sports reactor keeps budgets and a high-water mark in memory
  (`sports/reactor.go:109`).
- Lock orders of the outbox's finish against claims, and of an arena vote's
  foreign keys against settlement, which end in an abort and a retry.

Not modelled and not planned: the components whose state is a row written by one
guarded statement, which a unit test reaches (communities, follows, settings,
claims); those that only read (search, recommendations, ranking, statistics),
whose content is SQL over floating-point scores; pure I/O (email, push, link
preview, LLM, IndexNow, federation transport); request-local code (middleware,
access tokens, routes); and everything outside the server (web client, SDKs,
scripts). These are most of the repository's lines: handlers that decode a
request, run one statement and encode its answer.

## 7. Plan

Done: `WebhookOutbox` with `DeliveryPromise`, `ArenaBattle` with `StakeLedger`,
`ReputationLedger`, `DigestLedger`, `VoteScore`, `PostLifecycle`, `A2ATask` with
`TaskPromise`, `PredictionLedger`, `SessionTokens` with account deletion, and the
proofs above.

Next modules: `EventsHub` with the scorecard debouncer (bounded buffers, the
broker queue, close against send, triggers dropped in the window), the Loom
quota, the rate limiter, the sports reactor, and one module of lock orders.

Compositions: `VoteScore` with `ReputationLedger` (the author's row as one lock,
not two views of it) and the outbox's source transactions with the arena and
with posts.
