# Verification of research-engine

TLA+ models of the parts of this repository where something can go wrong that a
test would hardly reach, TLC configurations that check them on small instances,
and TLAPS proofs of what matters most for every instance.

## The system

research-engine is a set of TypeScript services over one PostgreSQL database.
There is no long-running process of its own in `src/`: HTTP handlers, workers
and consumers call the services, and every mutation is one database
transaction at READ COMMITTED (`src/src/db/database.ts`). Services meet in the
database only: through rows, row locks, unique indexes and the event log.
That is where the difficult behaviour is, and what the models are about.

### Inventory

| Component | State | Operations | Interacts with | Hard because | Correct when |
|---|---|---|---|---|---|
| Event store `events/event-store.ts` | streams, events, outbox rows | `transact`, `transactMany`, `transactPrepared`, `appendMany` | called inside every service's transaction | racing writers, rollback after a partial append, repeated commands | per aggregate no gaps, no repetition; a command whole and once |
| Outbox `events/outbox.ts` | status, lease, delay of each message | `claim`, `markPublished`, `markFailed` | filled by the event store, read by workers | leases that expire under a worker, crashes, late completions | one worker at a time; a publication is final; nothing is stranded |
| Consumer `events/idempotent-consumer.ts` | receipts, a projection | `process` | reads events delivered by workers | duplicate and reordered deliveries, failing handlers | one effect per event |
| Payload policy `events/payload-policy.ts` | none | `validateEventPayload` | event store | - | - |
| Proposals `proposals/` | the proposal's row | `create`, `update`, `open`, `archive`, `delete`, reads | event store; row shared with supports, scoring, moderation | rows read without a lock, versions supplied by clients | version = stream; only checked transitions |
| Supports `participation/support-service.ts` | supports, count on the proposal, key registry, subject locks | `add`, `revoke`, `assertReady` | proposals, event store | key rotation while servers with different keyrings run, retries, lock order | one active support per subject; count = active supports |
| Rate limiters (participation, knowledge, blockchain) | counters per window | `consume` | called before an operation, in a transaction of its own | simultaneous consumers, windows, rollback of a refusal | never more than the limit in a window |
| Knowledge `knowledge/knowledge-service.ts` | sources, claims, evidence | `addUrlSource`, `addClaim`, `addEvidence` | proposals (shared lock), event store | races with archiving and moderation, uniqueness | nothing is added to a closed proposal, nothing twice |
| Source fetching `knowledge/safe-fetcher.ts` | none | `fetch` | resolver, transport | bounded redirects | every hop is checked |
| Scoring `scoring/score-service.ts` | score runs, scores, the proposal's eligibility snapshot | `recalculate` | proposals, knowledge, policies, event store | moderation and activation in between | a snapshot listed is current |
| Policies `scoring/policy-manager.ts` | four policy rows, activations | `activate` | scoring, sessions | simultaneous activations, idempotency | exactly one complete set is active |
| Administration `admin/administration-service.ts` | moderation statuses, receipts, audit | `moderate`, `listEligible` | proposals, knowledge, sessions, event store | lock order, repeated requests | a decision is applied once; eligibility is withdrawn with it |
| Sessions `admin/session-service.ts`, `authority.ts` | sessions, receipts | `issue`, `authenticate`, `revoke`, `assertAdministrativeAuthority` | administration, policies | authority read early and used late, limits under races | no mutation under a revoked session; ten sessions at most |
| Block collection `blockchain/blockchain-service.ts` | runs, blocks, transactions | `collectBlock`, `collectRange`, `validateBlock` | connectors, event store | remote calls between transactions, crashes | a run ends and its counters agree with its blocks |
| HTTP client `blockchain/tron-http-client.ts` | token bucket, attempts | `get`, `post` | collectors, connectors | concurrent waiters, retry, timeout | attempts and rate stay bounded |
| Audit `blockchain/audit-*.ts` | stored reports and findings | `auditAccount`, `auditContract`, `auditFull`, reads | blockchain rate limiter, collectors, analyzers | several sources, some failing or disagreeing; a report of many rows | the report agrees with its sources and with its findings |
| Metrics `scripts/tron-audit.ts`, `blockchain/metric-*.ts`, `*-metric-store.ts` | a store in memory, the table `onchain_metrics` | the phases of the script, `insertBatch`, queries | HTTP client, collectors, on-chain analytics | parallel requests, partial failures, writes in chunks | the stores agree up to what was warned about |
| Collectors, normalizers, analyzers | none | translation, thresholds | - | - | - |
| Database `db/` | schema version | `transaction`, `migrate` | all | - | - |

`PROJECT.json` lists every component with its files and status, and every
hazard at the line where it bites, with the properties that cover it.

## Modules

```
LeasedWork  <--implements--  Outbox            MCOutbox     Events_proofs
OptimisticLog <--implements-- EventLog <-extends- EventConsumer   MCEvents   Events_proofs
                              Proposals         MCProposals  Proposals_proofs
Supporters  <--implements--  Supports          MCSupports   Supports_proofs
ReviewQueue <--implements--  Eligibility       MCEligibility  Eligibility_proofs
                              Sessions          MCSessions   Sessions_proofs
CrossValidation <-extends- Collection           MCCollection   Collection_proofs
ReportLedger <--implements-- Audit              MCAudit      Audit_proofs
RateLimits, Analyzers <-extends- Audit
HttpClient, OnchainAnalytics <-extends- TronAudit   MCTronAudit   TronAudit_proofs
```

**Outbox** models `outbox.ts`. One row per message with `status`, `owner`
(`lease_owner`), `lease` and `delay`. The database only ever compares a
timestamp with CURRENT_TIMESTAMP, so `lease` and `delay` are distances from now,
counted in ticks and cut off where the distance no longer matters. CURRENT_TIMESTAMP
is the *start of the transaction*: `tx` keeps each open transaction's age, and a
lease or delay is counted from there. `claim` is two steps, `ClaimSelect` (select
with FOR UPDATE SKIP LOCKED) and `ClaimCommit`; a completion is `CompleteBegin`
and one of `MarkPublished`, `MarkFailed`, `LeaseError`. `held` is not in the
database: it is what a worker may believe about its claims. A worker that
receives its claim counts down from the `leaseExpiresAt` it was given. `Crash`
forgets it and rolls the transaction back. A row's number is its place in
`ORDER BY created_at, id`, and rows are inserted in any order of those numbers,
as transactions may commit in another order than they began.

**LeasedWork** is what that promises: at most one worker at an item, nobody at a
finished item, finished is final.

**EventLog** models `event-store.ts`. `command` is what a caller prepared,
`stream` the `current_sequence`, `events` the table `domain_events`, `writer` each
connection's open transaction and `lock` the stream rows it has updated.
`AppendNext` is one call of `append`; `Commit`, `Conflict` and `Abort` are the
three ways a transaction ends. A command keeps its event identifiers, so
running it twice is possible at any time, also while the first run is open. The
tables' unique constraints are not in the model: that they can never be hit is
what `GapFree` and `CommandAtomic` say.

**OptimisticLog** is what that promises: a request is accepted whole and once,
and only on the length of the stream it was prepared on.

**EventConsumer** adds `idempotent-consumer.ts` with `updateAggregateEventCount`
as the handler. Committed events are delivered at any time, any number of times,
in any order, to any delivery; that is what the outbox allows (a failed message
is retried later, events of one transaction are ordered by a random `id`).

**Proposals** models `proposal-service.ts` and what the support, score and
administration services do to the same row. A request is `Read` - the unlocked
SELECT, the checks, the building of the event - and later `Update`, `Open`,
`Archive`, `Delete` or `Support`, which compare version and stream, or `Conflict`
or `Abort`. `expected` is what the client sent: up to `Ahead` more than the
version in the row. `Gain`, `Lose` (recalculate) and `Invalidate` (moderate)
hold the row's lock throughout and are single steps; whether a proposal is
eligible is chosen freely here. A recalculation that changes no status changes
nothing in this model.

**Supports** models `support-service.ts` with `identity.ts` and the registry and
trigger of migration 0006. A row's hash is modelled by what determines it, a key
and a subject; `supports` holds the ACTIVE rows. Each server has a `keyring`, and
`registry` has a verifier (the key's material) and an active count per key id.
`call[c].stage` is the last of the call's transactions that is over:
`AssertReady`, then for an addition `NoSupportYet` or `Normalize`, then up to
three attempts, each `Read` and one of `Add`, `Revoke`, `Refuse`, `Retry`. The
subject lock is not a variable: two attempts on one proposal that overlap after
their reads never both commit, because each changes the version the other has
read, so neither the lock's order nor its absence changes what commits. Waiting
for each other's locks ends in `Abort`, as PostgreSQL ends it. `Deploy` restarts
a set of servers with another keyring; which sets is the constant `Deployments`.
`StatusChanges` stands for what the other services do to the proposal's row.
`Init` is the state after the first server has started: its keyring lists the
key of the supports that are older than the registry. If it does not,
`assertReady` cannot notice, since the registry holds only keys that some
keyring has listed; the deployment documentation asks for it.

**Supporters** is what that promises: sets of supporters and a number, changed by
one subject joining or leaving. Keys, retries and normalisation do not show.

**Eligibility** models how a proposal becomes eligible and is shown:
`knowledge-service.ts`, `moderate` and the view behind `listEligible`,
`recalculate`, `activate`. `knowledge` is the moderation status of every source,
claim and evidence, `proposal` a proposal's row with its eligibility snapshot,
`registered` and `active` the policies, `activations` their history. A
transaction is split where it waits for a lock or reads again, since at READ
COMMITTED each statement sees what is committed when it runs:
`ContributeStart`/`End`, `DecideStart`/`End`, `ScoreStart`, `ScoreLock`,
`ScoreCount`, `ScoreEnd`, `ActivateStart`/`End`. Locks are not variables: `tx`
says what each open transaction has read and done, and `Holders`, `Sharers`,
`NotModerated`, `NotCited` and `PolicyLockFree` read off which locks follow. A
wait is a disabled step; transactions that wait for each other (`moderate` locks
the entity and then the proposal, a contribution the other way round) end in
`Abort`. A policy stands for its four rows, which are always written together,
and for its fingerprint, which determines them; `VersionOf` gives it a version
that another policy may share. The thresholds are the constant `Meets`, any
predicate of policy and counts. A snapshot carries the run it refers to, because
runs never change. Adding or revoking a support is one step, justified by its
version check (modelled in Supports), and so are opening, archiving and deleting;
versions are left out, since the one comparison here, in `ScoreEnd`, is made while
the row is locked. Supports can only change while a proposal is collecting, so
what is listed is current in its supports too. Activating an older policy again
may bring back a snapshot made under it; it still shows the current inputs.
`Init` is any state migration 0021 may have found: knowledge moderated and
proposals eligible, but no snapshots. Authority and receipts of the administrative
operations are in Sessions.

**ReviewQueue** is what that promises: a queue that a proposal enters by being
assessed and leaves before its facts change, and that a change of the rules
cannot leave holding anything that does not meet them.

**Sessions** models `session-service.ts`, `authority.ts` and the receipts of
`moderate` and `activate`. `role` is the role of an identity that is ACTIVE, or
None; `session` holds the rows with the time they have `left`, counted from now;
`receipt` is the table of receipts and `applied` counts effects. `call` is each
call's open transaction with its `age`: CURRENT_TIMESTAMP is its start, so a
session that ended meanwhile still counts as active in it. `issue` is `IssueStart`
(purge), `IssueLock` (the identity FOR UPDATE), `IssueTrim` (revoke the excess; the
constant `Kept` is the OFFSET 9) and `IssueEnd` (insert and commit). A mutation is
`Authenticate` - one transaction - and then, in another, `LockSession` and
`LockIdentity` (the two rows of `FOR UPDATE OF session, identity`, each looked at
again after a wait), `Replay` or `Check` on the receipt, and `Apply`. What a
mutation does besides is in Eligibility, except for `revoke`, whose effect is on
the session. Locks follow from where the calls are: `IdentityHolders`,
`SessionHolders`. A refusal, an error and the end of a deadlock are `Stop`.
`Provision` is the identity provider's side, which no code in `src/` plays. A
session's number is its place in `ORDER BY created_at`; numbers are used in any
order, as transactions may commit in another order than they began, and not
again after a purge. The purge may come at any time after the session's end, where
the code waits 24 hours. `reauthenticated_at` is always the time of
authentication, so its age is `Life` less what is left. The unique constraint on
receipts is not in the model: that it is never hit is what `MutationsOnce` says.

**CrossValidation** is `cross-validator.ts` as operators: the comparison of each
field with the first source's, of transactions by hash, and the verdict.

**Collection** models `blockchain-service.ts`. `stored` is what each source has said
of each number, `run` the collection runs, `events` the stream of each run and `call`
what a running call has in memory: where it is in its range, its counters and the
answer it has fetched. `collectRange` is `StartRange`, and for every block `Exists`
or `Missing` - the fetch and the look whether the block is stored - and then
`StoreInRange`, until `Finish`; a failing fetch is `RangeFails`. `collectBlock` is
`StartBlock` and `Exists`, `Missing`, `StoreBlock` or `BlockFails`. The fetch is one
step with the look after it, since no answer depends on the database. The insertion
is one step at its commit: it waits for others that insert the same row, and then
succeeds or violates a unique constraint (`Violate`). `Throw` is any other end of a
call: the process stops, the database fails, a limit is exceeded. After either, a
range's run stays RUNNING; nothing in `src/` ends it. A block is stored under the
number in the answer and looked up under the number that was asked; `Answer` says
which blocks a source may answer with. A stored block never changes, so `validateBlock`
is an operator on a state (`Seen`, `Verdict`) and not a step. The rows of networks and
sources are left out, and so is the number of skipped blocks, which is in no row.

**RateLimits** models the three limiters. `count` is the counter of a row, for a key
and the start of a window; `call` is each call's open transaction with its
CURRENT_TIMESTAMP (`at`), how many keys it has charged (`step`), the rows it has found
above the limit (`over`) and those its purge has deleted (`gone`). `Strict` calls are
those of knowledge and of the blockchain API: `Purge`, then `Charge` for each key, and
`RollBack` at the first that is over. Those of participation charge all keys, and
`Commit` counts a refusal and writes its abuse signals. An upsert waits for whoever has
the row charged or deleted (`Free`). `passed` is a history: the calls a row has let
through, which stays when the row is deleted. The constructors check that the retention
covers a window; that it covers a window *and* the slowest transaction is an assumption
(`TimesAssumption`): without it a purge could delete the row of a window that a
transaction from that window still charges. A purge deletes all that has expired; the code
takes a thousand rows at a time.

**Analyzers** has the eight analyzers of an audit as operators on a snapshot: every check,
its comparison and its severity. Findings are told apart by analyzer, subject, severity
and category; their texts are left out. Divisions are the integer divisions of the code,
or comparisons of products where the code divides numbers. `Malformed` is the one way an
analyzer fails: a balance that is not an integer.

**Audit** is the audit API: a request that the limiter has let through (`RateLimits` is
part of the state) begins with a `Plan` of questions, asks them one after another
(`Ask`, or `AskInVain` when a source fails), an account audit then asks for the contract
and tokens of the account it was told of (`Detail`), `Analyze` runs the analyzers, and
`InsertReport`, `InsertFinding` and `CommitReport` are the transaction that stores the
result. `Fail` may happen at any point and is not taken back by the limiter. A fact of the
chain may be another one at each question, and `AccountBy`, `ContractBy`, `TokenBy`,
`StakingBy`, `GovernanceBy` say what a source tells of it. Answers are kept by address,
so that the second source of the same address replaces the first; the test that looks
as if it prevented that (`audit-orchestrator.ts:80`) compares an address with the name of a
source. The registry is chosen at the start: nothing registers collectors later.

**ReportLedger** is what a reader of the reports is promised: a report appears whole, once,
with a summary that is that of its findings.

**HttpClient** models `tron-http-client.ts`. `bucket` counts parts of tokens, so that
a tick is the time of one part. `Acquire` is the synchronous beginning of the calls that are
made in one turn of the event loop: the first take whole tokens and are sent, the others
get a timer for what is missing of *one* token. `Wake` is the rest of `acquire` after the
timer: it takes a token if there is one and goes on if there is none. `Disappoint` is a failing
answer, `Retry` the next attempt after its delay. A failure has a status that is retried
(busy), another one (refused), or none (unreachable: timeouts, connection errors, bodies
that are no JSON). The last kind is thrown as an error of the client's own class, which
`isRetryableError` does not know, so it is not retried although that function names timeouts.
A timer fires within the tick it is due in; the fraction of a millisecond by which the code
rounds a delay up is left out. `load` is a history: what was sent, less `Callers` parts of a
token in each tick. `RateIsPerCaller` bounds it by `Capacity + Callers - 1` tokens, where
`Callers` is how many requests of a client are open at a time. Callers that find the bucket
empty at the same time all wait for what is missing of one token, and when it comes one takes
it and the others go on without one: each caller has, in effect, a bucket of its own.

**OnchainAnalytics** has `onchain-analytics.ts` as operators: emission and burning, velocities,
the approximated Gini coefficient, the five scores and their weighted sum, and the
findings. Fractions are numerators over a common denominator. `balances.sort` is modelled by
the place each balance takes (`PlaceOf`): after the smaller ones, and after the equal ones that were
before it, since the sort is stable.

**TronAudit** models `scripts/tron-audit.ts` with the collectors it calls, both stores and
two clients. `Rounds` says which requests a phase makes, in which order and which of them
at once; `Needed` which of them end the phase when they fail (all others are caught and
count as empty). `StartRound` makes the requests of a round, `Ingest*` and `Analyze` put the
records of a phase into the memory store, and `InsertChunk`, `FailChunk` and `Persisted` write
them to the database, a chunk in each statement. `Skip` is a phase that failed; requests
that others were waiting with (`Promise.all` in the governance collector) are then still
open and go on. Records are counted, not told apart: their numbers are those of
`metric-adapters.ts`.

## Runs

| Run | Instance | Shows |
|---|---|---|
| `outbox` | 2 rows, 2 workers, batches of 1, lease and retry of 1 tick | leases exclude, publications stay, claims end, LeasedWork is implemented |
| `events` | 1 aggregate, 3 commands of 1-2 events, 2 writers, 1 consumer, 2 deliveries | the log is gap-free, commands atomic, effects once; OptimisticLog is implemented |
| `event_counts` | the same | **violated**: an event delivered late gets a receipt and no effect |
| `proposals` | 1 proposal, 2 actors (1 moderator), 2 requests, 5 versions, clients up to 1 ahead | version = stream = log; status can be told from the log; what was checked is what is changed |
| `proposals_ahead` | the same | **violated**: an author deletes a proposal after opening it |
| `supports` | 1 proposal, 2 subjects, 2 calls, 3 keys under 2 ids, 4 keyrings, 5 versions, all servers restarted together | one support per subject across keys; the count, the registry and the events agree with the rows; Supporters is implemented |
| `supports_rolling` | the same with 2 servers restarted one by one and 2 keyrings | **violated**: a subject has two active supports |
| `eligibility` | 1 proposal with a source, a claim linked to it and a contradicting evidence, 3 policies under 2 versions, 2 transactions | what is listed is current; activations form a chain; recalculations decide by the present; ReviewQueue is implemented |
| `collection` | 2 sources of which one may answer with another block, 2 blocks, ranges and single blocks, 2 calls, 2 runs | counters, events and blocks agree; completed runs cover what was asked; verdicts are true; a run whose call lives ends |
| `audit` | 2 requests of the blockchain API and 2 of participation, 2 keys each, windows of 2 ticks, a clock of 4; audits of one address with 2 sources, 2 tokens, 3 kinds of account | limits hold through races, rollbacks and purges; a report is about the last answers; ReportLedger is implemented; an audit ends |
| `tron_audit` | 2 clients with 2 and 1 tokens, 1 retry, up to 2 faults, 2 holders, stakers and tokens, 1 analysis, 1 platform, chunks of 9 records | retries are justified; the rate is bounded by the callers; rounds keep their order; the stores agree; the Gini sum is the mean difference; the script ends |
| `sessions` | 1 identity, 3 sessions of which 2 may be active, 2 calls, 1 key, activations and revocations | sessions are limited; a key works once; authority is live when it is used |

*Bounds.* Two workers and a batch of one make the workers compete for the older
row while the younger one is free to be taken; a lease of one tick can be alive,
at its last instant or over at each step of a worker's call. Three commands on
one aggregate give a winner, a loser prepared on the same version and a third
prepared on what the winner left; two events per command give a partial append.
Aggregates, consumers and proposals do not share rows, so one of each is enough
for these properties; the proofs cover any number. Five versions allow create, open,
gain (two versions) and one more change, or four changes by requests. On
supports, a key is joined and then replaced by a new one, and a keyring may name
other material by the old key's id; two calls compete for a subject or for the
version; five versions make room for the conflicts that use up the three
attempts, which is the number in the code. Servers with the same keyring do not
differ, so one stands for a fleet that is restarted together. In `eligibility` one
item of each kind, each citing the others, makes every count depend on every
decision; one policy asks for supports and any accepted item, one for evidence,
one has the version of another; two transactions race in each pair of operations,
and two decisions and two activations are enough to score under one state and
list under another. In `sessions` an identity with two active sessions is given a
third; a session lives for two ticks and is recent for one, so it can be over, live and
stale, or fresh; authentications are one tick ahead, now, or up to two old, so
both ends of the age check are tried; a transaction may be one tick old. One key
under two calls is enough for the same request twice and, by revoking two
sessions under it, for two requests. Activation stands for moderation, which asks
for less. In `collection` two calls race for a block, as two ranges or as a range and a
block alone; an answer may differ in a field of the block, in a field of a
transaction, in lacking one, in having one without a hash or one that another block
has. In `audit` a constraint (`Focus`) splits the instance, since the limiters and the audits
share nothing but the call that is let through: either no request is an audit and both
kinds of limiter are explored over the whole clock, with windows that end, rows that
expire and a purge between them; or audits run, an account alone or a contract together with
a full audit, and participation rests. The accounts are one that a source finds fault with
in most ways, a contract with more holdings than may be asked for, and one that makes an analyzer
throw; the registries have the two sources in both orders, and only one of them. In
`tron_audit` two faults are enough to use up the two attempts of a request, or to fail two of
the three parallel requests of governance; from the fourth phase on a constraint allows
one, which is what a chunk or a request needs to fail. Two resources are asked for at once,
beside up to two requests left over from governance, so up to four callers wait for
tokens of one client. Chunks of nine records make batches of one, two and three chunks. The bounds
in the modules are `MaxTime` (RateLimits), `MaxFaults` and `MaxBalances` (TronAudit), `MaxAge` (Outbox), `MaxEvents` (EventLog), `MaxVersion`
with its guard `Room` (Proposals), `MaxVersion` (Supports) and `MaxSupports`,
`MaxRevision`, `MaxActivations` (Eligibility), `MaxAge` (Sessions) and the set `Runs` with its guard `RunsLeft`
(Collection): without a new identifier no run is written, and a block alone can only end by `Throw`.

*Deadlock* is off in `audit` and `tron_audit`, where the requests, or the script, come to an end. It is checked in `outbox`, `events`, `eligibility`, `sessions` and `collection`. It is off in the runs on
Proposals, where the system does stop - a deleted proposal accepts nothing - and
on Supports, where a server with a keyring that `assertReady` refuses, and no
other to start with, does nothing.

*Fairness.* In Outbox only time: `WF_vars(Tick)`. A worker is never obliged to do
anything. `ClaimsEnd` therefore says that the passing of time alone makes a claim
recoverable, which is what the code relies on. That somebody then claims it is
up to a worker process, and `src/` has none. In Collection `WF_vars(Proceed(c))` for
each call: a fetch is answered or fails within its timeout and the loop goes on by
itself. Failures are not in `Proceed`, so `RunsEnd` does not rest on one happening.
In Audit `WF_vars(AuditStep(c))` for each request: a question is answered or fails, as
the client of the collectors has a timeout, and a transaction goes on; `Fail` is not in it. In
TronAudit weak fairness of the script's own steps, of time, and of some request: each
ends in the end because the client aborts it, and faults are finitely many, so `ScriptEnds` rests
on no failure either. It holds with failures at any point: nothing waits for a
request that has failed.

*Violations.* These runs check what the documentation states and find the code
doing otherwise; `PROJECT.json` quotes the lines.

- `event_counts`: `EVENTS.md` promises exactly-once at the level of the
  consumer's effect. The receipt and the handler's run are exactly once
  (`EffectOnce`, proved), but the projection drops an event older than the last
  one it counted.
- `proposals_ahead`: the status and role checks use a row read without a lock, and
  the update compares the version the client sent, not the one that was read. A
  client that has seen the version it sends is safe (`CheckedIsApplied`, proved);
  one that sends the version its previous, still running request will produce is
  checked against the old status. It is the client's own proposal either way, and
  a moderator could do the same lawfully; the event records a `from` or
  `previousStatus` that was not the proposal's.
- `supports_rolling`: `assertReady` and the insertion are different transactions. A
  server with only the old key passes the first; then another server, with the
  new and the old key, adds the subject's support under the new key; the first
  server finds nothing under the old key and adds a second one. Both count. A
  server that knows both keys then ends both in one revocation and lowers the
  count by one. With all servers restarted together (`supports`, and proved) this
  cannot happen.

## Proofs

All proofs hold for every value of the constants under the assumptions the modules
declare (sets of rows, workers or commands of any size, disjoint from the null
value; positive durations).

*Events_proofs.* The invariant `LogInv` says what an open transaction has
written: the events of its command numbered from the expected sequence, while it
holds the stream's lock and the stream still has the expected length; and that
the committed events of a command are there together. `StrictOrder`,
`CommandsAtomic` and `ImplementsAcceptance` follow. `EffectsOnce` rests on a
second invariant: at most one open delivery per consumer and event, and only for
an event without a receipt.

The proofs about Outbox are in the same module. The invariant is `OutboxTypeOK`, `LiveClaimOwnsRow` and
`LockedRowsAreFree`: rows locked by a claim were claimable when locked and are
claimable still, no two claims lock the same row, and a completion does not run on
a locked row. Without the third part `ClaimCommit` could
take a row somebody else is working on, so `LiveClaimOwnsRow` alone is not
inductive. From it: `LeaseExclusion`, `PublishedStays` and the step simulation of
`ImplementsLeasedWork`.

*Proposals_proofs.* `ReadsHold`: the version a request has seen is at most the
row's, and if it is the row's, so is the status - every change of status comes
with a new version. With `VersionIsSequence` this gives `ChecksHoldWhenApplied`.
`LogsTellStatuses` needs of it only that rows and logs are of their types: every step that changes
a status appends, in the same step, events of which the last that changes a status says so, and
the events of the other steps change none (`Tells`).

*Supports_proofs.* Under `Together`: every deployment restarts all servers. The
invariant says that all servers have the same keyring; that a row's key is
registered with the row's material; that a call past `assertReady` knows every
key with active rows, so its candidates are all the rows of its subject; that
the counts are those of the rows; and that what an attempt has read is still
true while the version is. Without `CallsKnowKeys` an addition may overlook a
row, which is the step `supports_rolling` finds. `OneSupport`, `CountsAreTrue`,
`RegistryIsTrue`, `EventsTellCounts` and `ImplementsSupporters` follow. Counting
rests on a lemma about exchanging members of finite sets.

*Eligibility_proofs.* Under `MeetsIsBoolean`: thresholds are met or not. The
invariant says that what an open transaction has read is still so (`TxOK`: the
policy of a recalculation is active, its row and counts are the proposal's, a
contribution's proposal is collecting); what the locks exclude (`Compatible`);
and that a snapshot of the current revision shows the inputs of this moment
(`SnapshotOK`). `ListedAreCurrent` alone is not inductive: a step could commit
counts that are no longer true, or an old snapshot could become current by an
activation. `ListedMeetPolicy`, `ActivationsAreChained`, `ScoresDecideNow`,
`KnowledgeArrivesWhileCollecting` and `ImplementsReview` follow.

*Sessions_proofs.* The invariant says that a mutation has had its effect as often
as its receipt says (`Receipts`); what the locks exclude (`Compatible`: no two calls
on an identity, nobody at a session that another deletes or revokes); and what a call
relies on (`CallOK`): live authority from `authorized` on, no receipt from
`checked` on, and, once the excess is known, at most `Kept` sessions that stay,
counted at the start of the transaction. `SessionsLimited` needs the last part, with
the fact that the set of active sessions at a fixed time only shrinks while the
identity is locked. `ActiveSessionsLimited`, `MutationsApplyOnce` and
`AuthorityHolds` follow.

*Collection_proofs.* The invariant says that a call's run is RUNNING, is written by
this call only, and, with an honest source, that everything between the run's first
block and the call's next is stored (`Passed`); blocks are never removed. From this
`CompletedRunsCover`. `VerdictOfAll` is about operators only: since the first source
is compared with all, and a verdict without missing transactions compares every
transaction in all sources, agreement with the first is agreement of all.
With the fact that stored transactions of a block differ in hash, from the unique
constraint, it gives `VerdictsAreTrue`. They assume finitely many sources and
answers whose fields are those that are compared. `CountersAlwaysAgree` needs that what a
call has in memory is what the row of its run says (`InMemory`), and that a sum over a longer
list of events is the shorter sum and one more; that the sum exists is stated by the partial
sums themselves (`AddUp`), so no induction is needed.

*Audit_proofs.* For the limiters, `LimitInv` says that a row is charged by one open call at a
time and its count is what the call has seen (`Locked`); that a call is not older than `Stall`
(`Timely`); and that a row has let through at most what it counts, unless it has been
purged or may be (`Counted`). A call that charges a row began in its window, so with
`TimesAssumption` the row has not expired for anybody (`ChargedIsLive`), and a purged row
is never charged again. Without that part a row could start from zero in a window that
has already let its limit through. `LimitsAlwaysHold` follows for the limiters alone, and
`AuditsAreLimited` for the audits that run behind them: every step of an audit leaves the
limiters as they are, or is one of theirs.

`ReportsArePublishedWhole` shows that Audit implements ReportLedger. `PublishInv` says what an
open transaction has written: one report, whose risk and numbers are those of what the analyzers
found, and a part of these findings; and that nothing of an audit is visible before its commit.

`EvidenceIsAlwaysLast` - a report is about the last answer to each question, and about nothing
else - rests on `EvidenceInv`. `Memory` relates what an audit has kept to the history of all
answers it heard: a subject is known exactly if it was asked about, and what is known of it is the
answer at the last of its places. `Turn` says which questions an account audit has still
open: before the account's details are planned, none that follows from an answer; afterwards those
that the account *at that time* named, and no others. Without it a report could rest on details of
an account that a later answer has replaced.

*TronAudit_proofs.* `RequestInv` says that an open request has had a busy answer for each
attempt behind it and that a request that is over ended with its last answer;
`RetriesAreJustified` follows.

`StoresAlwaysAgree` rests on `StoreInv`: of each batch the database holds whole chunks, all of it
only when the batch is over, and nothing when it is still to come (`BatchAgrees`), and the
batches that remain are those of the present phase, in their order (`Remaining`). The counts
of records are numbers because the lists they count are finite (`Lists`).

`RoundsAlwaysInTurn` rests on `TurnInv`: a request is of a round of the present phase, or is left
over from governance (`InPlace`); one of the three requests of governance is never left over
(`Missing`), since the phase ended with its failure; a round is asked for only when those before
it are answered (`Ordered`), and whole (`Whole`). The rounds of a phase are not fixed - how many there
are depends on the first answer - so `Shape` states what all of them have in common: each
request is of one round only, and those that decide how many rounds there are belong to the first.

`CallersAreKept` counts what the script can have open with a client at a time: three requests of
tronscan; of trongrid a round (`MaxStakers` resources, or two of the other phases, or the three
of governance) and the two that governance may have left. `RateIsAlwaysPerCaller` assumes
`Callers` of at least that (`ScriptCallers`; the instance of `tron_audit` has exactly so many, and
with the code's ten stakers it is twelve). Its invariant is `Rated`: what was sent lately, the
requests that are about to be sent, a part of a token for each caller and what the bucket holds
beyond one token are together never more than the bound (`Promised`). With it goes `Waits`: a
waiting request is due exactly when the bucket, left alone, holds a token. The bound alone is
not inductive: several requests may be due in the same tick, and each adds a token when it wakes. The
lemmas `TickKeepsPromise`, `WakeKeepsPromise` and `ServeKeepsPromise` are the three ways in which
the terms change.

`GiniIsAlwaysMeanDifference` is mostly about the operators of OnchainAnalytics. A sum over a set
takes the elements one by one in the order of `CHOOSE`, and everything about it is an induction over
finite sets. The induction is a lemma about a *set* of subsets (`SmallerSubsets`: a subset outside it
would include a least one, since strict inclusion is well-founded), so that no operator has to be
passed to a theorem. From it: the function that `MapThenSumSet` chooses exists and does not depend
on the set it starts from (`SummedExists`, `SummedAgree`); a sum may take its elements in any order
(`TotalTakesAny`), is linear and monotonic, may be renumbered (`TotalRenumbered`), and the sum of a
table is the same by rows and by columns (`RowsOrColumns`). Every place of the sorted list is taken by
one balance (`PlacesAreTaken`), so the weighted sum is one over the balances as listed; the weight of
a balance is the number of those before it less the number of those after it, which splits it into
the differences of pairs (`WeightedIsPairs`). No pair differs by more than the larger of the two
(`PairsAreBounded`), so the bounds of the code never cut, and `ExtremeIsLarge` relates the rounded
quotient to the exact comparison. `AnalysesInv` carries this to the states of the script: the analyses
are of answers, whose balances are natural numbers (`AnswersAssumption`), and what is found is
found in the analyses that are still there.

Two theorems are about the score of the network, which the code computes from fractions and rounds
once (and once more for a low staking ratio). `HealthIsWithin` bounds each part for any parameters
that are not negative (`IsNetwork`) and so the whole, from 17 to 97; the energy part never reaches
the bound at 0 the code has for it, which is why `EnergyScore` has none.
`StakingNeverLowersHealth` says that the four formulas of the staking part meet in the right order
and that rounding keeps it. The staking ratio is in 1/10000 here, as in the model: a ratio that is
not a multiple of that is outside both theorems, and so are the rounding errors of floating point.

Not proved, only model-checked: `ClaimsEnd`, `RunsEnd`, `AuditsEnd` and `ScriptEnds`, which are
liveness under fairness and out of the prover's reach. All other
properties of the passing runs are theorems. The type invariants of the proved modules are part
of the inductive invariants, and each is proved as a theorem or a part of one; the runs that
would only repeat them leave them out.

## Not modelled

HTTP handlers and their error translation, parsing and validation of text,
environment variables, and the translation of JSON fields (collectors, connectors,
`normalizers.ts`), which are stateless. The contents of events beyond what identifies
and orders them. Columns nothing reads (`attempts`, `last_error_code`,
timestamps for display). `authorizations` and `research_jobs` exist in the schema
and nothing in `src/` writes them, so the guard of `delete` that counts them
always passes.

The analyzers of network metrics, energy rental, resource rankings and TRC20 rankings
are called by nothing but their tests. The queries of the two metric stores, which the
script uses only for its summary, and the registry of metric names are left out: SQL
cuts a query without a limit at a thousand rows and the memory store does not, and
nothing in `src/` asks both. The formulas of the scores and thresholds are
a parameter of Eligibility: what is checked there is that they are applied to the
present counts. The redirect loop of `safe-fetcher.ts` and the cursor of the review queue
are stateless, and what they can do wrong is about the syntax of URLs and the encoding of
the cursor. The migration runner, which an operator starts, is not modelled; two of them
at once are a hazard no property covers.

## Plan

What is left, in this order: the redirect loop, the scores' formulas and the cursor against
reference definitions; the migration runner.
