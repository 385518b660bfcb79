# TLA+ verification of webhook_engine

The engine accepts events over HTTP, fans each one out to the endpoints of a
tenant, and delivers it to them from a job queue, with retries, rate limits and
recovery. This directory holds TLA+ modules translated from its source, the
TLC configurations that check them on small instances, and theorems proved with
TLAPS. Sources are named relative to `src/`, the root of the repository; the
line of every definition is in `PROJECT.json` under `map`.

## 1. The system

### Components

| Component | State | Operations | Source |
|---|---|---|---|
| Event ingestion | `WebhookEvent`, `Delivery`, `DeliveryOutbox` rows | accept an event once per idempotency key, create deliveries and outbox rows in one transaction, ask for publication | `src/events/application/use-cases/ingest-event.use-case.ts`, `prisma-events.repository.ts` |
| Outbox publisher and scheduler | the `publishing` flag of a process; `publishedAt`, `attempts` and `availableAt` of outbox rows | move due rows to the queue, once a minute after maintenance | `delivery-outbox-publisher.service.ts`, `delivery-outbox-scheduler.service.ts` |
| Delivery maintenance | reads deliveries and outbox rows | recover stale `PROCESSING` deliveries, recover published rows whose job is lost, delete expired secrets, old rows and old events | `delivery-maintenance.service.ts` |
| Queue | BullMQ jobs in Redis | add under an id, take, complete, fail, stall, evict | `src/queue/webhook-delivery-queue.module.ts` (BullMQ is external) |
| Dispatcher | the job a worker runs; the rows of its delivery | check, rate-limit, claim, send, record the outcome, schedule a retry | `dispatcher.worker.ts`, `process-delivery.use-case.ts`, `delivery-executor.service.ts`, `prisma-dispatch-deliveries.repository.ts` |
| Event status policy | status of the event | recomputed from the deliveries in every marking transaction | `event-status.policy.ts` |
| Delivery replay | the delivery row | reset a delivery and schedule attempt 1 | `replay-delivery.use-case.ts`, `prisma-deliveries.repository.ts` |
| Endpoints | url, subscriptions, `isActive`, current and previous secret | create, update, delete, rotate the secret | `src/endpoints/` |
| Rate limiter | token buckets in Redis | take a token, per endpoint and per tenant | `redis-rate-limiter.adapter.ts` |
| Tenants and guards | tenant, hash of its API key | create, update, delete, rotate the key, authenticate | `src/tenants/`, `src/security/` |
| HTTP channel, signing, URL policy | none | send one signed request to an allowed address | `http-delivery-channel.adapter.ts`, `src/security/` |
| Queries, health, metrics, config, shell | none that the rest reads back | read-only, formatting, wiring | `src/health/`, `src/common/`, `src/main.ts` |

### How they interact

    API --(transaction)--> WebhookEvent, Delivery, DeliveryOutbox
     publisher --(findMany, add, update)--> outbox rows --> jobs in Redis
      maintenance --(findMany, getJob, transaction)--> stale deliveries, stranded rows
       worker --(claim, mark, schedule)--> Delivery, WebhookEvent, DeliveryOutbox

The tables and the queue are the only shared state; every process may run
several times. Between any two awaits of one actor all others may run. What
keeps two workers off one delivery is one statement, the conditional update
of `claimForProcessing`: status `PENDING` or `FAILED`, and `attempts` equal to
the attempt of the job minus one.

### What is hard

* A job is run more than once: added twice by overlapping publishers, taken
  from a live worker by the stalled-job check, added again because a finished
  job was evicted or an answer was lost.
* A worker dies, or a database call throws, between the claim, the send and
  the recording of the outcome; `markSuccess` is inside the `try` whose `catch`
  schedules a retry.
* Status, endpoint and snapshots are read before an await and used after it:
  by a worker, a publisher, the maintenance, a replay, an ingestion.
* Two marking transactions of one event read each other's deliveries before
  either commits.
* Everything accepted has to end, whatever fails, by recovery that runs only
  now and then and sees a page of rows at a time.

`PROJECT.json` lists each of these at its line under `hazards`, with the
properties that cover it.

### What makes each component correct

| Component | Properties |
|---|---|
| Dispatcher | each delivery lives the life `DeliveryLifecycle` describes; one sender at a time, one claim per attempt, attempts and acceptances bounded by lost outcomes |
| Outbox and maintenance | a waiting delivery has a row for exactly its next attempt; lost jobs are published again; claims resolve; every delivery ends |
| Clean-up | events go when all their deliveries have ended and rested; rows stay while recovery needs them |
| Event status | a finished event has the status its deliveries amount to |
| Ingestion | one event per tenant and key, however often the request is repeated; deliveries for exactly the endpoints that fitted at one moment |
| Endpoints | an endpoint is what its owner asked for last; a refused update leaves nothing behind |
| Secrets | a receiver can verify every request it may still accept, whenever in the overlap it learns the new secret |
| Tenants and keys | the key a tenant was told last opens the API |
| Rate limiter | no window grants more than the burst and the rate; an ideal bucket, if the clocks agree |
| Retry delays | no attempt before the last answer allows, none later than the maximum delay; refusals end |
| Listings | a client that follows `hasNext` sees every row once, unless something came between |

## 2. The modules

The delivery path is one system of six modules, each of which EXTENDS the one
before it. What it abstracts from (time, tenants, secrets, listings) is modelled
in modules of its own, since their state and the hazards they have in common
with it are few: `WebhookEngine` takes the answers of the limiter and the fan-out
of an event as choices, `AttemptTiming` and `TenantApi` say which choices; it
keeps every row for ever, `Retention` follows one event through the days until it
is deleted.

| Module | Models | Variables |
|---|---|---|
| `FaultBudget` | what may go wrong, and how often | `budget` |
| `DeliveryStore` | the tables and every statement or transaction on them | `event`, `delivery`, `outbox`, `active`, `tx` |
| `DeliveryQueue` | BullMQ as the engine uses it | `waiting`, `running`, `completed`, `failed`, `stalled` |
| `Dispatcher` | workers | `worker`, `acks` |
| `OutboxPublisher` | publishers with their maintenance | `publisher` |
| `WebhookEngine` | API, time, faults, composition, fairness, properties | `replaying` |
| `DeliveryLifecycle` | abstract: the life of one delivery | `status`, `attempts`, `holders` |
| `RateLimiter` | the call of the limiter, the Redis script, clocks, an observer | `offset`, `asking`, `reading`, `bucket`, `answer`, `window` |
| `IdealBucket` | abstract: what a limiter promises | `level`, `lag`, `answer` |
| `AttemptTiming` | when a delivery is attempted, on top of `RateLimiter` | `job`, `quiet`, `refusals` |
| `TenantApi` | tenants, keys, endpoints, subscriptions, ingestion | `tenants`, `endpoints`, `events`, `request`, and observers |
| `EndpointSecrets` | rotation, signing, clean-up, the receiver | `endpoint`, `rotation`, `send`, `receiver`, `told`, `lapses` |
| `Pagination` | the three listings and a client | `table`, `time`, `query`, `client`, `happened` |
| `Retention` | what the maintenance deletes, over days | `event`, `delivery`, `outbox`, `jobs`, `worker`, `pass`, `replay`, and observers |
| `MCWebhookEngine`, `MCAttemptTiming`, `MCTenantApi`, `MCPagination`, `MCRetention` | the instances TLC checks | |
| `WebhookEngineProofs`, `AttemptProofs`, `LifecycleProofs`, `AttemptTimingProofs`, `EndpointSecretsProofs`, `TenantApiProofs`, `PaginationProofs`, `RetentionProofs` | theorems and their lemmas | |

**Store.** A delivery is a pair of an event and an endpoint, `delivery[d]` its
status, attempts, the number of replays, and whether its claim is older than
`staleDeliveryAge` (`aged`). `outbox` is the table as a sequence; a row's
`due`, `published` and `tries` stand for `availableAt`, `publishedAt` and
`attempts`. Rows keep their place, and their index is their id. Operators named like
the repository methods (`claimForProcessing`, `markFailedAndSchedule`,
`resetForReplay`, ...) are the transactions, one step each. `markSuccess`,
`markDeadLetter` and `markCancelled` are two: they update the delivery, then
read its siblings and write the event, and another session may commit in
between; `tx` holds the open ones, and `Locked` is the row lock that makes
others wait.

**Queue.** A job is identified by its row and its tries, as `jobId` does it.
Adding an id that exists is a no-op. `stall` is the first or the second
(`maxStalledCount`) loss of a lock.

**Workers.** `worker[w].pc` is the await a worker is at: `find`, `limit`,
`delay`, `claim`, `send`, `succeed`, `dead`, `cancel`, `retry`, then `done` or
`error`. `CallThrows` and `CommitThenThrow` are the exceptions of each, with
`afterThrow` the `catch` they land in. The answers of the rate limiter and of
the receiver are choices; `acks` counts what the receiver has accepted.

**Publishers.** `publisher[p]` is the loop a publisher is in and what is left of the
rows it has read. `findMany` without an order answers with any page
(`anyOf`), with one the oldest (`oldestOf`). `publishing`, which turns away
overlapping calls in one process, is `pc # "idle"`. Ingestion's own call of
`publishPending` is a step of a publisher like any other.

**Faults.** Each fault spends one unit of its kind, so a run says which faults
it allows, and a property can be stated relative to those that have happened
(`Spent`).

| Kind | Fault |
|---|---|
| `limit` | the rate limiter refuses |
| `toggle` | an endpoint is switched |
| `replay` | a replay is requested |
| `crash` | a worker or publisher dies |
| `db` | a database call throws, with or without its effect |
| `add` | `Queue.add` throws, with or without its effect |
| `loss` | Redis loses a job |
| `purge` | a finished job is evicted |
| `stall` | a live worker loses its lock |
| `slow` | a send outlives `staleDeliveryAge` |

**Lifecycle.** What the delivery path promises of one delivery, with all of its
machinery left out: attempts numbered in order, one worker at a time with each,
an outcome recorded once by that worker, an abandoned attempt taken back.
`WebhookEngine!Lifecycle` maps every delivery to it: `holders` are the workers
between claim and outcome.

**Limiter and timing.** A call of the limiter is two steps: `readClock`, up to the await
(line 11), and `checkRateLimit`, the script with what was read. In between time passes and
other scripts run, so of two processes the one that read later may be served first, which
sets `updatedAt` back. Within one process the connection to Redis keeps the order
(`isNext`). A tick is a millisecond (`Second` of them make one second) and tokens are
counted in fractions of 1/`Second`, which makes the script's fractions exact. All times are
relative to the present: `idle` and `ahead` say when, and with which reading, a hash was
written. An observer (`window`) counts what the `Watched` scope grants; it may start anew at
any time. `AttemptTiming` runs deliveries through the tenant's limit, the endpoint's limit
and the send, with the delays of `process-delivery.use-case.ts` and
`delivery-executor.service.ts` in between: backoff with jitter as a range of whole ticks and
a multiplier that may be a fraction, Retry-After in seconds or as a date. Each await may be
made by a process with another clock than the last.

**API.** A request is a program counter and what it has read so far. Between
any two statements others may run, and `Fail` may end it: a statement throws,
the process dies or the answer is lost; what is committed stays. `updateMany`
and `deleteMany` see what was committed when they started, which is how two
overlapping updates of subscriptions add up (`spared`). `asked`, `seen`,
`answers` and `held` are what the outside may expect after the answers it got. The
clean-up of events pays no regard to requests: `outlived` are those whose event it has
deleted before their answer.

**Secrets.** Times are ticks relative to the present. A rotation fixes the new
secret and the expiry, reads the current secret and writes both in three steps;
a send copies the endpoint with its claim, signs, and is accepted by a receiver
up to `MaxAge` later. The receiver's owner installs a new secret at any time
before the old one expires.

**Listings.** A page and its count are two queries that may see different
tables. The order is `createdAt` alone, so `findMany` answers with any page some
order of equal rows allows.

**Retention.** Ages are full days since `updatedAt` or `publishedAt`; whatever
updates a row resets its age. The steps of `recoverAndCleanup` that
matter here are actions in their order, and a pass may end after any of them.
Rows and jobs can go: a row that is deleted is missing from `outbox`, its job may
still be there, and a worker may hold a job whose delivery is `GONE`.
Every call of the database may throw, before its commit (`Throw`) or after it (the
second alternative of each writer): the job fails, but an exception of `markSuccess`
reaches the `catch` of the executor, which records a failure or a dead letter (`catch`).
Recovery takes back any claim that nobody attends to, and, once in a while, one that
somebody does (`recoverStaleDelivery`). An endpoint may be found inactive, which
cancels the delivery.

To keep this small no worker dies while it holds a job, finished jobs are not
evicted, the check of a limit is merged with the rescheduling it leads to, the send
with the statement that follows it, and publication adds a job and marks its row in
one step; `WebhookEngine` has those in detail. A job that fails in `findById` does so
while it waits (`LoseJob`). `faults` counts lost jobs, calls that throw and claims taken
from a live worker. `upkeep` observes whether maintenance completes every day and
whether a job failed or was lost when its row was about to go (`missed`); `skewed`
whether the event has, or is about to be given, a status that ignores a replay or a
delivery that was reopened (`reopens`); `strayed` the deliveries whose last refusal
recorded another attempt than the next.

## 3. The runs

| Run | Instance | Faults | Checks |
|---|---|---|---|
| `lost_outcomes` | 2 workers, 1 publisher, 1 endpoint | crash, db, stall | `TypeOK`, `NextAttemptScheduled`, `AttemptsBounded`, `AckedOnce`, `SingleSender`, `Lifecycle` |
| `two_publishers` | 2 workers, 2 publishers, 1 endpoint | add, loss, purge, slow or replay (`OneCause`) | `SingleSender`, `NextAttemptScheduled`, `AttemptOnce`, `AckedOnce` |
| `fanout` | 1 worker, 1 publisher, 2 endpoints | toggle, limit | `EventAgrees` |
| `recovery` | 1 worker, 1 publisher, 1 endpoint | two of crash, db, stall, add, loss and limit (`TwoFaults`) | `Settles`, `ClaimsResolve`, `PublicationRecovers` |
| `pacing` | 2 deliveries, 2 processes, limits of the tenant and one endpoint | clocks one tick apart, a tick between reading and script | `TypeOK`, `WindowBound`, `RetryRespected`, `WaitBounded`, `RefusalsEnd`, `OneClockIdeal` |
| `pagination` | 4 rows, 3 moments, one query per listing | inserts, deletions, changes of status, ties | `TypeOK`, `WalkComplete`, `SeenOnce` |
| `secrets` | 2 rotations at a time, 1 send, 4 secrets | overlap, lost answers, pauses | `TypeOK`, `Verifiable`, `LatestSigns` |
| `ingestion` | 1 tenant, 2 endpoints, 2 requests at a time, 4 in all | lost answers, failures, overlap | `TypeOK`, `AcceptedOnce`, `FanOutWasRight`, `AsAsked`, `KeyOpens` |
| `history` | 2 deliveries, 2 workers, retention of 1 day, rows kept 2 days | refusals, cancellations, a replay or one of `faults` (`OneCause`), overlapping attempts of a delivery (`OneOverlap`), aborted passes, days without one | `TypeOK`, `OnlyFinishedDeleted`, `HistoryKept`, `Recoverable` |
| `lost_retry` | 1 worker, 1 publisher, 1 endpoint | loss | refutes `RetryResumes` |
| `event_skew` | 2 workers, 1 publisher, 2 endpoints | none | refutes `EventSettles` |
| `rerun_rate_limited` | 1 worker, 1 publisher, 1 endpoint | crash, limit | refutes `PendingResumes` |

**Bounds of the delivery path.** Each fault named may happen once, anywhere; the
causes `OneCause` lists, each in behaviours of its own.
`MaxAttempts = 2` is the smallest number with both a retry and a last attempt;
`MaxTries = 2` lets a row be published again once after a failure; `Take` (a page,
100 in the code) is 2, so that two rows of a delivery fit, and 3 in `recovery`.
One event suffices, since nothing but the event status relates deliveries and
that only within one event. Workers, publishers and endpoints are symmetric; the
liveness runs use no symmetry. `TwoFaults` of `recovery` cuts a behaviour off before
its third fault; no fault is among the fair actions, so what is left are the
behaviours in which it never comes. That a worker dies, is refused and loses a job in
one behaviour is left to the safety runs. The runs with two workers keep every interleaving
of a worker that recovery has given up on with its successor.

**Bounds of `pacing`.** `Second = 3` does not divide by the limit 2, so delays are
rounded; `Lifetime = 5 = Second + Spread + Latency` is the least its assumption allows
(2000 to 1000 milliseconds and both differences in the code), which makes the expiry
of a hash visible; with `Latency = 1` two scripts can run in the opposite order of their
readings; the multiplier 3/2 gives a fraction, and `MaxDelay = 2` is reached by a
backoff and by a Retry-After. Time has no end. The proofs cover all other values.

**Bounds of `pagination`.** With four rows and pages of one or two there are
full, partial and exactly fitting last pages, and a row can move across a page
boundary in either direction. Time moves independently of inserts, so a row
can appear before one that is already there. Nothing is written between two
walks, nor under a walk that has been promised nothing any more: after a row has
entered and one has left, neither property says anything.

**Bounds of `secrets`.** `Overlap = 6`, `MaxAge = 2` and `MaxPause = 1` (24 hours, 300
seconds, and a request's delay) keep the order the code relies on, named in
`SecretsAssumption`. Four secrets allow a rotation after one that overlapped or was
lost. A secret nobody holds any more is numbered anew.

**Bounds of `ingestion`.** Two requests that overlap show each pair; four in all
allow one before, such as an update that an ingestion meets half done, and one
after. `Calls` bounds those arrivals, so this run ends: it is the only
one with `CHECK_DEADLOCK FALSE`. With one tenant the isolation of tenants is
not exercised beyond the type invariant.

**Bounds of `history`.** One day of retention tells finished and expired events apart. Rows
kept for two days have a first day on which a lost job is still found, and a last one on
which it is not. `MaxRows = 3` lets a delivery be scheduled for its first attempt, a refusal
or a retry, and a replay. The second delivery is the sibling an event status depends on. The
second worker is for attempts of one delivery that overlap. To keep the run small, a
behaviour has a replay or a fault but not both, and none with days without maintenance
(`OneCause`); one delivery at most is scheduled again or ends without success
(`OneTroubled`); two workers are busy, or a third row exists, only after the replay or the
fault and once the sibling has succeeded (`OneOverlap`); and with that row maintenance runs
only while no worker is busy (`QuietPass`). The proofs have no such bounds. Two deliveries
that end at the same time are for `event_skew`. Days need no end, as ages are capped where
they stop making a difference (`older`).

**What the properties say of deliveries.** `Lifecycle`: every delivery refines
`DeliveryLifecycle` as long as only claimers write outcomes. `SingleSender`: unless a
delivery is replayed or a send outlives the stale age, one worker at a time is between
claiming and recording it. `AttemptOnce`: even a worker that was given up on never shares
its attempt number with another. `NextAttemptScheduled`: a delivery that waits has a row for
the very attempt a claim would accept; off by one and it would wait for ever.
`AttemptsBounded` and `AckedOnce`: an attempt beyond the maximum is paid for by a worker
that lost its outcome, and so is, as long as nothing was refused, a second acceptance.
`EventAgrees`: with no transaction open, a finished event has the status its deliveries
amount to. `Settles`: every accepted delivery ends. `ClaimsResolve`: no delivery stays
`PROCESSING`. `PublicationRecovers`: a pending delivery whose job is lost is attempted. The
exceptions are part of the statements: `Settles` leaves out deliveries that wait for a retry
whose job has failed before its claim or is lost (`RetryLost`, see `lost_retry`), it and
`PublicationRecovers` behaviours where a refused send ran again (`RefusedRerun`, see
`rerun_rate_limited`).

**What they say of the rest.** `WindowBound`: whenever one starts to count, a scope grants
at most a burst and its rate times the time elapsed, plus the difference of the readings,
and once more each time one that is behind sets `updatedAt` back. `OneClockIdeal`: with one
clock the limiter refines `IdealBucket`, whose requests count as of the moment the clock was
read; the exception is a script that runs after one with a later reading (`SetBack`), which
mints the tokens of the time between. `RetryRespected` and `WaitBounded` bound the next
attempt from both sides. `RefusalsEnd`: a delivery nobody competes with is refused three
times in a row at most; the third time because the attempt the endpoint refused had taken
the tenant's token. `AcceptedOnce`, `FanOutWasRight`, `AsAsked` and `KeyOpens` hold for
requests that overlap, fail or lose their answer anywhere; `AsAsked` lets overlapping
updates add up, `KeyOpens` excepts overlapping or unanswered rotations and a creation that
was not answered (`lapses`), and `AcceptedOnce` an answer that is under way while its event
is cleaned up (`outlived`): a repeat as the retention ends is told "Event already accepted"
of an event that is gone. `Verifiable` holds if the owner rotates once at a time, only when
the receiver has the last secret, and gets the answers; `LatestSigns` whether or not the
receiver keeps up. `OnlyFinishedDeleted` and `HistoryKept`: when an event is deleted, all
its deliveries have ended, and nothing has happened to any of them for the retention days.
The exceptions (`skewed`) are a replay between the halves of the transaction that finishes
the event, and a refusal or a failure that reopens a delivery under a finished event: of an
attempt that a replay, a recovery or another outcome has overtaken, or of one whose
`markSuccess` has committed and thrown. `Recoverable`: a pending delivery, replayed or not,
has a row or an unclaimed job for its next attempt although rows are deleted, if a pass
completes every day and no job fails or is lost on the last day of its row or later; the
exception is one whose last refusal was of another attempt (`strayed`; see
`rerun_rate_limited`). `WalkComplete` and `SeenOnce` name, in `happened`, what makes a
client miss a row (one that leaves, or enters between a count and its page) or see it twice
(one that enters), besides ties.

**Fairness** (`FairSpec` of `WebhookEngine`). Workers take their steps: BullMQ keeps
fetching, and `await`s return or throw. Publishers go on and begin maintenance
again: the scheduler's interval calls `publishPending` for ever, and the minute
always passes. Rows fall due and abandoned claims age, since the clock runs. A
replay that was read is reset. BullMQ checks for stalled jobs at an interval. All
of it is weak fairness of actions that stay enabled until taken; there is none
for requests, faults, or particular answers. The other modules state no liveness:
that their requests end is the code's awaits returning, and that refusals end
is the safety property `RefusalsEnd`.

### What the runs found

* `lost_retry`: `recoverStrandedPublishedOutbox` looks at `PENDING` deliveries only
  (`delivery-maintenance.service.ts:94`). A retry waits as `FAILED`, so when
  Redis loses its job nothing publishes it again. Nor does anything when `findById`
  or the claim throws and the job fails (`attempts: 1`).
* `event_skew`: two deliveries of an event that end at the same time each see the
  other unfinished (`prisma-dispatch-deliveries.repository.ts:143`), and the
  event stays `PROCESSING`, which the clean-up of old events never deletes.
* `rerun_rate_limited`: a worker dies with its delivery claimed, the job runs
  again, the limiter refuses, and the delivery is set to `PENDING` with a row
  for the attempt already claimed (`process-delivery.use-case.ts:66`).

More came up while modelling that no document of the repository contradicts;
each is an exception some property names:

* A replay turns away only `SUCCESS`, by a check before the reset, so a delivery
  in flight can be reset (`NotReplayed`). A reset between the halves of the transaction
  that ends a sibling leaves the event finished with a `PENDING` delivery; if that is
  not attempted within the retention days, the clean-up may delete it with the event
  (`skewed` of `Retention`).
* `markRateLimitedAndSchedule` and `markFailedAndSchedule` match the delivery by its id
  alone and leave the event as it is (`prisma-dispatch-deliveries.repository.ts:132`,
  `:107`). They reopen a delivery that has ended, under an event that is finished, in
  several ways: an attempt that a replay, the recovery or another outcome has overtaken is
  refused or fails late; or `markSuccess` commits and throws, and the `catch` of the
  executor records the accepted attempt as a failure (`delivery-executor.service.ts:120`).
  Unless the delivery is claimed again within the retention days, the clean-up may delete it
  with the event (`reopens`, part of `skewed`); the retry's job may be lost, and a `FAILED`
  delivery is not recovered.
* A call that reschedules and throws after its commit leaves a failed job and a second row.
  Until the delivery is claimed both may be published, which makes two jobs of one
  attempt; only the claim keeps their senders apart (`throw` after a commit, in `Retention` and
  `WebhookEngine`). One of the two that is refused after the other has claimed the attempt
  sets a delivery that is being sent back to `PENDING`, with a row for an attempt no claim will
  accept (`strayed`, part of what `Recoverable` leaves out).
* A repeated request that is answered while the clean-up deletes its event is told "Event
  already accepted", although nothing is left of the event (`outlived` of `AcceptedOnce`).
* The limiter reads the clock before it sends the script. If the script of another process,
  with a later reading, is served in between, `updatedAt` goes back, and the time between
  the two readings is refilled twice (`SetBack` of `OneClockIdeal`); `WindowBound` counts
  it.
* A delivery that is replayed while jobs of its first life are left and is then
  refused by the rate limiter is `PENDING` with attempts those jobs can claim, so
  it may be accepted more than once per replay (`AckedOnce` leaves refusals out).
* The recovered attempt is numbered without regard to `maxAttempts`
  (`AttemptsBounded` states what does hold).
* The page of candidates for stranded rows has no order and includes the old
  rows of deliveries that were refused, whose jobs have completed: with `Take = 2`,
  `PublicationRecovers` fails, as such rows can fill every page.
* A job that waits for more than a week in Redis and then fails or is lost is not recovered,
  nor is one that does so on the last day of its row, if the next pass comes late: the row
  goes first (`missed`, part of `upkeep` of `Recoverable`).
* An evicted job counts as missing, so a refused delivery's old row, whose job
  completed long ago, may be published again. `RefusedRerun` of `WebhookEngine` does
  not name this case; the run it matters for, `recovery`, evicts no jobs.
* Two overlapping updates of an endpoint's subscriptions add up, since
  `deleteMany` does not see what the other has inserted (`AsAsked`).
* A rotated API key replaces the old one before the administrator has the answer,
  without the overlap endpoint secrets have (`KeyOpens`). Of overlapping
  rotations of a secret, one may be lost without ever having signed (`LatestSigns`).
* An idempotency key is free again once its event was cleaned up, and events
  without subscribers are never cleaned up (`cleanupOldEvents`).
* All deliveries of an event share a `createdAt`, the only column listings are
  ordered by, so rows may change places from page to page (`tied`).

## 4. The proofs

`WebhookEngineProofs` proves, for any events, workers and publishers, any
finite set of endpoints, any `MaxAttempts`, `Take`, `MaxTries` and any budget of
faults:

* `TypeCorrect == Spec => []TypeOK`. The types of publishers and workers are not
  inductive alone: updating a row of the table is typed only if the row exists.
  `Typed` adds `RefsOK`: every job, in the queue or in a worker's or publisher's
  hands, refers to a row of the outbox, and a publisher about to add a job has
  one to add.
* `ClaimsExclusive == Spec => []SingleSender`. That a claim fails while another
  worker holds the delivery depends on the attempt numbers of the rows, so
  `SenderOK` adds, for a delivery without replay or slow send: no row asks for
  more than the next attempt, and none for it while the current one is
  under way (`RowsBehind`); a holder is at the current attempt (`HolderCurrent`);
  and a claim is old, or in a snapshot of the recovery at its current
  attempt, only if its worker has abandoned it (`OldAbandoned`). `Unborn` says
  that a delivery has no rows before its event is accepted, `BudgetOK` that
  faults are only ever spent. The proof has a lemma for each action that moves
  one of these and treats the others as calm steps (`Calm`).

Assumptions: `StoreAssumption` (the endpoints are finite), `MaxAttemptsAssumption`,
`TakeAssumption` (positive page and attempts), `BudgetAssumption`. TLC evaluates
them in every run.

`AttemptProofs` first sorts the steps of all actors by what they do to a delivery, its rows
and its holders: a worker begins, records, retries or delays an attempt; recovery,
replay, time and ingestion do what they do; the rest leave all three alone.
`StepKinds` shows that every step is of one of these kinds. Then it argues by kind:

* `AttemptsUnique == Spec => []AttemptOnce`. The inductive `OnceInv` adds that no
  worker past its claim is ahead of its delivery: a claim is for one more than
  `attempts`, so it differs from every attempt any worker still holds, abandoned
  or not. Unlike `ClaimsExclusive` it needs nothing about rows or recovery, and so
  holds for slow sends too.
* `AttemptsLimited == Spec => []AttemptsBounded`. `BoundInv` bounds what an attempt
  number comes from by `AttemptLimit`, the maximum plus the outcomes lost: rows,
  deliveries, and, strictly, snapshots and every claim that is old or has no
  worker at its attempt, since recovery adds one to those. A claim can come to
  that only by a fault that raises the limit (`AtWorkStep`); a retry needs no
  fault as the executor compares with `maxAttempts` first (`RetryAllowed`).
* `AttemptsScheduled == Spec => []NextAttemptScheduled`. Rows are never deleted in
  the model, so a row for the next attempt stays one until a claim. A retry numbers
  its row after the job, not the delivery; that they agree is `HolderCurrent` of
  `SenderOK`. A new delivery has begun no attempt (`SchedInv`).
* `AcksAccounted == Spec => []AckedOnce`. `AckInv` is a potential: `Chances`, the
  acceptances so far plus what may still become one (each live worker, a delivery
  that can be claimed and an abandoned claim that recovery gives back, and a replay
  that was read), never exceeds what was paid for: one, the
  outcomes lost and the replays. Every kind of step moves one of these into another
  or spends a fault for it (`Balanced`). Recovery gives a claim back by its attempt
  number, so `SnapshotsOld` says that what it has read at the present number is old.

`LifecycleProofs` proves `LifeImplemented == Spec => Lifecycle`, the refinement of
`DeliveryLifecycle`. Besides `SenderOK` and `RetryAllowed`, `LifeOK` says that an open
transaction is for the outcome its worker has seen (`TxOK`), that nobody cancels
before an endpoint was switched (`NeverCancelled`), and that a delivery someone
holds is `PROCESSING` (`HoldersProcess`). Then a step that begins, records, retries
or recovers a delivery is a `Begin`, `End`, `Postpone` or `Recover` (`LifeMaps`), and
any other can only take holders away, of which there is at most one.

It also proves `EventsAgree == ASSUME KeptApart PROVE Spec => []EventAgrees`, with one
worker and any number of deliveries, or any number of workers and one endpoint. More would
be false, as `event_skew` shows; the assumption is a configuration of the engine (one
process with `WORKER_CONCURRENCY=1`), not a restriction of its steps. `EventInv` says that
an event has one open marking transaction at most (`OneMark`), that what such a transaction
will write suits the siblings as they are now (`MarkRight`), and that an event whose
deliveries have all ended has their status (`EventRight`); that a step between the halves
ends no sibling is where `KeptApart` is used.

The first part of `AttemptTimingProofs` is about `RateLimiter`. It proves, for any limits,
any second, any number of requests and processes, and any clocks within `Spread`:

* `LimiterBounded == LimiterSpec => []WindowBound`. The invariant is a balance:
  `Conserved` says that what was granted plus the credit that is left never exceeds
  a full bucket plus the refill of the time elapsed and of the time set back, with
  `Spread + Latency` for readings that lie apart. The
  credit is what the script would count for a clock that agrees with Redis, and
  may be negative; `Charge` is the arithmetic of one request, `TickConserved`
  shows that an expired hash was full, which is where
  `Lifetime >= Second + Spread + Latency` is needed.
* `LimiterImplements == LimiterSpec => OneClockIdeal`. With one clock no reading lies ahead
  of the present (`Agree`), and after `Horizon` a bucket is full whether its hash is still
  there or not (`FullAgain`); so the ideal bucket may forget it (`inSight`). A script that
  does not set `updatedAt` back is a `Grant` or a `Refuse` for the moment its clock was
  read, a tick a `Tick`, and `CeilingBounds` shows that the rounded delay is the shortest.

The second part lifts both to the deliveries of a tenant (`TimingUsesLimiter`: every step of
`AttemptTiming` is one of the limiter or leaves it alone). `SoleIdeal` is about one process:
its connection keeps the scripts in the order of their readings, none of which lies behind
an `updatedAt` (`InOrder`), so `SetBack` does not occur (`NoneSetBack`) and the refinement
is without exception. It adds `RetriesRespected`, `WaitsBounded` and `TimingTypeCorrect`
from one invariant: a delivery that waits is due no earlier than it is asked for
(`QuietCovered`), and what a worker is told is at most a second (`DelaysBounded`).
`DelayCovers` is the lemma about the delays themselves. `RefusalsStop == Spec =>
[]RefusalsEnd` needs `FewRefusals`: a delivery that was refused waits at least as long as
one of its two limits needs for the next token, and the more often it was refused, the fewer
of them are left to refuse it. `ReadyTick` shows that a tick brings each token a tick
nearer, `ReadyTold` that the delay in an answer suffices for the limit that gave it. That
the endpoint's bucket is not the tenant's, part of `TimingAssumption`, is the prefix of the
scopes' names. `BackoffAssumption`, that a power of naturals is a natural, is assumed, since
the provers know nothing of `^`; TLC evaluates it.

`EndpointSecretsProofs` proves, for any `Overlap`, `MaxAge` and `MaxPause` with
`SecretsAssumption` and any rotations, sends and secrets, from one `SecretsInv`:

* `TypeCorrect`, with `Typed`, which ties ages to program counters.
* `ToldSecretSigns == Spec => []LatestSigns`. As long as rotations neither overlapped
  nor lost an answer, the rotations told are increasing and end in the endpoint's
  present secret, or in its previous one while an answer is still to come (`LatestTold`).
* `RequestsVerifiable == Spec => []Verifiable`. The receiver is at most one secret behind
  (`ReceiverInStep`). A request under way is covered in one of two ways
  (`SendCovered`): a secret it was signed with is accepted for longer than the request
  may last (`Lasts`), or it carries both the pending secret and its predecessor, which
  the receiver holds until it adopts the other (`HandsOver`). `SignCovered`
  shows that one of them holds when it is signed, `AdoptVerifiable` and `TickVerifiable`
  that it lasts when the receiver changes its secret and when time passes.

`TenantApiProofs` proves, for any tenants, endpoints, keys, types and requests under way,
from `ApiInv`, the conjunction of what each property needs:

* `TypeCorrect` (`Typed`), with `Related`: requests refer to rows that are there.
* `OnceAccepted == Spec => []AcceptedOnce` (`Accepted`): events of one tenant and key
  are one event, and an answer says what is in the table, unless the clean-up has deleted that
  while the answer was under way (`outlived`).
* `FanOutRight == Spec => []FanOutWasRight` (`FannedOut`): what an ingestion has read of the
  subscriptions goes on being one of the sets that fitted.
* `ToldKeyOpens == Spec => []KeyOpens` (`KeyTold`): of a tenant that was told its first
  key and whose rotations do not overlap, at most one is under way, and the last key written
  is the one to be told.
* `EndpointsAsAsked == Spec => []AsAsked` (`Asked`): an endpoint fits what was asked of
  it; of an update under way what it asks for counts already, and of one that is
  alone also what there was before (`UpdateKept`).

`PaginationProofs` proves, for any finite set of rows, any filter and any limit:

* `TypeCorrect == Spec => []TypeOK`: as a page beyond the first is asked for only if the
  count exceeds what the pages before it hold, there are no more pages than rows.
* `WalkNeverMisses == Spec => []WalkComplete`. `SoughtInv` says of every beginning of the
  present listing that is no longer than what was read: the rows sought in it have been
  seen. Inserts only make beginnings shorter in terms of the rows sought
  (`SoughtWrite`), and a page continues the longest beginning read (`PageRead`).
  Without ties two beginnings are nested (`PrefixesNested`).
* `WalkNeverRepeats == Spec => []SeenOnce`. While rows at most leave, what has been seen and
  is still listed lies in every beginning of the listing that is at least as long as what
  was read (`SeenWithin`), so the next page has none of it (`PageNew`). A row that leaves
  makes beginnings longer in terms of the rows that stay (`SeenShrinks`).

`RetentionProofs` proves, for any deliveries, workers, retention, replays and faults that
satisfy `RetentionAssumption`:

* `TypeCorrect == Spec => []TypeOK`. As recovery knows no maximum, the type of `attempts` grows
  with the faults (`Grown`, `Wider`), and is kept because a `PROCESSING` delivery that nobody
  attends to is below that bound: its worker was lost to a fault (`ClaimsCounted`).
* `EndedDeleted == Spec => OnlyFinishedDeleted` and `RestedDeleted == Spec => HistoryKept`
  from `FinishedInv`: under a finished event every delivery has ended and is at least as old
  as the event's own last change (`FinishedRight`), and a transaction that will finish it
  has read siblings that are still as they were (`MarksRight`). Both parts except only what
  `skewed` does.
* `PendingRecoverable == Spec => []Recoverable` from `RecoverInv`. A pending delivery that
  is not `strayed` has a `Chance` as long as maintenance completes every day: a row for its
  next attempt that is unpublished; or one whose job has failed or gone and which is young
  enough for the next pass to find it (`LostAge`); or a job of that attempt that has still
  to claim or cancel it. A step that takes one of these leaves another, or is the claim
  itself. What it rests on is `TablesInv`: a job that waits or is worked on is the one its
  row asks for now (`JobsNumbered`), so one that ends is found out by that row, and no two
  workers hold the same job (`Held`).

Only ever model-checked: the liveness properties `Settles`, `ClaimsResolve` and
`PublicationRecovers`, as the provers handle neither fairness nor ENABLED. Every other property
a passing run checks is the conclusion of a theorem. Properties the code refutes
have no theorem; the proofs of `EventsAgree`, `EndedDeleted` and `RestedDeleted` show that of
what their modules contain (section 5 says what `Retention` does not) nothing but the causes
named makes them fail.

## 5. What is not modelled

* Deletion together with workers that die and jobs that are evicted (`Retention` has neither;
  it does have calls that throw, lost jobs and recovery that takes a claim from a live
  worker). What it shows of the clean-up is about histories without them.
* The legacy job id `outbox-<id>` (jobs of an earlier version).
* `PATCH /tenants/:id` (a name and a rate limit) and the look-ups of single rows. `Limit` of
  `RateLimiter` is a constant, so what the script does when a limit changes under a bucket
  in use is not checked; the proofs hold for each limit that stays.
* The URL policy (string, address and DNS parsing), HMACs (a signature is the
  secret it was made with), the formats of keys, the administrator's guard
  (a comparison with a constant), health probes, configuration beyond the
  retry settings, metrics, wiring, the development receiver and the seed.
* Payloads, wording and logs.

## 6. Plan

Left, in this order:

1. The refinement of `DeliveryStore` by the tables of `Retention` while nothing is
   deleted, so that what is proved of one is known of the other.
2. `Retention` with workers that die and jobs that are evicted.
3. Theorems that combine components: that the answers `WebhookEngine` takes as
   choices are those `AttemptTiming` and `TenantApi` give.
