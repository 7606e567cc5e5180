# A formal model of the Bumpa achievement system

TLA+ modules, TLC configurations and TLAPS proofs for this repository: a client's
call passes the gateway, a purchase is stored and announced, achievements and
badges are unlocked from it, and a badge is paid out as cashback. The modules follow
the source; `PROJECT.json` maps every definition to the lines it models.

## 1. The system

| Component | State | Operations | Hard parts |
|---|---|---|---|
| `packages/outbox-sdk` | `outbox_events` rows (status, attempts), a Redis lock, a `running` flag per pod | `publishById`, `publishMany`, `publishPendingBatch`, lock, heartbeat, release | several pods and the immediate publish on one row; lost confirms; crash between claim and save; lock expiry; stale entities; a batch whose rejection nobody handles |
| `packages/broker-sdk` | connection, channel, subscriptions; RabbitMQ's queue, retry queue and dead-letter queue | `publish`, `subscribe`, `handleMessage`, reconnect | redelivery after a lost connection; acks on another channel; retry counts |
| `apps/purchase-service` | `users`, `purchases`, `outbox_events` | `createPurchase` | concurrent requests with one idempotency key; unique indexes and lock waits; client retries |
| `apps/loyalty-service` | `user_projections`, `user_stats`, `user_achievements`, `user_badges`, `processed_events`, configuration tables | `handlePurchaseCompleted`, `unlockBadges`, rule engine, admin operations | read-modify-write of counters; duplicates; rules that depend on each other; configuration that changes under a handler |
| `apps/loyalty-service/src/rules` | none; rules are stored JSON trees | `evaluate`, the shape validators (one here, one in the gateway) | nesting, unknown types, missing `minRequired` |
| `apps/cashback-service` | `cashback_transactions`, `payout_accounts`, `processed_events`, BullMQ jobs | `handleBadgeUnlocked`, `processPayment`, automatic and manual retry, Paystack webhooks | five kinds of actor write one row; stale entities are written back; Paystack answers late, twice or never; crashes |
| `apps/cashback-service/src/payments/banks.service.ts` | the cached bank list and its age | `listBanks` | concurrent fetches; Paystack down; what a failed fetch caches |
| `apps/api-gateway` | calls in flight | guard, validation, `forward`, `forwardRaw`, read retries | a timed-out request that executes later; which calls may be repeated; clients that repeat |
| `packages/events-sdk`, `packages/logger-sdk`, `scripts` | none | types, formatting | none |

The gateway calls the services over HTTP; the services interact only through
RabbitMQ and each keeps its own database:

    client -> gateway -> createPurchase -> outbox -> PurchaseCompleted -> handlePurchaseCompleted
      -> outbox -> BadgeUnlocked -> handleBadgeUnlocked -> BullMQ job
      -> processPayment -> Paystack -> webhook -> outbox -> CashbackProcessed

What makes each component correct:

* outbox: a row is handled by one worker at a time, its status tells the truth
  about the broker, it is given up only after `maxAttempts` attempts, and it is
  settled in the end;
* broker: a message stays at RabbitMQ until a handler has succeeded on it or its
  retries are used up, and consumption returns after every disconnect;
* purchase: one purchase per idempotency key, one answer per key, no answer
  before purchase, user and event are stored together, no lock cycle;
* loyalty: counters equal the set of processed events, everything the rules
  force is unlocked and nothing else, each unlock is announced once;
* configuration: the rows of a scope have distinct positions whose order no
  other row's move disturbs, references exist, a booting replica undoes nothing an
  administrator has changed, and the two do not block each other for ever;
* gateway: what a client means to buy once is bought once although calls time out
  and are repeated, reads survive passing failures, every call is answered;
* bank list: Paystack's list, once known, is not lost, and an old one is served
  only because of an outage;
* rules: a tree holds exactly when all its leaves do, and what the validators let
  through never throws;
* cashback: a user is paid at most once per badge, a row is SUCCESSFUL only if
  money went out, to the right bank details, a processed badge event has a job, every
  payment ends.

## 2. Modules

| Module | Models | Proofs | TLC instances |
|---|---|---|---|
| `EventRelay` | what outbox-sdk promises (abstract) | | |
| `Outbox` | outbox-sdk, with `BrokerService.publish` as its outcome; implements `EventRelay` | `OutboxProofs` | `MCOutbox` |
| `Broker` | broker-sdk's consumer side and RabbitMQ's queues | `BrokerProofs` | `MCBroker` |
| `PurchaseStore` | what `POST /purchases` promises (abstract) | | |
| `Purchase` | purchase-service; implements `PurchaseStore` | `PurchaseProofs` | `MCPurchase` |
| `Gateway` | api-gateway, services left open | | |
| `Banks` | the bank list of the cashback-service | `StorefrontProofs` | |
| `Storefront` | `Gateway`, `PurchaseStore` and `Banks` composed: what a client sees | `StorefrontProofs` | `MCStorefront` |
| `RuleTrees` | stored rules, both validators, `evaluate` | `LoyaltyProofs` | |
| `LoyaltyConfig` | achievements, badges, rules as their leaves, badge requirements | | |
| `LoyaltyLedger` | what the loyalty-service makes of purchases (abstract) | | |
| `Loyalty` | loyalty-service's event handler, active flags; implements `LoyaltyLedger` | `LoyaltyProofs` | |
| `LoyaltyRules` | `Loyalty` beside `RuleTrees` | `LoyaltyProofs` | `MCLoyalty` |
| `AdminConfig` | the loyalty-service's admin operations and its seeder | `AdminConfigProofs` | `MCAdminConfig` |
| `Cashback` | cashback-service, its providers and webhooks; Paystack and BullMQ as used | `CashbackProofs`, `PaymentProofs` | `MCCashback` |

Conventions. Every `await` in the code is a boundary between two steps; what
runs between two awaits is one action. A database transaction takes effect in
the step that commits it; locks and unique keys it holds until then are
modelled where they make others wait or fail. `repository.save(entity)` writes
back the entity as it was read, `repository.update` only the named columns,
and `save` of a row whose primary key exists is an update, not an error. Data
that no property tells apart (names, e-mail addresses, messages, timestamps) is
left out. History variables, marked as such, count what the code does not.
Definitions named `X_Variant` are faulty variants of `X` that show that the
properties can fail; no specification uses them.

### Outbox

`status` and `attempts` are the columns; `pc`, `todo`, `cur` and `seen` are the
suspended calls with their in-memory entities; `lock` is the Redis key.
`Create` commits rows and starts `publishMany`; `Find` is the read of
`publishById`; `AcquireLock`, `Scan`, `ReleaseLock` are `publishPending`;
`Claim`, `Publish`, `SavePublished`, `SaveAttempt` are `claimForPublishing` and
`publishRecord`. `LockExpires` stands for a TTL that runs out before the
heartbeat renews it, `Throw` for a query that fails outside the `try`.

The timer calls `void this.publishPending()`. A batch that throws runs its
`finally` block and then rejects a promise nobody handles, which ends a Node
process: `Abort` releases the lock and lets the whole pod `Die`, with the handlers
that were publishing in it (`PodOf` says which workers share a process). A Redis
error in `acquireLock` or `releaseLock` ends the process without a release, as
any other crash does: `Crash`. In both cases the pod starts again.

`EventRelay` states the promise without workers, lock or counters: an event is
open until it is published with a copy at the broker, failed after `MaxAttempts`
tries, or stranded because a worker was lost, and nothing that has ended opens
again. Under the mapping `Stage` a row is open while it is PENDING or some worker
is between its claim and its save of it, whatever the status column says; a
PUBLISHING row without a worker is stranded.

### Purchase

One call of `createPurchase` per request: `PreCheck`, the two queries of
`save(User)` (`SelectUser`, `SaveUser`), `SavePurchase`, `SaveEvent` with the
commit, `Catch`, `Publish`. `HoldsUser` and `HoldsKey` are the row and key locks
of an open transaction. Failing queries and crashes are actions.

`PurchaseStore` is the promise: `Buy` stores a purchase with its event, the first
of its key; `Reply` answers with the request's purchase or that of its key; `Fail`
answers with an error or not at all, before or after the purchase. The mapping
is the identity on tables and answers.

### Gateway, Banks and Storefront

A call is `Receive` (the guard, then the validation pipe), `Send`, and then
`Respond` or `Timeout`; a read that fails for a reason that may pass goes through
`Delay` to its next attempt, any other failure is the client's answer
(`ToHttpException`). The routes with their service, method and guard are those of
the controller. `Timeout` ends an attempt at the gateway only: the request stays
in `sent` and the service may execute it at any time.

`Banks` is one replica's `BanksService`: `GetBanks` looks at the cache, and
`Unreachable` and `PaystackAnswers` are the two ways the fetch ends. `old` marks a
list that has outlived its TTL, also after it was cached again as new. A failed fetch
reads the cache and writes it back in one step: only microtasks lie between the two.

The gateway repeats a read only after an `AxiosError`. Every failure of an exchange is
one, so `ShouldRetry` has no case for other errors; they would come from
interceptors, and the gateway has none.

`Storefront` lets a request that was sent reach its service: `ServePurchase` is a
step of `PurchaseStore` with the key that the gateway forwards, `ServeBanks` one of
`Banks`, `ServeOther` any answer. Since `Purchase` implements `PurchaseStore`
(section 5), what is shown here of purchases holds with the real service behind
the gateway. A client that repeats a call makes another call with the same key.

### RuleTrees and LoyaltyRules

`EvaluateTree` is `RuleEngineService.evaluate` on the stored tree, with `Every` for
the short-circuit of `Array.every`, which decides whether a throw is reached;
`IsRuleShape` and `IsValidAchievementRuleShape` are the validators of the gateway
and of the service. `Leaves` flattens a tree to what `Loyalty` works with.
`RulesAreTheirLeaves` compares the two in every context in which a handler begins a
pass. The recursion is over a constant set `Rules` of trees that contains the parts
of its members, each nested as deep as `Depth` says; a step of each recursion is an
operator of its own (`EvaluateRule`, `LeavesOfRule`, `IsValidRule`) that is given what
the recursion yields for the parts. A field that a rule lacks is not in its record, as
the rule without `rules` of `loyalty.service.spec.ts:55`: `evaluate` throws where it
would loop over a missing array and compares nothing with a missing number. Fields with
a value of another type than theirs are not modelled. In the run `Rules` is a list of
well and badly formed trees with up to three nested COMBINATIONs and everything inside them.

### Loyalty

One handler per delivery: `Check`, `Upsert` (which takes the row lock that
serialises a user's handlers), `SaveStats`, `TryConfig` and `EndPass` for the
do-while loop, `UnlockBadges`, `Commit`, `Publish`. `Switch` is an
administrator's change of an `active` flag of one of the `Switchable` configs, between
any two queries and any number of times. In `LoyaltyConfig` a rule is
the set of its leaves, since `COMBINATION` means AND at every depth; a leaf of
an unknown type never holds, as the handler's catch block makes it.

`LoyaltyLedger` is the promise: a purchase is applied in one step (`Apply`), which adds
it to the totals, unlocks the least set closed under the rules (`Grant`) and the
badges for it, and announces exactly what was unlocked. There are no handlers, locks
or failures in it, and of administrators only that a `Switchable` config may or may
not count. The mapping is the identity on `user_stats`, unlocks, `processed_events` and
announcements; every step of a handler but `Commit` stutters. With `Overlap` a purchase
may be applied again, which is all that overlapping deliveries of one event can do.

### AdminConfig

Groups, achievements and badges follow one pattern in the code and share their
actions. A request is `AssertAchievementsExist` (outside the transaction),
`FindOne` (with the conflict and not-found answers and the merge of the body),
`NextGroupSortOrder`, the increment of `makeRoomFor...SortOrder` (`MatchRows` is
its snapshot, `ShiftRow` locks, tests again and shifts one row), and the two
queries of `save` (`SaveSelect`, `SaveWrite` with the commit). What a transaction
has shifted stays in `call[q].shifted` until it commits: those rows are locked
and their old values are what others see. `DeadlockVictim` is PostgreSQL's
deadlock detection, `QueryFails` any other error, a taken name among them.
`SeedFind` and `SeedInsert` are the seeder of each booting replica; a clash of
two inserts ends the boot, which starts again. `overlapped` records that two
transactions were open at once.

### Cashback

`row`, `account`, `processed` are tables; `handler`, `job`, `retrier` and `hook`
are calls in flight with their entities; `transfer` and `notices` are Paystack's
side. `Handler*` is `handleBadgeUnlocked`, `Job*` is `processPayment` in a BullMQ
worker, `ScanPick` and `ManualPick` start the two kinds of retry, `ManualOverride` and
`ManualReset` save the bank details an administrator sends with one, `Retry*` is
`retryPayment`, `Hook*` is the webhook service. `JobAccount` and `JobUpsert` are the
two queries of `upsertPayoutAccount`: the entity that is saved holds the recipient code
as it was read, and the insert of a second payment of the user violates the unique
index. `JobQueryFails` is an error of the queries before the `try`, which BullMQ sees
and which leaves the row as it is. `Hazards` selects the awkward
behaviours of the environment a run admits, so that each run says exactly what
a property needs.

### Broker

One service with its one subscription. `queue`, `retry`, `dlq` and `unacked` are
RabbitMQ's view, with the retry header as part of a copy; `open`, `half`,
`consuming`, `tags` are its channels; `channel` and `connector` are the service's
`this.channel` and its reconnect loop; `running` are the calls of
`handleMessage`. `Answer` is `safeAck` and `safeNack`, which use whatever channel
the service has when the handler ends: an answer on another channel than the
delivery's is taken for another message or closes the channel. The history
variable `crossed` records that this has happened. `HandleConnectionIssue` runs
for events of any connection, also abandoned ones; `TimerFires`, `Connect`,
`Bind`, `BindFails`, `ConnectFails` and `Finally` are `scheduleReconnect` and
`connectAndSetup`. Start-up runs the same `connectAndSetup`; a boot that fails
ends the process, which is started again. The null message with which RabbitMQ tells
that it has cancelled a consumer is not modelled: queues are never deleted.

## 3. Runs

Passing runs:

| Run | Shows | Bounds |
|---|---|---|
| `outbox` | exclusivity of the claim, FAILED only after `maxAttempts` tries, duplicates only after lost answers, lock lost only by expiry | 2 rows, 1 caller, 2 pods, one of which it shares with a scanner, 2 attempts, 1 lost answer per row, 1 crash or failed batch |
| `outbox_live` | the outbox implements `EventRelay`; every event ends, also after a crash, unless its own worker was lost | 2 rows of one age in batches of 1 (either may come first, again and again), 1 pod with caller and scanner, 2 attempts, 1 lost answer per row, 1 crash or failed batch |
| `purchase` | createPurchase implements `PurchaseStore`; one purchase and one answer per key; losers of the race for a key get the purchase; no wait cycle, every request ends | 4 requests of 2 users, 3 of them sharing a key, one amount too large, 2 failures |
| `storefront` | one purchase per intended purchase; repeats get the original; reads fail late; every call is answered; Paystack's list is kept | 3 calls, 2 of them with one key that may also be a read, a webhook or a refused admin call, the third with an empty key; 2 attempts per read; 1 expiry of the bank list; the secret key set or not |
| `loyalty` | the handlers implement `LoyaltyLedger`; counters, unlocks, badges; every purchase is counted; rules, also badly formed ones, mean their leaves | 2 users, 3 events, 4 deliveries, 5 achievements (one depends on later ones, two on each other), a badge and the achievement it asks for switched at any time, 1 failure |
| `cashback_calm` | every payment ends, success is final, references are findable | 2 badges, one delivered twice and one without bank details, 4 jobs of 2 attempts, 2 automatic retries |
| `cashback_reorder` | paid and announced once although jobs, commits and webhooks overtake each other, transfers are reversed and an administrator retries; money goes where the payment says or where the user was paid before | 2 badges of one user, one without bank details, delivered once each; 3 jobs of 1 attempt, 1 correction of the bank details |
| `cashback_failures` | SUCCESSFUL means paid, a processed event has a job, every further payment has a job or a failure behind it | both providers, 2 deliveries, 2 jobs, 1 failure of any of five kinds |
| `admin_config` | positions distinct and order of the other rows as long as transactions do not overlap; no dangling reference and no row changed by a booting replica under any overlap; requests end and replicas boot | 2 replicas; 2 groups, 3 achievements, 1 badge; 5 requests: append a group, create one achievement twice (in the old and in the new group), move another to the front, link the badge to the new one |
| `broker` | messages are kept, dead letters are earned, consumption comes back, every message settles | 2 messages (1 malformed), 1 retry, prefetch 1, 3 channels, 2 faults |

Why the bounds are enough: each property is about one row, key, message or
transaction and at most two actors on it at once, so two actors of each kind and
a failure at any point reach the critical interleavings. In `broker` three
channels and two faults let a handler outlive its channel, its answer close the
next one, and the connection abandoned by that disturb the third. In `storefront`
reads are attempted twice, the code attempts them three times: the second attempt
is the last one and the first is not, and what the loop does depends on nothing
else; the theorems hold for any number. Two requests for the bank list come from
one read that timed out and its retry. The faulty
variants confirm it: each property is violated under its own bounds once the
code is changed. Type invariants are proved (section 5) rather than checked. Deadlock is
checked in the outbox runs, where the scanners
never stop; the other systems finish when every request, event, message or
payment is done. In `admin_config` each request is handled once; two inserts and
a move in one group suffice for a lock cycle, for an overwritten create and for
two rows in one position. In `cashback_reorder` nothing is redelivered and no job is
repeated by BullMQ: redelivery and repeated attempts are in `cashback_calm`, whose
`LiveTransferIsFindable` leaves a payment one live transfer at most, since a row carries
one reference.

Runs that end in a violation, each of something the documentation says:

| Run | Documentation | What the code does |
|---|---|---|
| `outbox_crash` | rows are eventually published | a crash after the claim leaves PUBLISHING for ever |
| `cashback_retry_race` | two workers cannot both pay | two retries queue two paying jobs |

Further disagreements met while modelling. They are visible in the modules and
can be shown with the constants named here, but have no run of their own:

* `apps/cashback-service/README.md:38`, saving the reference with the claim closes
  the window for early webhooks: a webhook that arrives before the response is
  saved makes the row SUCCESSFUL, and the save of the stale entity makes it PENDING
  again for good (`Cashback` with hazard `earlyWebhook` violates `SuccessIsKept`).
* `banks.service.ts:52`, the stale cache is served "rather than fail the whole
  request just because Paystack is briefly unreachable": a connection that breaks
  while the body is read rejects `response.text()` outside the `try`, and the
  request fails (`Banks`, the second disjunct of `PaystackAnswers`).
* `banks.service.ts:40`: an expired or static list that was served because of an
  outage is cached for another twelve hours (`Banks`, `Unreachable`).
* `packages/outbox-sdk/README.md:39`, "up to `maxAttempts`": a scanner whose
  batch was read before another worker's failed attempt writes the older counter
  back, so a row can be tried more often (`Outbox`, two scanners; `tries`
  exceeds `MaxAttempts`).
* `API.md:191`, a repeated request returns the original purchase: if it overlaps
  the first request of a new user it fails on the users primary key, which the
  catch block does not recognise (`Purchase`, two requests of one new user).
* `API.md:190`, amounts up to 10,000,000,000: the column is a 32-bit integer.
* `README.md:199-205`, if two replicas race for an unlock, "the loser hits the DB's unique
  constraint and its `PurchaseCompleted.v1` handler throws", and the retry queue
  redelivers: the upsert of `user_projections` that begins the transaction
  (`loyalty.service.ts:67`) locks the user's row until COMMIT, so the loser waits there,
  reads the winner's unlocks and commits. The `loyalty` run shows this (`NoUnlockRace`),
  and `UnlocksDoNotRace` proves it; the unique constraints are never what decides.
* `README.md:148`, consumers act exactly once: two deliveries handled at the same
  time both pass the check, and `save` of the second `ProcessedEvent` is silent
  (`Loyalty` with `Overlap = TRUE` violates `StatsCountEvents`; `Cashback` with
  hazard `dupDelivery` violates `PaidAtMostOnce`, against `README.md:194`).
* `README.md:197`, repeated webhooks apply once: concurrent copies both announce
  (`Cashback` with hazard `dupWebhook` violates `AnnouncedOnce`). Hazard `dbError`
  with two failures violates it too: a job whose save failed later overwrites
  SUCCESSFUL with FAILED in its catch block, and the webhook that comes again
  because its `publishById` failed announces a second time.
* `README.md:214`, a cap on automatic retries: failures reported by webhook do
  not raise `retryCount`.
* `API.md:337`, an invalid account is repaired with corrected bank details via the
  retry endpoint: an account to which Paystack has accepted a transfer keeps its cached
  recipient code, also when the transfer failed later, and the provider prefers it to
  the new details (`Cashback`, `ManualOverride` and `Destination`; `MoneyFollowsDetails`
  says that only such codes stay).
* `apps/cashback-service/README.md:44`, not retryable are "reasons that will never succeed
  on retry": two first payments of one user may both find no payout account; the
  second insert violates `IDX_payout_accounts_userId_unique`, which
  `classifyCashbackFailure` takes for a refusal of the provider, and the payment is
  FAILED until somebody retries it by hand (`Cashback`, `JobUpsert`).
* `admin-config.service.spec.ts:372`, a repeated POST of an id is rejected
  "instead of silently overwriting it": not when the two overlap and the second
  `save` selects the row after the first has committed. Both are answered 201 and the
  second has changed the row of the first (`AdminConfig`, `SaveWrite` of a create with
  `loaded # None`).
* `API.md:463`, saving at an occupied position bumps the others: two overlapping
  requests can leave two rows in one position (`AdminConfig`,
  `PositionsAreDistinct` without that exception).
* `API.md:283`, PROCESSING means being paid right now: a crash after the claim
  leaves it for ever (`Cashback` with hazard `crash` violates `EveryPaymentEnds`).
* `README.md:138`, five attempts: a handler runs six times before the dead-letter
  queue (`DeadLettersHadTheirRuns`).
* `README.md:191`, a reconnect replays unacked messages: not one that the ack of a
  handler from an earlier channel was taken for (`Broker` without the exception
  for `crossed`).

## 4. Fairness

* A started call runs on: Node runs the continuation of a settled promise, and
  the database, Redis and RabbitMQ answer or fail. Weak fairness per worker,
  request, handler, job.
* The poll timer of some pod keeps firing, and Redis drops a key that nobody
  renews (`Outbox`).
* A transaction that waits for a row lock gets it in its turn: strong fairness
  of `Upsert` (`Loyalty`), since PostgreSQL queues the waiters.
* RabbitMQ redelivers what was not acked; Paystack settles every transfer and
  repeats a webhook until it is answered (`Cashback`).
* Close events, timers and reconnects happen, handlers end, and RabbitMQ delivers
  and expires what it holds (`Broker`).
* A call that has arrived at the gateway runs on: every attempt ends with an answer
  or with the timeout of the HTTP client. The services need not be fair
  (`Storefront`).
* The configuration makes progress as a whole whenever it can: weak fairness of
  `Progress`, which includes deadlock detection and the restart of a failed boot
  but no failing query (`AdminConfig`).
* No fairness for crashes, faults, lock expiry under a live owner,
  administrators, or the retry scanner's choice of a candidate.

## 5. Proofs

All theorems hold for every value of the constants that satisfies the named
assumptions of the modules: any number of rows, workers, requests, faults and
crashes, and any value of the bounds that TLC needs. The assumptions say what
kind of values the constants are, and what the code or the database guarantees of
them:

* `Loyalty`: events and deliveries have users, amounts and rules as the DTOs
  validate them; administrators switch configs that exist.
* `LoyaltyConfig`: no achievement is listed twice and none is a badge, since ids
  are primary keys and the two kinds are different tables; the ids of an
  ACHIEVEMENT_SET leaf are a finite list of achievements, since
  `assertAchievementsExist` refuses others (`admin-config.service.ts:108`, and
  `ReferencesExist` below); the numbers in rules are integers.
* `RuleTrees`: rules are JSON values, that is, finite trees: what is inside a rule is
  less deep than the rule.
* `AdminConfig`: the three tables share no rows; the default configuration refers
  only to itself and gives no two rows one position, which is how
  `default-loyalty-config.ts` is written and what TLC evaluates on the instance;
  request bodies have the types of their DTOs.
* `Cashback`: a job has at least one attempt (`attempts: 3`,
  `cashback.service.ts:135` and `:426`); every delivery has an event and every
  event a transaction; there are finitely many retries at a time.

`OutboxProofs`. `TypeInv` adds to `TypeOK` that a worker past its claim has a
current row, that its copy of `attempts` is below the limit and that a PENDING
row's counter is too: without this `attempts` could be incremented past
`MaxAttempts`. `Ownership` says that a claimed row is PUBLISHING (or PUBLISHED,
when the worker's own save lost its answer) and has one owner; exclusivity
follows because the claim needs PENDING. `Delivery` relates the broker's copies
to the row's status, the owner's position and the number of lost answers.
`Counting` bounds every copy of the counter, in the database or in memory, by
the number of publish calls, which is what makes lost increments harmless for
`NeverGivesUpEarly`. `OutboxImplementsRelay` proves `Spec => RelaysEvents` from
these: every action maps to a step of `EventRelay` or to a stutter. The claim and
the lock stutter; the save of PUBLISHED whose answer is lost stutters too, since
its worker still handles the row; a crash and a failed batch map to `End`, which
strands exactly the rows whose only worker died, possibly several at once.

`PurchaseProofs`. `KeyInv` says that a transaction between its insert and its
commit has its key to itself (`KeyReserved`), so that the commit keeps keys
unique; answers name committed purchases of the same key (`AnswerFits`); users,
purchases and events are committed together (`Together`). `RaceInv` explains every
failed request by a fault, by an amount that does not fit or by the race for a
new user, which leaves no room for an error after a lost race for a key.
`PurchaseImplementsStore` proves `Spec => ActsAsStore`: the commit of `SaveEvent` is
`Buy`, and `KeyReserved` is what makes it the first of its key; the answers of
`PreCheck`, `Catch` and `Publish` are `Reply` because of `AnswerFits` and `Together`.

`StorefrontProofs`. `FrontInv` follows a request from the call that made it to the
answer. That no purchase is made twice needs to know that a call for a purchase
is behind its first request only (`OnlyReadsRepeat`, `FirstAttempt`,
`SentByAttempt`), whatever was sent and is still to be executed; requests of
different calls with one key are kept apart by the store (`KeyUnique`). That
repeats agree needs that an answer on its way through the gateway names a stored
purchase of its request's key (`ResponsesFit`, `ResultsFit`). `ReadsFailLate` is
inductive beside it: an attempt that fails for a passing reason ends the call only
when no attempt is left (`FailsLate`). For the bank list `CacheInv` says why a
static list, or one that is cached as new and has expired, is there at all: a
fetch failed (`OldListsAreForced`, which no run repeats). The same lemma about the three ways `listBanks` goes on
(`ListBanksKeeps`) gives the action property `PaystackListIsKept`.
`PartsKeepTheirPromises` shows that the composition restricts its parts and adds
nothing to them: `Storefront` satisfies the specifications of `Gateway` (every service
answers with a status and a payload the gateway knows), `PurchaseStore` and `Banks`. This
is what lets `PurchaseImplementsStore` be used behind the gateway.

`LoyaltyProofs`. `LoyaltyInv` begins with `UserLock`: the upsert's row lock lets one
transaction per user run. From it follows that what a handler has read of its user
is still so when it commits (`ReadsAreCurrent`), hence that inserts do not race and
announcements match unlocks. The do-while loop is about the handler's own data:
`ForcedSoFar` (every set closed under the rules contains what has been unlocked),
`PassSoFar` (no config before the current one would unlock anything if the pass has
not yet) and `LoopIsDone` together say that the loop ends in the least closed set;
they rest on `EvaluateMonotone`, that a rule that holds keeps holding when more is
unlocked. `PurchasesCountOnce` needs sums over finite sets of events: what adding one
event does to such a sum is proved by taking the smallest set that is a
counterexample (subsets of a finite set are well-founded under inclusion), since
the library's induction theorems cannot be used. It assumes `~Overlap`, as the run
does: two deliveries of one event at once break it, which section 3 lists. What is
left then is proved without conditions: no update of the totals is lost
(`NoUpdateIsLost`) and no processed purchase is missing in them (`NoPurchaseIsMissed`),
both from `NextTotals`, that the totals a handler is about to write are one purchase
more than those in the table.

`LoyaltyImplementsLedger` proves `Spec => ActsAsLedger`, for both values of `Overlap`. A
commit has to be an `Apply`: `LedgerInv` follows a handler from the configs it has
loaded (`LoadedAll`: all that nobody switches) through the loop (`UnlocksLoaded`) to
what it is about to commit (`CommitsGrant`), where the loop's result makes it the
ledger's `Grant`; `ReadsAreCurrent` says that the user still has what the handler has
read, `NotYetProcessed` that the purchase is new, `UnlocksAreAnnouncedOnce` that nothing
it announces was announced before. `HistoryDoesNotMatter` goes one step further: as rules
are monotone in totals and achievements, a set that is closed for the new totals is
closed for the old ones, so the achievements of a user are the least closed set for
the user's totals alone. It assumes that no achievement is switched: a purchase
that is handled while an achievement is off leaves its user without it, whatever the
totals, until the next purchase.

`RulesMeanTheirLeaves` is about recursive functions. A definition by recursion is taken
as data, a function of a rule and of a table of values (`IsRecursive`: it looks only at
the values of what is less deep). `RecursionOverRules` shows that such a definition has
a solution, by taking the least deep rule up to which none exists, and
`OneSolution` that it has one only; this turns `EvaluateTree`, `Leaves` and the validator
into equations (`EvaluateTreeDef`, `LeavesDef`, `ValidDef`). That a rule is its leaves, and
that a valid rule does not throw, then follows by the least deep counterexample, with
`EveryIsConjunction` for the short-circuit of `Array.every`.

`AdminConfigProofs`. `SeedersOK` and `BeforeServing`: nothing is inserted by a seeder
once a replica serves, because by then all defaults exist, so that only requests
change a configuration that is in use. `CallsOK` says that what a request has looked
up still exists; as nothing is ever deleted this gives `NoDanglingReference` under
every interleaving. `Alone` holds as long as no two transactions were open at once:
the open one knows which rows are in its way (`KnowsItsWay`: what it has matched and
shifted is exactly what is at or behind its position), from the snapshot of its
increment to its commit. That is what `PositionsAreDistinct` and the action property
`OthersKeepTheirOrder` need; a largest sort order exists because the groups are finitely
many (again by the smallest counterexample). `LateBootsChangeNothing` follows from
`DefaultsExist` without `Alone`: once a replica serves, whatever a slower seeder found
missing is there, so its insert is rejected, and `OnlyRequestsChangeRows` holds under any
overlap.

`CashbackProofs`. `CashInv` rests on the references. `JobOK`: a job's claims are
counted, references beyond its count have no transfer, and the reference it works
on has none until it is sent; the count stays within attempts and failures, which
is why every reference has its type. `RowOK` is stated of the row and of every copy
of it that a handler, a job or a webhook will write back: its reference leads to
this transaction, and if it says SUCCESSFUL one of this transaction's transfers has
gone through. Since jobs keep their transaction and what is paid stays paid
(`Steady`), copies stay good however old they are (`CopyStays`), and `SuccessWasPaid`
follows under all eight hazards. `CommitsOK` and `ProcessedOK` say whose job a
rollback may orphan, for `ProcessedMeansQueued`; `QueueOK` that there is room for the
jobs of the retries under way. `LiveOK` bounds the live transfers of a transaction
by its jobs that will not send again (`Spent`) and the failures: a job that sends
becomes one of them in the same step unless a failure is counted. `AnnouncedOnce`
needs a second invariant, `AnnounceOK`: a success is first a notice, then with one
webhook, then announced, and never two of these; with the mock it never is a
notice. It assumes `NoRepeats` (no repeated webhooks, no database errors), because
section 3 shows that `AnnouncedOnce` fails with either. `CashInv` and `AnnounceOK`
were checked by TLC on the four instances of `MCCashback` first. `CorrectionsAreKept`
proves `MoneyFollowsDetails` under all hazards: `RecipientsOK` says of every copy of a
recipient code, in an account, a job or a retry, that Paystack has accepted a transfer of
that user to the details of its job (`Earned`); each step takes its codes from such
copies or adds the details of a transfer that was just accepted.

`PaymentProofs`. `PayInv` is about chances: whatever can still lead to a payment of a
transaction is a job that has not sent yet, a retry under way, a transfer that is
open or has gone through, the notice that it failed, the webhook that saves this
failure, or a FAILED row nobody retries. `OneChance` says that a transaction has at
most one of these, and every step turns one into another: sending turns a job into
a transfer, a bounce turns it into a notice, the conditional update turns the FAILED
row into a retry, `queue.add` turns that into a job. `PaidAtMostOnce` is the part of
it about transfers. The first chance has to come from one handler: `OneBusy` and
`HandlersAreFirst` (no job before its own), `JobsHaveEvents` (a job's event is
processed, or about to be, so a redelivery stops at the check) and `AbsentRows`
(a job that overtakes the commit finds no row and does nothing).

Its theorems assume `Orderly`: one event per badge, deliveries handled one at a time,
one retrier, and no hazard but `slowCommit`, `earlyWebhook` and `reversal`. This is
what `cashback_reorder` admits, and none of it can be dropped: with any single one of
`dupDelivery`, `dupWebhook`, `dbError`, `crash` and `lostResponse`, with a scanner
beside an administrator, or with two events of one badge, TLC finds a second payment.
What survives these is `PaymentsAreAccountedFor`, proved without conditions above.
`OneChance` also gives `RetryingIsSafe`: a FAILED row has nothing else that could pay.
`SuccessIsKept` also needs that no webhook overtakes the save of its transfer's
result: then the transfer is still open when the job saves PENDING (`SavesInTime`).
`LiveTransferIsFindable` needs in addition that transfers are not reversed; then the
row keeps the reference its job works on from the claim on (`RefsFit`). TLC violates
both with `earlyWebhook`, and the second also with `reversal` and two webhooks.
`PayInv`, `SavesInTime` and `RefsFit` were checked by TLC under these conditions first.

`BrokerProofs`. `TagsInv`: tags are handed out in order per channel, so a
handler's channel and tag name its own delivery; hence an answer that does not
cross takes away that delivery only (`AnswerFacts`), and a channel that closes
gives back everything else (`RequeueFacts`). With it `LostOnlyByCrossedAnswer` is
inductive. `CountInv`: the header of every copy, wherever it is, is at most the
number of failures of its message; this is what `DeadLettersHadTheirRuns` needs,
since a lost ack leaves copies with different headers. `ConnectorInv` ties
`this.channel` to the position of the reconnect loop.

Only model-checked: the liveness properties, since the prover has no support for
fairness. Every invariant and every action property of the passing runs is proved,
and so are the three refinements.

## 6. Not modelled, and the plan

Not modelled: `getAchievementState` and `getBadgeState`, which only read; logging,
scripts, environment variables, the shape and wording of requests and answers,
which banks are on a list and the search in it; time (delays and backoff only
order steps that may happen in any order here); the signature check of webhooks;
the first deployment of a subscriber, before which the exchange drops what is
published (queues are durable, so this happens once).

Planned, in this order:

1. `Pipeline`: `EventRelay`, `Broker` and a consumer composed, refining an abstract
   at-least-once channel, and a consumer that acts once under the conditions
   the runs above identify.
2. `getAchievementState` beside the handlers of `Loyalty`.
