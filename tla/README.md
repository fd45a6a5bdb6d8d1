# A TLA+ development of Kovra (Luce Pay) backend

The repository holds nine Go services of a payments platform: an API gateway,
a wallet, and the services that spend from it or report about it. It has no
tests, and its database migrations are not part of it. What makes it correct is
therefore mostly implicit: idempotency keys, an optimistic version column,
serializable transactions, and sagas driven over HTTP. This directory states
those properties, checks them with TLC on small instances, and proves the most
important ones with TLAPS for every size.

## The system

| part | state | operations | what makes it hard |
|---|---|---|---|
| wallet-service | tables `wallets`, `wallet_transactions`, `saga_compensations` | create, credit, transfer, saga debit / compensate / complete | concurrent handlers on one wallet; lookups outside the transaction; row locks and deadlocks; repeated requests; replies lost after a commit |
| wallet-service, Paystack funding | none of its own | initialize a payment, webhook | redeliveries, dropped errors |
| vtu-gaming-service | tables `vtu_orders`, `vtu_products`; one handler per purchase | purchase, product administration | a saga over two HTTP services without a log: lost, late and failed calls, retries of a provider that is not idempotent and whose answers are not read, crashes |
| api-gateway, middleware | breakers in memory, counters in Redis | rate limit, circuit breaker, proxy | unlocked downstream calls between the breaker's critical sections; expiry; partial pipelines |
| api-gateway, accounts | table `users`, codes in Redis | register, verify, login, OAuth, profile, KYC, admin | check-then-insert; codes that outlive the row they were made for |
| engagement-service | referral codes, streaks, rewards | apply a code, record a login, award | read-modify-write without locks; rewards paid and then marked |
| notification-service, retention worker | device tokens, a RabbitMQ queue | consume events, push | acknowledged whatever happened; redelivery after a crash |
| marketplace, edtech, ai | merchants, tutors, insights | create and review in the background | check-then-insert; a detached goroutine |

The gateway forwards to every service. vtu-gaming-service calls wallet-service
(`/internal/wallet/saga/...`), engagement-service credits it, and Paystack's
webhook credits it through the gateway.

Correctness, part by part: the wallet never loses, creates or overdraws money,
applies a request at most once and keeps saga, debit and refund in agreement; a
purchase never delivers without holding the price, never refunds what it
reported as bought, and leaves money held only if something failed; the gateway
bounds what it admits and always ends a rejection; a verified account stays
verified, and a KYC application that is pending is on file; a verdict lands on
its own application; an event is handled at least once, in order, and repeated
only after a break (a push that fails is acknowledged all the same); a streak is
earned day by day.

Some of what one would like to state the code does not provide. The properties
then say how far it falls short, and why: a day's reward may be paid several
times, up to H(H+1)/2 with H handlers (`RewardsBounded`); a code may be used
more often than its limit by those who race (`ReferralsBounded`); codes, badges
and merchants may be duplicated by races and failed lookups (`KeptOnce`,
`OnlyRacersDuplicate`); two cashbacks may share one credit (`MarkedWasPaid`);
money may stay held after a fault, and goods may be delivered twice after a lost
answer (`StrandedOnlyByFault`, `GoodsMatchMoney`); an application may stay
pending after one (`StuckOnlyByFault`); a reminder may be repeated if it left no
mark (`RemindersAreDue`). These list the faults, and show that nothing else has
such an effect.

## Modules

| module | models | notes |
|---|---|---|
| `WalletDomain` | `wallet-service/internal/domain` | requests, keys, sagas, and the callers' side of idempotency as an assumption |
| `Bank` | what wallet-service promises | every operation atomic, on current money |
| `Wallet` | `wallet_usecase.go` over `repository/postgres` | a transaction is a snapshot and a commit; implements `Bank` |
| `UnitOfWork` | `unit_of_work.go` and the statements of `repositories.go` | a transaction is all its statements, on a model of PostgreSQL; implements `Wallet` |
| `MCUnitOfWork` | an instance of `UnitOfWork` | |
| `MCWallet` | an instance of `Wallet`, and the conservation of money | |
| `Conservation` | the money in the tables of `Wallet` | the sums `MoneyConserved` is about, over finite tables |
| `WalletProofs` | theorems about `Wallet` | |
| `UnitOfWorkProofs` | theorems about `UnitOfWork` | |
| `DataStation` | `datastation_provider.go`, `datastation.go` | pure: what one call of a provider can come to |
| `Purchase` | `vtu_usecase.go`, `wallet_client.go`, `order_repo.go`, `product_repo.go` | composed with `Bank`; extends `DataStation` |
| `MCPurchase` | an instance of `Purchase` | |
| `PurchaseProofs` | theorems about `Purchase` | |
| `CircuitBreaker` | `middleware/circuit_breaker.go` | the critical sections of one breaker |
| `RateLimiter` | `middleware/rate_limiter.go` | one Redis counter per client |
| `Gateway` | a request's way through both and the proxy | composes the two |
| `Accounts` | `auth/email.go`, `auth/oauth.go`, `admin/admin_handler.go` | statement by statement |
| `MCAccounts` | an instance of `Accounts` | |
| `ApiGatewayProofs` | theorems about `Accounts` and `Gateway` | |
| `Funding` | `FundInitialize` and `PaystackWebhook` in wallet-service's `handler.go` | composed with `Bank` |
| `MCFunding` | an instance of `Funding` | |
| `Insight` | `GenerateLuciInsight` and `ChatCompletion` in ai-service | query, calls, pauses and deadline in time |
| `Reviews` | `merchant.go`, `edtech_handler.go` and their goroutines, ai-service's handlers | `MCReviews` checks it along with `Insight` |
| `ReviewsProofs` | theorems about `Reviews` and `Insight` | |
| `Notifications` | `consumer.go`, `notification_usecase.go`, the device table | |
| `MCNotifications`, `NotificationsProofs` | an instance of `Notifications`; theorems about it | |
| `Engagement` | logins, referrals and cashback in `engagement_usecase.go` | |
| `MCEngagement`, `EngagementProofs` | an instance of `Engagement`; theorems about it | |
| `Keepsakes` | codes and badges in `engagement_usecase.go` | looked up, then inserted |
| `Reminders` | `retention_worker.go` | scan, push, mark |
| `EngagementService` | the process both run in | composes the two |
| `MCEngagementService`, `EngagementServiceProofs` | an instance of `EngagementService`; theorems about it | |

### Wallet

A *handler* is the goroutine that serves one HTTP request. It validates the
request and looks its key up outside any transaction (`Receive`,
`ReceiveAgain`), reads the rows in a transaction and tests them (`Begin`,
`Reject`), and commits (`CreditWallet`, `TransferWallet`, `DebitForSaga`,
`CompensateSaga`, `CompleteSaga`) or loses a race (`Conflict`). Any other
handler may act between these. `snap` and `snapSaga` are what the transaction
has read; the writes use those values, as the Go code does, and `CanCommit` is
what the database tests: `UpdateBalance`'s `version = $3`, the unique index on
`idempotency_key`, and PostgreSQL's refusal to serialize (`LevelSerializable`)
when a row that was read has been written since. `Fail` is a crash, a lost
connection or a cancelled context; `Reply` may lose the answer of a committed
request. `acked` is what clients were told.

The reads, the tests on them and the writes of one transaction are two steps,
not one per statement. That this is enough is what `UnitOfWork` shows.

Outside the repository, and assumed from how the code uses it: unique indexes
on `wallets.user_id`, `wallet_transactions.idempotency_key` and
`saga_compensations.saga_id`; balance and version start at 0; `is_locked` is
written by someone (`ToggleLock`), since the code only reads it. Amounts are
integers, as `decimal` is exact for addition. `KeysIdentifyRequests` assumes
that callers do not reuse a key for another request: this repository derives
keys from UUIDs or nanosecond clocks.

### UnitOfWork

The same handlers, but a transaction runs its statements one by one: `Begin`
takes the snapshot and computes, as the Go code does from what it has read, the
list of writes (`CreditBody`, `TransferBody`, ...); `Write` does the next one,
which locks the row or the key and waits for another holder; `WriteFails` is a
unique violation, a serialization failure or a version that moved;
`BreakDeadlock` is PostgreSQL's choice of a victim. An error leaves the
transaction *aborted*: the only thing left to it is `Rollback`. That is where
`TransactionRepo.Create`'s answer to a duplicate key goes wrong: it looks the
earlier row up in the aborted transaction (`repositories.go:167`), which fails.
(It does not come to that either: lib/pq's error text does not hold the code
`23505` that `isUniqueViolation` looks for.) `stale` marks the rows that a
transaction is to update and that changed after its snapshot.

`ImplementsWallet` maps the state by forgetting the lists of writes, and an
aborted transaction to one that is open and cannot commit. Every statement but
the commit is then a stutter. PostgreSQL is assumed to do what the module's
header says, in particular first-updater-wins and deadlock detection; its
predicate locks are covered by `Fail`, which may come at any time.

### Purchase

One purchase per saga id. The handler's steps follow `Purchase`: read the
product, debit, create the order, call providers up to three rounds, then fail
the order and compensate, or fulfil it and complete. A wallet call (`call`)
stays in flight until wallet-service serves it (an atomic step of `Bank`) or
drops it (`WalletRefuses`), and the handler may stop waiting at any time
(`Heard`, `DebitFailed`): this covers lost requests, lost answers and late
effects. What a provider call can come to is `Execute(category)` of
`DataStation`: the provider delivers or not, the client reads its report, a
refusal, a text or nothing, and tells success or error. The two may disagree:
an answer is lost ("provider"), or an answer that is no delivery is taken for
one ("misread"), since neither the status code nor a field of the answer is
looked at. What the product's category does not sell is an error without a
call. The administrator creates, changes and withdraws products meanwhile; a
purchase keeps what it has read. Order writes
may fail (the request's context is cancelled when the client leaves). `Crash`
kills every running handler. `faults` records what went wrong with each
purchase, so that properties can say "unless".

`wallet_client.go` posts to `/internal/wallet/...` under its base URL, while
wallet-service registers its routes under `/api/v1`; the base URL must include
that prefix. `handler.go` takes the buyer from a `user_id` that no middleware
of the service sets. The model starts where `Purchase` is called.

### Gateway

`RateLimiter` keeps Redis' counter and its time to live and, as history, how
many requests were admitted since 0, 1, ..., `Window` - 1 ticks ago.
`CircuitBreaker` has one action per critical section. `Gateway` interleaves
them: a request is limited, passes the breaker, and its outcome is recorded
when its call ends, while others go on. A pipeline is one step or fails in one
of three ways; time is discrete. (The pipeline is not a transaction: if the key
expired between its INCR and its EXPIRE, the request would go uncounted. The two
arrive at Redis together, and the model does not let time pass between them.)

### Accounts

A request is a handler that runs one statement at a time: there are no
transactions, so `job[h].at` names the statement it is about to run, and any
handler may run between two statements of another. `StatementFails` ends a
request at any of them. `Register` is `RegisterRead`, `RegisterUpdate` or
`RegisterInsert`, `StoreCode` and `SendMail`; `Verify` is `VerifyRead`,
`VerifyConfirm` and `VerifyClear`; `SubmitKyc` is `KycInsert` and `KycUpdate`.
`LoginUnverified` is the one outcome of a login that changes state.
`user` is the table `users`, `code` the Redis keys, `mail` the codes that each
address has received, and `told` what clients were told. `Lower` is the
conversion by `strings.ToLower`, which `email.go` applies and `oauth.go` does
not. A code may expire at any time.

### Funding

`payment` follows Paystack's side of a payment and `payer` the user it is for;
`answered` holds the payments whose webhook has been answered 200. `Parts` is
`strings.Split(reference, "-")` on a reference whose user id is a UUID of five
groups. The webhook's credit is a step of `Bank`, or none.

### Reviews

Each application goes through `LookUp`, `InsertMerchant` or `InsertTutor`, and
the detached goroutine's call to ai-service (`Answer`) and `RecordVerdict`.
`Answer` covers ai-service's handlers and the model behind them: a form whose
optional field is empty (`blind`) gets an error, any other a verdict, an error
or an answer that is neither. A lookup, an insert and an update may fail, with
or without effect. `Crash` ends every goroutine of one service. That a user has
one tutor row at most is external: `edtech_handler.go` reports "User is already
a tutor" on a failed insert, which only a unique index can produce.

`Insight` is one request for an insight: `Ask` is its query, `Attempt` one round
of its loop, a call and what follows it. Its deadline ends the query and the
pauses; a call runs under a context of its own. `main.go` starts the service
without an API key as well: it then has no `provider`, and `NoProvider` gives
the fallback at once. A candidate without content panics (`provider.go:80`), and
gin's `Recovery` tells the client that the service failed.

### Notifications

The queue, the client's prefetch `buffer` and the state of the connection are
separate. `handleEvent` is `Take`, `Discard` (an event without a handler or
user), `LookUp`, `Push`, and `Ack`, deferred and so the last thing of every
path. `LoseConnection` returns what is not acknowledged to the broker while the
client still handles what it had been handed. `Restart` empties the process. It
may find no broker: `main.go` then goes on without a consumer. The push provider
in the repository is a mock that always succeeds; the model lets it fail as its
interface allows. The lookup does not read `rows.Err()`, so `LookUp` may find
some of a user's devices only. `logging` holds the entries of goroutines not yet run.

### Engagement

`RecordLogin` is `ReadStreak`, `DecideStreak` (the date is read after the row)
and `WriteStreak`; `ApplyReferralCode` is `ReadCode`, `CreateReferral` and
`IncrementUses`; both end in `awardCashback`: `CreateEntry`, `CreditWallet`
and `MarkCredited`. The service's repositories are interfaces without an
implementation, and `main.go` starts it without a use case; each interface
method is taken as one atomic statement that may fail. The key of a credit is
the user, the source and a time in milliseconds, of which `Moments` keeps as
many apart as a run needs. Experience points are left out: they are added on
every path and no decision reads them.

`Keepsakes` is `GetOrCreateReferralCode` and `AwardBadge`: a lookup whose error
counts as "none", then an insert. `Reminders` is the retention worker: `Query`
on a tick of its timer, then `Push` and `Mark` row by row on what the query
saw, while users log in and days pass. A push that reports an error may have
reached its user; the error of the UPDATE is dropped. `EngagementService` runs
both in one process, which may crash at any time.

## Runs and bounds

| run | instance | states | shows |
|---|---|---|---|
| `wallet` | 2 users, 1 saga, 2 handlers, 8 requests | about 62 000 | all wallet invariants, the two action properties, `Wallet` implements `Bank` |
| `wallet_statements` | 2 users, 1 saga, 2 handlers, 7 requests | about 46 000 | `UnitOfWork` implements `Wallet`; the version test never decides; every request ends |
| `purchase` | 1 buyer, 2 purchases, 1 product of 3 categories, 1 provider (3 calls) | about 139 000 | orders, goods, money and faults agree; held money moves on |
| `purchase_refused` | the same | | finding 1 |
| `gateway` | 2 clients, 2 goroutines, limit 2 in 2 ticks, 2 failures trip for 2 ticks | about 156 000 | the window's bound; rejection ends |
| `accounts` | 1 address in two spellings, 1 username, 2 passwords, 2 roles, 1 code, 2 handlers | about 543 000 | verified accounts stay so; applications on file |
| `accounts_registered` | 2 addresses, 1 username, 2 handlers | | finding 2 |
| `funding` | 2 users, 2 payments | | finding 3 |
| `reviews` | 1 user, 2 merchant and 2 tutor applications, or 1 insight with times of 7 kinds, with and without a provider | about 445 000 | duplicates only by races, verdicts on their own rows, what stays pending and why; an insight's longest wait |
| `notifications` | 3 events of 2 users, 1 device, 2 breaks | about 134 000 | at least once, in order, repeated only after a break; the queue drains |
| `engagement` | 1 member who owns the code, 3 referees, 2 handlers, 3 days | about 1 280 000 | streaks are earned; rewards, referrals and marked cashback are bounded by the races and failures that explain them |
| `engagement_service` | 2 users away, 1 owner, 2 handlers, 1 failed lookup of each kind | about 840 000 | reminders are due, or the last left no mark; codes and badges are bounded by races and failed lookups |

Wallet: races are between two handlers, so two are enough for every pair of
operations, and each request may arrive any number of times. Ann's money covers
one of her transfer and her debit at a time, and the completion and the
compensation of the saga compete; two requests are invalid. Ledger entries are
bounded by the requests' keys.

Wallet, statement by statement: both users are credited once, so that opposite
transfers can deadlock, and credits and the debit compete with them for the
rows. The debit needs all that Ann can have: this keeps the sagas few enough,
and its completion and compensation still meet every other request. `Lockable`
bounds whose wallet gets locked.

Purchase: two purchases compete for money that suffices for one, so a debit can
be refused; `MaxCalls` is 3 as with the one provider the service configures.
Of the six categories `OnSale` has one of each kind: taken for sold whatever the
answer (airtime, like education), refused unless it is JSON (data), and not sold
(electricity, like the other two).

Gateway: `MaxPerTick` bounds the requests a client sends in a tick; `Window` and
`ResetTimeout` are long enough for the window to slide past its first request
and for the breaker to trip, reset and trip again. `count` and `failures`
saturate where the code stops telling values apart.

Accounts: the two spellings are what makes an address two rows, and two handlers
give every pair of statements. One code suffices, since codes of one address
prove the same thing; two passwords tell who registered last.

Reviews: rows of different users never meet, so one user is enough; two
applications of each kind race. Notifications: `MaxBreaks` bounds crashes and
broken connections together, and two let an event be handled three times; one
device that changes hands is enough for a stray notice.

An insight: a call takes no time, a half second, three seconds, four, just
under thirty or thirty, and gives a message, an empty one, a panic or an error;
the query before it ends at once, after a half second, just before the deadline
or at it.

Engagement: `MaxUses` is 1 and there are three referees, so that one is refused;
`Milestones` is {3}, reached on the last of `MaxDay` days. `RewardsBounded` has
the bound H(H+1)/2 for H handlers: H logins served at once read the same
streak, and each login of the day before, written late, lets the handlers that
are not held by such a login earn the reward again. `Moments` has two values,
so that the keys of two cashbacks may or may not coincide. The ages of
`Reminders` are kept up to where the query stops telling them apart (three and
two days); `MaxFailures` bounds the lookups that fail.

Runs that check liveness use no symmetry.

## Fairness

`Wallet`, `Accounts`, `Engagement` and `EngagementService` assume none: their
properties are safety. `UnitOfWork` assumes that handlers are scheduled, that a
statement which is possible again and again is executed (strong fairness:
PostgreSQL hands a row to those who wait for it in turn, so an earlier waiter is
not passed over for ever) and that deadlocks are detected. It does not assume
that a request succeeds, and nothing retries.
`Purchase` assumes that the scheduler runs each handler (`WF(Handle(s))`); every
wait in it is bounded by an HTTP client's timeout (10 s to the wallet, 30 s to a
provider), and nothing is assumed of the wallet's answers. `Gateway` assumes
that time passes and that a forwarded call ends, which the proxy's 90 s timeout
ensures. `Reviews` assumes only that a goroutine that has its answer is run; the
call to ai-service has no timeout, so that it returns is not assumed.
`Notifications` assumes that the consumer's goroutine is scheduled and its calls
return; connection and service need not come back. `Funding` assumes that
Paystack delivers until it is answered and, for the finding, a wallet that is
there whenever it is asked, so that the counterexample is the code's doing.

## Proofs

Every theorem is proved by `tlapm` from the modules alone, for any sets of
users, keys, handlers and so on that meet the named assumptions. Each proof of
an invariant has one lemma per action; the inductive invariants were checked by
TLC on the instances of the runs before they were proved.

`WalletProofs`, under `DomainAssumption` and `KeysIdentifyRequests`:

- `TypeCorrect`. The inductive invariant `TypeInv` adds `SnapDomain`: a handler
  in a transaction has read exactly the wallets its request touches, without
  which the commit's writes have no type.
- `NeverOverdrawn` and `HistoryAddsUp`. Neither is inductive: the new balance
  comes from the snapshot. `MoneyInv` adds that a snapshot with the current
  version has the current balance and was sufficient when read (`SnapFresh`),
  that served requests are valid, and that sagas hold positive amounts.
- `KeysRecordedOnce`, `SagasAgree`, `SuccessIsTrue`. `LedgerInv` adds that an
  entry of a history marks its key (`KeysMarked`), so that a commit, which finds
  its keys free, repeats none; that a key was taken by the one request that
  carries it (`MarkedHasEffect`), which is where `KeysIdentifyRequests` is used
  and what makes the answer "done already" true; and that a saga stems from one
  debit and shares its key with no other saga (`SagaSource`, `SagaKeysDiffer`).
- `OutcomesAreFinal` and `LockedStayFrozen`, action properties. The lock was
  tested on a snapshot: the row read was not locked (`SnapSound`), and a row
  that was locked since is no longer the one read (`RowCurrent`).
- `WalletImplementsBank`: initial states and steps of `Wallet` are those of
  `Bank` or stutters. `CreditNow`, `TransferNow`, ... tell what a commit does
  without its snapshot, on the balances of the moment.
- `MoneyIsConserved`, under `FiniteTables` too: the tables have finitely many
  wallets and sagas. With `LedgerInv` and `MoneyInv` it is inductive: a credit
  raises the money paid in and one balance, a transfer moves two balances, a
  debit moves money from a balance into a saga and a compensation back, and a
  completion changes neither. It needs `KeysIdentifyRequests`, by which the key
  of a transfer or debit is no credit's. The sum is a fold, which is a CHOOSE of
  a function on subsets; that it exists, is unique, and may be taken in any
  order (`AddsExists`, `AddsOnce`, `SumRemove`) is proved without an induction
  rule, by a smallest set of those on which it would fail (`Smallest`).

`UnitOfWorkProofs`, under the same assumptions:

- `VersionNeverDecides`, by `UnitInv`: the list of writes is the one its request
  computes from its snapshot (`BodySound`); a row that is not marked stale is as
  it was read (`FreshSound`); what a transaction has written it holds locked, and
  locked rows are not stale (`HeldSound`); no two transactions hold one row
  (`LocksDisjoint`).
- `StatementsImplementWallet`: `UnitOfWork` implements `Wallet`. Every statement
  but the last is a stutter; a commit, whose rows are locked and so unchanged
  since the snapshot, is the commit of `Wallet`; a rollback is its `Conflict` or
  `Fail`. With `WalletImplementsBank` the statements implement `Bank`, and
  everything proved of `Wallet` holds of them; the prover does not take a
  temporal theorem from one module's instance to another, so this last step is
  made here and not in a module.

`PurchaseProofs`, for any users, sagas, products, prices and number of providers:
`TypeCorrect`, `OrdersAgree`, `NothingForgotten`, `GoodsPaid` and the action
property `GoodsOnlyAfterMoney`, that is, every safety property of the run. The
inductive invariant `PurchaseInv` says of each purchase what a wallet call still
in flight may find when it is served, whether or not its handler waits
(`CallInv`), what the handler knows at each point (`AtInv`), why money may stay
held behind it (`EndInv`), and how order, hold and answer agree (`AgreeInv`).
Purchases do not share rows but for the buyer's balance, so a step of one keeps
what is known of another (`Frame`).

`ApiGatewayProofs`, for any addresses, users and number of handlers:
`TypeCorrect`, `StaysVerified` and `PendingFiled`. They need `JobInv`: what a
handler has established before the statement it is about to run, which no other
handler takes back, as rows are never deleted and `is_verified` is never cleared
(`Monotone`). For any clients, limit, window and number of requests at once,
`WindowIsBounded`, by `LimiterInv`: a counter counts at least the requests let
through since any moment in the window, and may only be forgotten, with its time
to live, a whole window after the last of them.

`ReviewsProofs`: `VerdictsNotMixed`, `StuckByFault` and the action property
`RacersOnly` from what row and answer are at each stage (`RowOfStage`); and
`InsightInTime`, for calls of any duration, of a service with or without a
provider.

`NotificationsProofs`, for any events, devices and number of breaks:
`NothingLost`, `KeptInOrder`, `RepeatsNeedBreaks`, `OneStrayAtMost`. `NoticeInv`
adds that an event waits once (`WaitsOnce`), that a handled event that is not
back in the queue is the one at its head, that pushes not yet paid for by a break
are still due (`PushedOnce`), and which notice a device may yet get that was
looked up before it changed hands (`StraySince`).

`EngagementServiceProofs`: `KeptByRacesOnly` (what a user has, and the requests
about to give another, are no more than the handlers and the failed lookups) and
the action property `RemindedWhenDue` (who is in a scan was due when it began).

`EngagementProofs`, for any members, milestones, limit, days and handlers, has
an invariant for each of four parts:

- `StreaksAreEarned`: the streaks that logins have read or computed are
  accounted for as well as the stored ones (`StreakInv`).
- `CodeIsLimited`: referrals are counted, missed or being counted, and uses and
  those past the test of the limit stay below limit and handlers (`ReferInv`).
- `MarkedIsPaid`: no two handlers are at one entry, which has no key before its
  credit and a paid one after it (`PayInv`).
- `RewardsAreBounded`: a day's milestone pays at most H(H+1)/2 times with H
  handlers. The invariant is a budget: rewards entered, owed and coming, and a
  potential, `Turns`, for the logins of an earlier day that are yet to be
  written and may put the streak back. Each of these lets the handlers which are
  not of its kind earn again, and there is one handler more among them each time.

Model-checked only:

- the liveness properties `EveryRequestEnds`, `HeldMoneyMovesOn`,
  `NeverShutForGood`, `VerdictArrives` and `QueueDrains`, since fairness and
  ENABLED are out of the prover's reach;
- the properties of the runs that expect a violation.

## Findings

1. `purchase_refused`: the DataStation client looks neither at the status code
   nor at a field of the answer, and takes a body that is no JSON for a sale
   (`datastation.go:118`, "We handle it safely."). A refused purchase is
   completed, charged and reported as "Purchase successful!"
   (`vtu_usecase.go:172`).
2. `accounts_registered`: a registration with the username of somebody's
   unverified account updates that account (`email.go:125`, `141`) and reports
   success (`email.go:198`) for an address that has none.
3. `funding`: the webhook takes the first group of a UUID for the user's id
   (`handler.go:411`), drops the error and has answered 200: a payment that
   succeeded is credited to nobody.

Seen while modelling, and stated by no run:

- `vtu_usecase.go:147` tells the client that the wallet has been refunded even if
  the compensation failed or was never answered; `StrandedOnlyByFault` says when
  the money then stays held.
- Every request renews the rate limiter's expiry (`rate_limiter.go:45`), so a
  client that never pauses for a window is refused although it stays below the
  promised rate.
- No statement makes a breaker half-open (`circuit_breaker.go:52`): once tripped
  it never closes again, and after each quiet period one failure shuts it.
- "Transaction conflict, please retry" (`ErrConcurrentModification`) is never
  told: under `LevelSerializable` the loser of a race gets PostgreSQL's error,
  that is, "internal error" (`VersionTestRedundant`).
- On a duplicate key `TransactionRepo.Create` looks the key up inside the
  transaction that the error has aborted (`repositories.go:163`): of two copies
  of a request that race, the loser gets an internal error instead of the
  earlier result. `UnitOfWork` aborts it.
- An idempotent answer reads the wallet with its error dropped
  (`wallet_usecase.go:95`) and panics if that read fails.
- `ProductRepo.GetByID` does not read `metadata`, so a purchase always names
  network 1; the PIN in a provider's answer is thrown away (`vtu_usecase.go:130`)
  and the `provider_ref` a client gets is a local clock. No provider has the
  method `/validate-meter` asks for.
- An update of a product answers with a category, currency and provider code
  that it did not write (`product_repo.go:113`).
- `ai_usecase.go:60` means to "Bound the entire operation" at four seconds; a
  call that hangs keeps the client for thirty more.
- `ApplyReferralCode` and `RecordLogin` key a cashback by milliseconds, so two of
  one user and source may share one credit (`engagement_usecase.go:301`).
- A registration that has read an unverified account may replace its password
  after it was verified (`email.go:141`).

## Not modelled

Proxying itself, CORS, JWT issue and validation, and everything that only reads:
balances and histories, orders, catalogues, news, statistics. `is_suspended` is
written by the administrator and read by nothing. Products of merchants are
inserted for any merchant's id and listed. Chats, stored insights and
recommendations have repositories that nothing calls. wallet-service's gRPC
server is not wired. Experience points and the leaderboard are the work of a
repository that is not in this commit. Numbers of database connections bound
nothing here: a handler holds one at a time. The database migrations and
Paystack, Redis, RabbitMQ, Google, Gemini and the VTU providers are external and
modelled by how the code uses them.

## Plan

1. Proofs: the invariants of `Funding` that its run's finding rests on.
2. The administrator's suspension of users and merchants' products, if the code
   comes to read them.
