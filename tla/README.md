# Yellow Trade: specifications and proofs

Yellow Trade is a brokerage platform: customers place orders against cash they
hold on an account, an executor prices and settles the orders, and money moves
in and out of the account through a payment gateway. Customers get their login
from an onboarding chain over two services and use a web client. This directory
specifies the parts of it where several processes write the same rows or where a
message, a request or an answer can be lost, repeated or overtaken, model-checks
them with TLC and proves the main results with TLAPS. Paths below are relative to
`src/`; `OS`, `EX`, `DL` and `AU` stand for the main source trees of
`Services/order-service`, `Services/executor-service`, `Services/domain-library`
and `Services/auth-service`, `FE` for `Frontend/src/app`.

## 1. Inventory

| Component | State it keeps | Operations | Hard because | Correct when |
|---|---|---|---|---|
| Order placement and cancel (`OS/services/OrderService.java`, rules in `DL/services/OrderService.java`) | rows `orders`, `client_account` | `placeOrder`, `cancelOrder` | decides on rows read earlier in the transaction; guarded and versioned UPDATEs | funds are blocked once per working BUY, released once; one order per idempotency key |
| Announcement (`OS/services/OrderEventPublisher.java`) | none, a record in memory | send `ORDER_PLACED` after the commit | not awaited, failure only logged, one thread per request | every accepted order reaches its partition, in order (it need not: see findings) |
| Executor (`EX/consume`, `EX/settle`, `EX/checks`, `EX/fill`) | consumer position, working memory; rows `orders`, `client_account`, `position` | consume, decide, settle, publish, retry, dead-letter | at-least-once delivery, rebalances, stale reads, optimistic lock with a bounded retry | an order settles at most once, at its own order's price, its cash and position move with its status |
| Payments (`OS/payments`) | rows `fund_transfer`, `client_account` | request, replay, decide, back off, set aside | the job may run twice; withdrawal holds compete with orders | each transfer moves its cash once |
| KYC, provisioning, activation, registration (`OS/kyc`, `AU/provisioning`, `OS/activation`, `AU/activation`, `AU/credentials`) | `kyc_application`, `provisioned_account`, `activation_token`, `credential` | verify, provision, issue link, register | a chain over two databases and two topics; row locks in different orders | a verified customer gets exactly one login |
| Outbox relays (`OS/outbox`, `AU/provisioning`) | `outbox` rows | lock a batch, send, mark | crash between send and commit, two relays | every committed event is sent, at least once |
| Sessions (`AU/auth`, `AU/tokens`; `FE/core/session`, `FE/core/guards`) | `refresh_token`; each tab's token pair, timer and page | login, refresh, replay alarm; renew, guard, sign out, reload | three statements per rotation without a transaction; a lost answer leaves the tab with a spent token | a token buys one pair; a replayed one ends the session; a signed-in tab stays renewed |
| Login throttle (`AU/auth`) | a counter per caller, in Redis and in each instance | check, count, forget | check before count; Redis may fail after it has counted | failures are bounded, a lockout ends |
| Strategies (`OS/strategy`) | `strat_strategy`, `strat_run` | fire on a quote, record outcomes, enable, disable | an HTTP call inside a transaction; outcomes arrive by topic | a strategy calls only while armed, and for a bounded number of quotes per arming |
| Alerts and notifications (`OS/watchlists`, `OS/notifications`) | alerts, latest quotes, notifications | hold a quote, trigger, dispatch, retry | quotes out of order, mail inside a transaction | an alert triggers once and its message is delivered or FAILED |
| Portfolio (`OS/portfolio`) | realised sales | book a sale from a trade event | redelivery | each sale is booked once |
| Analytics ETL (`ETL Layer/src/etl`) | watermark, warehouse tables | incremental load | rows that change after they were loaded | every order is in the warehouse once |
| Order window and Cash page (`FE/features/order-ticket`, `FE/features/cash`) | what is typed, the key of what is unanswered | price, submit, retry | an attempt without an answer may still land; the price moves between attempts | a thing is placed once; a key means one thing |
| Pages and stores (`FE/features`, `FE/core`, `FE/shared`) | what is shown, timers, reads under way | read, poll, reread in bursts, act | answers out of order or lost; pages left with timers running | the account, the watchlists, the chart and the search show what was asked last; pages catch up and go quiet |
| Instruments shared by the screens (`FE/core/api/instrument-catalog.ts`) | symbols asked, known, missing | resolve, remember | screens ask for the same symbols at once | each symbol is looked up once, and can be read when the call returns |
| Requests (`Frontend/src/generated`, `FE/core/api`, `FE/core/http`) | none | one method per request, the token's allow list | two servers, maybe on one origin | the token goes just where it is asked for |
| Poller and quote clients, charts, advice, onboarding form, preferences | caches, quotas, single rows | fetch, compute, show | quotas and vendor failures | not about the platform's own state |

Interaction: the order service writes `orders` and `client_account`, and sends
`ORDER_PLACED` on topic `orders`, keyed by account. The executor consumes it,
writes the same two tables and `position`, and sends a trade event. The payment
routes and the payment job write `client_account` too. Trade events feed
notifications, realised profit and strategies; quotes feed alerts and
strategies; KYC, provisioning and activation are chained by outbox events, and
the activation mailer calls the Auth service over HTTP. The web client calls the
Trade REST API and the Auth service; its pages share the session, the current
account and the catalogue of instruments.

## 2. Plan

The order followed, most important behaviour first:

1. `TradeLedger`, the rows of one account and every transaction on them, with
   `CashLedger` as its abstract specification; proofs of both.
2. `OrderPipeline`, delivery of orders and trade events. Proofs.
3. `Strategies`: firing inside a transaction around an HTTP call whose answer may
   be lost; outcomes from the trade events. Proofs.
4. `Onboarding`: provisioning, relay, activation and registration. Proofs.
5. `Sessions`, service and tab together, and `LoginThrottle`. Proofs of both.
6. The web client: `WebApi` (which request goes where), `OrderTicket`, `Screens`,
   and `InstrumentCatalog`. Proofs of all four.

What a further step would take, and why it stands behind these: the average price of a
position, which no decision of the platform reads; the payment job's back-off, which changes when a transfer is
decided and not what the decision does; the Order service's relay together with the
consumers of its topics.

## 3. Modules

| Module | Models | Notes |
|---|---|---|
| `Totals` | adding up amounts over a finite set, as the cardinality of a set of coins | helper without code; written so that TLAPS can reason about sums without recursion |
| `TradingTerms` | the requests (orders, transfers) and the amounts they imply | money in ten-thousandths of a rupee; reservation, consideration, `Rounded`, when a price fills |
| `CashLedger` | what the platform promises about an account's cash | abstract: one clerk, one step per operation |
| `TradeLedger` | order service, payments and executors on one account's rows | read and commit are separate steps |
| `OrderPipeline` | accepted order to trade event over one partition | Kafka group, retries, dead letter, crashes |
| `Strategies` | one trading strategy, its firings and the outcomes of its orders | the order route and the trade events are its environment |
| `Onboarding` | a verified identity becoming a login | one action per statement; row locks as PostgreSQL grants them |
| `Sessions` | refresh tokens at the service, sessions at the tabs | a request is on its way, in the service, or answered |
| `LoginThrottle` | the counters of one caller | time passes in ticks; its names are its own (`ThrottleSpec`), so that one proof module can extend it and `Sessions` |
| `WebApi` | requests, interceptor, guards, tokens | constant operators, no state |
| `OrderTicket` | what an order or transfer is sent as, and under which key | the servers and the way to them are its environment |
| `Screens` | the life of one page or store | a page is a row of a table, EXTENDS `WebApi` |
| `InstrumentCatalog` | lookups of symbols shared by the screens | proved about, not run; its names are its own (`CatalogSpec`), as those of `LoginThrottle` |
| `*_proofs` | theorems | section 6 |
| `MC*` | instances for TLC | |

### TradeLedger

`account` is the `client_account` row with its version; `status`, `fillPrice`,
`transfer` and `position` are the columns of the other rows. `place`, `cancel`
and `exec` are the memory of open requests: what they read, before what they
write.

* A transaction that decides on what it read is two steps. `PlaceCheck` is the
  read of the account (MyBatis answers the second `findById` of the transaction
  from the session's cache, so there is one read) and rules 6 to 8 of the
  domain, on figures the `Account` it is read into has rounded to two decimals;
  `PlaceCommit` is insert, versioned block and commit, and the block works on the
  table's four decimals under its CHECK (`BlockWithinBalance`); `PlaceRollBack`
  is any of them refused. Rules 1 to 5 (KYC, account status, instrument,
  quantity, price) refuse without a trace and are left out.
* `CancelClaim` and `Claim` are the guarded `UPDATE ... WHERE status = 'NEW'`.
  PostgreSQL keeps the row locked until the transaction ends (`Locked`); a
  second claimant waits, then sees the row as it was left.
* The account row is the last one these transactions contend for, so its
  versioned UPDATE and the commit are one step (`CancelCommit`, `Settle`). When
  the version moved, the order service rolls back; the executor reads it again,
  at most `MaxLockAttempts` times (`LockLost`; five in the code), and rolls back
  after the last.
* Payments change the row in place under their own WHERE, so each is one step.
  Between the read and the guarded UPDATE of `PaymentDecider.decide` nothing
  depends on the read but the amount, which never changes.
* `FindOrder`, `FindAccount`, `Decide` are the reads of
  `OrderExecutionService.execute` outside any transaction: everything may change
  before `Claim`.
* An executor may take any order at any time, any number of times. What the
  topic really delivers is `OrderPipeline`'s business; every property of
  `TradeLedger` holds for any delivery.
* `OrderServiceCrash` and `ExecutorCrash` lose memory and open transactions.

Money is counted in ten-thousandths of a rupee, the scale of the table, so that
`Rounded` (`Account.money`, two decimals, half up) is what the code does wherever an
`Account` is read: a balance with a fill's four decimals may look up to half a paisa
larger than it is. What customers name (limits, transfers) is whole paise, which
`TradingTerms` assumes because the requests are validated so (`@Digits(fraction = 2)`).
The average price of a position is not modelled. The status of the account is never changed by the code. The
broken variants that stand before some operators (`ReleasedForEverySide`,
`NeverLocked`, ...) are the bugs the properties are tried against; nothing uses
them.

### OrderPipeline

The orders of one account share a partition, so one partition and its group are
the whole system for them. `log` and `committed` are the broker's; `executor[e]`
holds where `e` is in its batch, what it decided and the trade events it handed
to its producer (`outbox`).

* `Accept`, `Send`, `LoseUnsent`: the commit and the send after it, from memory.
* `Poll` takes at most `MaxPollRecords`; offsets are committed with the batch
  (`AckMode.MANUAL`), by the owner only.
* `Decide`, `Settle` (one step here: `TradeLedger` shows that its transaction is
  atomic), `PublishTradeEvent`, `BrokerTakes`.
* `SkipResolved` is the early exit for an order that is no longer NEW;
  `AlreadySettled` is a settlement that matched no row. Both acknowledge and
  publish nothing.
* `Retry` and `GiveUp`: `DefaultErrorHandler` seeks back to the failed record
  while attempts are left, else sends it to `orders.DLT`; an exception that is
  not on the transient list is given up at once. Whether the offset of a
  dead-lettered record is committed at once is left open, since it depends on
  the container: both are allowed. A dead letter that cannot be published is not
  modelled.
* `TakeOver` is a rebalance while the old owner works: it finishes its batch,
  its commits are refused, and it joins again when it polls.

Cash is not repeated here. Orders are in one instrument, and of the rules behind
a decision only the holding of a SELL is kept.

### Strategies

`strategy` is the row of `strat_strategy`, `runs` the committed rows of
`strat_run` (a run is named by its cause and the quote behind it, which is what
`source_event_id` stands for), `order` the orders placed under the key
`strategy-{id}-{quote}`. `firing[i]` is the open transaction of instance `i`;
`calls` are the calls of the order route that the route has not answered, with
who still waits. `sent` only counts for `FiringsBounded`.

* `LockFireable` takes the row lock, and everything that writes or locks the row
  waits for it (`Unlocked`): the customer's changes, other firings, and the
  insert of an outcome, whose foreign key needs a lock that the firing's
  excludes.
* `Call` is the insert of the run and the POST. The run, the mark and the status
  are committed together by `RecordPlaced` or `RecordFailed`, so an order that is
  accepted in between exists before its run does.
* `TimeOut` leaves the call with the route, which may still accept it. A used
  key is refused (`RouteRefuses`), also when it was used by the same firing
  before it was lost in `Crash`.
* `Outcome` is the trade event of an order, at any instance, any time after the
  order ended, again and again. An event that finds no committed run of its order
  is dropped, so `Outcome` has no fairness.
* Quotes that do not meet the rule are left out, and whether a BUY is within its
  spend and position is left open: `Refuse` may be taken at any locked firing.

`NoToken` is the token call failing; it changes nothing but the firing. The cap
of ten strategies per account and the indicators are not modelled.

### Onboarding

`Backlog` is what `kyc-events` holds: verifications, other events and messages
nobody can read. `HandleKyc` is the consumer (`interpretKycMessage`, then the
insert with its outbox row, or the dead letter), before the offset moves.

* `LockBatch`, `SendNext`, `CommitBatch` are a relay's tick: the rows it locks are
  skipped by the others, a mark counts when the transaction commits. `SendFails`
  is a send without its acknowledgement, which the broker may have taken, and ends
  the tick; `RelayDies` rolls every mark of the tick back.
* `TakeEvent`, `SendMail`, `RecordSent` are `ActivationService.handle`, one record
  at a time. `GiveUpWaiting` is the five seconds of `AuthTokenClient` running out,
  or the mailer dying: the mint goes on without anybody to answer.
* `LockAccount`, `RevokeEarlier`, `InsertToken` are the statements of
  `replaceFor`; `ConsumeToken`, `ClaimAccount`, `InsertCredential` those of
  `registerWithToken`. A statement that meets a locked row waits and reads it as
  committed (`AccountFree`, `TokenFree`). The two take their locks in opposite
  order; `BreakDeadlock` is PostgreSQL choosing either.
* A token exists for every mint that commits: the bound on tokens is the number of
  accounts and faults, since only a fault brings a second mint.

Every profile has an address, so the mailer's poison paths do not occur.

### Sessions

`row` is `refresh_token`; `calls` are the requests, `tabs` each tab's `Session`,
`SessionRefresh` and page. `Find`, `MarkExchanged`, `RevokeAll`, `Issue` are the
statements of `refresh-token.service.ts`, each committed on its own. A tab's
`Exchanging` is `inFlight`: the guard and the timer join an exchange under way
(`Renew`), and both learn its end (`Resolved`). `access` ages from fresh over
lapsing (the last thirty seconds, in which a failed renewal is not tried again) to
expired. `Reload` keeps what `sessionStorage` holds, `Duplicate` copies it, and
`LoseAnswer` gives up on a call the service may go on with. Passwords are right
here.

### LoginThrottle

`redis` and `memory[i]` are counters with the ticks left of their window; a
counter is opened by its first failure and not extended by later ones. `Arrive` is
the guard's check, `Verify` the password check, `RecordFailure` and
`RecordSuccess` the counting after it. Any command may fail and be done in the
instance's memory instead, also after Redis carried it out (`Store`).

### WebApi

One operator per method of the generated clients: origin, verb, path, required
parameters, and whether its description asks for the token. `CarriesToken` is the
interceptor's allow list, `Guarded` the servers' guards, `IssueToken` and
`IssueForStrategy` the claims the Auth service signs. The sets `TradeApi` to
`WatchlistsApi` are what the application's own classes send.

### OrderTicket

`Submit` is either page's button: pricing, the check of cash and holding, the key
(`KeyFor`), and the request on the `wire`. `Handle` is the server, `Lose` the way
there, `GiveUp` an attempt without an answer (status 0), after which the key is
kept. `QuoteArrives` moves the price between attempts; while the ticket is `pristine`
(its instrument has had no price since it was chosen) the first price also turns it to
a market order and fills the limit box in, whatever was typed or sent before. `Fill`,
`Choose` (another instrument) and `Open` (a page made anew, which forgets the key) are
the customer setting out to do something else, which counts as a new `intent`.

### Screens

A page or store is a `Row`: what it reads and sends, what makes it read again,
which answers it keeps, what it does after an act, what clears its error. The
actions are the code these pages share in shape: `Poll` (an interval),
`ScheduleReread`, `TimerFires` and `StrayFires` (the bursts of the blotter and the
Cash page: only the timer set last can be cancelled), `Receive` and `ReadFails`,
`Choose` (another account, range or text), `CatalogKnows` (a chart is read only once
the catalogue knows its instrument), and the acts, of which making a watchlist
(`Create`) shows what comes back to whoever is signed in by then. What is shown is a version
of the server's state and whether something in it is in progress. The check that
rows send only what `WebApi!Sent` has is an assumption TLC evaluates.

### InstrumentCatalog

`Resolve` is the synchronous part of `resolve` up to its first await,
`LookupAnswered` and `LookupFails` what follows each await with the next lookup
sent, `Return` the end, once the lookups of other screens it met are over too.

## 4. Properties

| Property | Hazard it is for |
|---|---|
| `KeepsTheLedger` | every commit, whatever was read before, is a step of `CashLedger` |
| `ReservationsBacked` | released twice, not at all, or by the wrong party |
| `AccountWithinLimits` | a stale read lets two reservations share one amount; two-decimal rounding lets one through that is not covered |
| `CashConserved` | a redelivery, retry or rollback moves cash twice or not at all |
| `OneOrderPerKey` | two requests pass the existence check together |
| `FundedBuysNeverRefused` | the order's own reservation makes it look unaffordable |
| `EventsTellTheTruth` | repeated or contradicting trade events |
| `NothingSkipped` | a working order falls behind the committed offset |
| `SoldOnlyHeld` | a holding is sold twice |
| `SettledInTopicOrder` | a later record is settled before an earlier one, across two executors |
| `EveryAnnouncedOrderEnds` | a record stuck behind a failing one, or missed by a new owner |
| `LastFailureStops` | a failure counted by a late outcome arms a strategy that should stop |
| `FiringsBounded` | timeouts that did place an order, and replays after a lost firing, spend without end |
| `FailuresHaveRuns` | a redelivered quote or event counts twice |
| `FiredHasOrder` | an unanswered call or a replay makes a strategy FIRED |
| `CallsOnlyWhileArmed` | the customer switches it off between the read and the call |
| `OneLiveLink` | mints that overlap leave two working links |
| `UsedTokenIsLogin` | a taken username spends the link; a link makes two logins |
| `OneMail` | redelivered verifications and announcements, late mints, deadlocks mail again |
| `LatestLinkLives` | a second mint revokes the link the customer has just been mailed |
| `VerifiedIsMailed` | an unreadable message, a dead relay or a late answer strands a customer |
| `RegistrationAnswered` | registration and mint wait for each other |
| `OneSuccessor` | two exchanges of one token both succeed |
| `RevokedIsDead` | an exchange already under way outlives the replay alarm |
| `SignedOutForCause` | a tab presents its token twice and trips the alarm by itself |
| `RenewalUnderWay` | a failure, a reload or a sign-in in the middle leaves a tab nobody renews |
| `GuardDecides` | a navigation waits for an exchange that was lost or overtaken |
| `FailuresBounded` | logins that overlap, and instances that lost Redis, count past each other |
| `Forgotten` | a counter without an end |
| `OncePerIntent` | a retry after silence places the order twice, the price having moved |
| `KeyMeansOrder` | something else goes out under the key of what was not answered |
| `ShownIsAsked` | the answer to an older question comes last; another customer's account is shown |
| `CatchesUp` | a poll or a burst stops on a lost, older or unchanged answer |
| `FallsSilent` | a page left behind goes on asking |

`TypeOK` of each module is its type invariant; some say more, as their comments do. Each property is also tried
against a broken variant of the code (`mutants` in PROJECT.json) that TLC must
catch.

## 5. Runs

| Run | Instance and why it is enough | Shows |
|---|---|---|
| `orders_race` | two BUYs, one filling at its limit and one below it, a SELL under the key of one of them, two withdrawals under one key with different amounts, a deposit, two interchangeable executors, two lock attempts, a balance that covers everything only with the deposit and is half a paisa short of what a withdrawal and a BUY take together, a price with four decimals | place, cancel, settle and transfer race for the account row and for each other's orders; the safety properties and the refinement |
| `pipeline_safety` | two SELLs of the one share held, two executors, batches of two, two attempts, any two faults (crash, lost send, rebalance, stray record) | delivery faults do not repeat, contradict, skip or reorder |
| `pipeline_liveness` | a BUY and a SELL, one fault of any kind | every order on the topic ends |
| `accepted_order` | as `pipeline_safety` | a disagreement, below |
| `strategies` | three quotes, two instances, one crash; the second failure stops (the third in the code), which is enough for a failure that does not stop, one that does and a call beyond both | bounds, counting and the customer's switch |
| `strategy_rearmed` | two quotes, the third failure stops, no crash | a disagreement, below |
| `onboarding` | one customer verified twice behind an unreadable message and one of another type, two usernames of which one is taken, two mints and two registrations at once, two attempts (four in the code), two faults of any kinds: enough for a late mint beside its retry, a deadlock beside a crash, and a dead letter | one live link, one login, one mail, and an end for every verification |
| `sessions` | one user, two tabs, two requests in the service at once, three tokens, one fault: the tabs can only trip each other's alarm with one token between them, which takes a duplicate or a lost answer | exchange and alarm, renewal and guard |
| `session_sign_out` | one tab, two users, no fault | a disagreement, below |
| `login_throttle` | the limit of five, two instances, three logins at once, two failing commands, windows of two ticks | how far past the limit, and that it ends |
| `order_ticket` | stock and fund orders and transfers over a price that comes first, moves and goes, three attempts and four intents: enough to open the ticket, fill it in, send it twice and set out for something else | once each, one key each |
| `screens` | every row, two questions, two reads at once, a burst of one reread, one fault, two clicks | right, current and silent in the end |

Bounds: two executors are enough for a race between an owner and a past owner;
two attempts distinguish a first failure from the last; a batch of two has a
record that is acknowledged but not committed when the other fails; two reads
under way are an older and a newer one. Faults are counted in one bound,
`MaxFaults`. Deadlock is not checked where requests may all be resolved, pages left
or bounds reached, and then nothing is left to do; `login_throttle` has no such end
and checks it.

Fairness. `OrderPipeline!FairSpec`: weak fairness of polling and of each step of
the listener, because the container polls in a loop and calls the listener in the
same thread, and of assigning a free partition, which the coordinator does for
any live member. No fairness for failures, faults, requests or sends: an order
that was never sent is not promised anything. `Onboarding!FairSpec`: weak fairness
of the consumer, the mailer, each relay and the end of a deadlock; strong fairness
of each mint and each registration, because PostgreSQL queues for a row lock in the
order of asking, so a statement that can run again and again does run. `Sessions`:
weak fairness of the service working on a request and of an answer arriving; timers
and customers do as they like. `LoginThrottle`: time passes. `Screens`: intervals
and timers fire, and a request that is sent is answered or ends as a failure, which
the browser sees to.

### Where documentation and code disagree

* `ExecutedAsAccepted`: `docs/architecture/kafka.md:13` wants the orders of an
  account executed in the order they were accepted. The send is after the commit
  and not awaited, in the thread of each request, so they may reach the partition
  in another order. What holds is `SettledInTopicOrder`.
* `StoppedUntilEnabled`: `StrategyMapper.java:109` sets a strategy ARMED at any
  failure before the third. When a strategy fired, was armed again and then
  stopped at its limits, the late rejection of its first order arms it, while
  `StrategyFirerTest.java:193` says "STOPPED until the customer looks". What
  holds is `LastFailureStops`.
* `SignOutStopsRenewal`: `session-refresh.ts:93` starts a session with the answer
  of an exchange whatever happened to the session while it was on its way. A
  customer who signs out meanwhile is signed in again, though
  `session-refresh.spec.ts:151` says "stops the renewal on sign-out". What holds is
  `RenewalUnderWay`, and that the timer itself is cancelled.

Met while modelling, and not run, since each is visible in an action of its module:

* `OrderPlacedConsumer.java:57-58` promises "settle, publish, then acknowledge". The
  redelivery of an order that settled before a failure takes the early exit
  (`SkipResolved`) and acknowledges without a trade event.
* `FullSettlement.java:150-154` counts on `atExecution` having rejected a SELL
  without its holding. After a rebalance and a dead letter two SELLs of one holding
  may fill, which is why `SoldOnlyHeld` has its hypothesis.
* Decision log 0012, line 31, says each order is traceable because every firing is a
  run row. A call that timed out (`TimeOut`) is a FAILED run that names no order.
  What holds is `FiredHasOrder`, and `FiringsBounded` limits how many there are.
* `instrument-catalog.ts:37-41` says a caller can read its instruments when
  `resolve` returns. With more than fifty symbols those of the later lookups are marked
  as asked at once and are in `pending` only when they are sent (line 50), so a second
  screen that asks for one before then waits for nothing.
  `ReadableWithOneLookup` proves the promise while every list asked for fits one lookup.
* `order-ticket.ts:288` keeps the key of an unanswered order when only the price of
  a market order moved. A fund bought by amount becomes another number of units at a
  new NAV, and a market order whose live price is gone is sent at the limit typed:
  both go under a new key, and may be placed twice. So does a limit order sent before
  the instrument's first price: that price turns the ticket to a market order
  (`order-ticket.ts:218-230`). `OncePerIntent` excepts the three (`drifting`).
* `Account.canAfford` decides on a balance rounded to two decimals, half up, and the
  table adds up four: with 99.9950 of cash an order for 100.00 passes the rules, and the
  CHECK of `client_account` then rolls it back (`PlaceRollBack`). `AccountWithinLimits`
  says that this is all the CHECK ever has to refuse.
* `market-watch-list.ts:115-128` shows a new watchlist without asking whose it is: a
  customer who signs in while the one before them waits for it sees it until the next
  read. `ShownIsAsked` excepts it (`Made`).
* The limit of the login throttle is five failures in a row, one at a time. Logins
  that overlap at the limit are all let in: `FailuresBounded` says by how much.

## 6. Proofs

| Module | Proves |
|---|---|
| `Totals_proofs` | lemmas for the next one: a total is a natural, 0 over no rows, grows or shrinks by the row that joins or leaves (`TotalAdd`, `TotalRemove`), and depends only on the rows in the set (`TotalAgree`) |
| `TradeLedger_proofs` | of `CashLedger`, through the refinement mapping: `CostWithinReservation` (a marketable BUY costs at most its reservation), `LedgerSafe`, `LedgerConserves`; of `TradeLedger`: `TypeCorrect`, `ImplementsLedger`, `BlockedFundsBacked`, `AccountSound`, `FundedBuys`, `CashIsConserved`, `KeysUsedOnce` |
| `OrderPipeline_proofs` | `TypeCorrect`, `EventsTrue`, `NoneSkipped`, `HoldingAddsUp`, `SettlesInOrder` |
| `Strategies_proofs` | `TypeCorrect`, `StopsAtLastFailure`, `SpendingBounded`, `OnlyArmedCall`, `FailuresAccounted`, `FiredForAnOrder` |
| `Onboarding_proofs` | `TypeCorrect`, `OneLinkLives`, `LoginsForUsedTokens`, `OneMailEach`, `LatestLinkWorks` |
| `Sessions_proofs` | of `Sessions`: `TypeCorrect`, `OneSuccessorHolds`, `RevokedIsDeadHolds`, `RenewalUnderWayHolds`, `SignedOutForCauseHolds`; of `LoginThrottle`: `ThrottleTypeCorrect`, `ThrottleBounds` |
| `OrderTicket_proofs` | `TypeCorrect`, `PlacedOnce`, `KeyTellsOrders` |
| `WebClient_proofs` | of `WebApi`: `EveryRequestCarriesItsToken`, `TokenOpensEveryGuard`; of `InstrumentCatalog`: `SymbolsAskedOnce`, `ReadableWithOneLookup`; of `Screens`: `TypeCorrect`, `AnswersFit`, `BurstsDoNotMultiply` |

The first two for any finite sets of orders and transfers, any set of executors, any
prices, any number of lock attempts above zero, from the assumptions named in
`TradingTerms` and `TradeLedger` (`OrdersAssumption`, `TransfersAssumption`,
`OpeningAssumption`, `ExecutorsAssumption`).

The argument. In `CashLedger`, `IInv` adds nothing but types to
`ReservationsBacked /\ AccountWithinLimits`: the first is needed for the second,
since a fill may take its cost from the balance only because its reservation is
part of the blocked funds. `TradeLedger` refines it: `Inv` holds the types, what
each open request may rely on (a request whose version is still the account's
holds the figures it was checked against; an order is claimed by one party only;
a version is never above the account's), and `CashLedger`'s `IInv` through the
refinement mapping. `Simulates` shows that a step of `TradeLedger` under `Inv` is
a step of the ledger or leaves its variables alone, and the ledger's step lemma
then carries `IInv` over. `FundedBuys` rests on `SpendableCoversReservation`:
while an order works, the blocked funds contain its reservation, so what is left
for it is at least that reservation, and a price it may fill at costs no more. Rounding does not
get in the way of either, since blocked funds are whole paise (`WholeBlocked`): only the
balance is rounded, by half a paisa at most, and never below whole paise it covers
(`RoundedBounds`).

`OrderPipeline_proofs` holds for any finite set of orders of any sizes, any executors,
batches and retry bound and any number of faults (`PipelineAssumption`). What carries
it is `Behind`: whoever stands at a record, owner of the partition or not, has only
done records behind it (resolved, on `orders.DLT`, or none of ours), and the committed
offset has too. A record stays done, because an order that was announced was accepted
(`Announced`) and orders only move on (`Onwards`). `NoneSkipped` and `SettlesInOrder`
follow; the latter needs that an order on the topic has a first place there.
`EventsTellTheTruth` is not inductive, since it says nothing of a settlement whose event
is still to come: `Unpublished` says that no event of that order exists and nobody else
owes one, which the guarded UPDATE makes true. `SoldOnlyHeld` needs `DecisionsStand`,
that the holding a decision was taken on is still there when its settlement matches:
of two executors that decided on different orders, both still NEW, the one ahead has
the other's record behind it, so that one was dead-lettered (`OneDecision`), and once
it fills the promise ends. The invariant was model-checked before it was proved.

`Strategies_proofs` holds for any finite set of quotes, any set of instances, any
failure limit above zero and any number of crashes (`StrategiesAssumption`).
`FiringsBounded` is not inductive: it says nothing of the failures still to be
counted. `Spent` does: each call is paid for by a counted failure, by FIRED, by
the one firing under way (`LockInv`), or by a crash. A firing keeps the strategy
ARMED, so its failure count is below the limit and the failure it may add is
within it. `Delete` forgets the failures, hence `Spent` is only claimed of a
strategy that is there, and `RunsGone` is needed to see that no outcome counts
against a deleted one. `FailuresHaveRuns` and `FiredHasOrder` need a second
invariant, `Records`, about what has been written down: a firing that has called
has no run yet and is in `sent`; one that was told "placed" has its order; and an
order, once there, is never gone again.

`Sessions_proofs` holds for any users, tabs and numbers of requests, tokens and faults
(`SessionsAssumption`). `OneSuccessor` says nothing of an exchange that has yet to
insert; `Marked` does: the row of a token is spent before its successor exists, and a
request about to insert holds a spent, unrevoked token to itself, because
`markExchanged` lets one UPDATE through. `RevokedIsDead` follows, since the alarm
revokes only what it spends itself. `RenewalUnderWay` needs no more than the types.
`SignedOutForCause` is about runs without a fault, and there `Calm` holds: a token is
with one tab or on its way to one, and spent only by the exchange of that tab under
way, so no exchange is refused and the alarm never rings. The first fault ends `Calm`
and the claim with it.

`ThrottleBounds` holds for any instances, any limit, any number of logins at once
and of failing commands. With the types, `FailuresBounded` is inductive: a login let
in by the shared counter found it below the limit, and what is under way is at most
`Parallel` (`UnderWayBounded`); one let in by an instance's own counter has the fault
of the command that failed; a failure counted moves from under way to the counter.

`EveryRequestCarriesItsToken` is a statement about every request and every pair of
origins, equal or not. `TokenOpensEveryGuard` needs the hypothesis that both services
are configured with one issuer, which nothing in the code checks.

`SymbolsAskedOnce` holds for any symbols, any screens and any size of a lookup; its
invariant relates `asked` to what is outstanding or answered. `ReadableWithOneLookup`
is about the behaviours in which each list a screen asks for fits one lookup
(`ListsFit`), however many instruments there are and the screens ask for together: then
nothing is ever waiting to be sent, so whatever is in `asked` is told or is in a lookup
under way, and a call waits for those it met.

The theorems about `Screens` hold for every row, any set of questions (at least one),
any number of reads under way at once (at least one) and any bounds
(`ScreensAssumption`). The rows are told apart by their fields (`RowFields`), and
the chart from the search only by what they read. `ShownIsAsked` says nothing of reads
under way, so it is not inductive; `LatestShown` is: unless a question waits to be
asked, a read for the latest one is about it; while a text that has gone waits there is
no such read and nothing is shown; and a chart waits for the latest question only.
`OwnShown` is its first conjunct, inductive with the types: of the account and the
watchlists, but for a watchlist just made. Nothing is claimed, or true, of the runs of a
strategy, the year's range and the signal of an instrument, which show the answer that
comes last. `TypeOK` holds the bound of the bursts, and that one needs `Overlaps`: each
read, timer and act under way of a burst page goes back to its first read or to a click,
so of all of them there are at most one more than clicks (`BurstsDoNotMultiply`). A
timer gets lost only when another is set while it runs, hence at most one per click, and
each read of a timer that got lost is one above the cap. A bound by `MaxReads` alone,
which the instance of the run also satisfies, does not hold for every `MaxClicks`.

`Onboarding_proofs` holds for any backlog and customers, any number of relays, mints and
registrations at once and any number of faults (`OnboardingAssumption`, which asks for
at least one name). `OneLiveLink` and `UsedTokenIsLogin` rest on what the row locks keep
apart (`LocksHold`): a mint about to insert holds the account, and what it revoked was
every live token of it; a registration past its first statement holds a live token that
no mint holds. `OneMail` and `LatestLinkLives` are counted (`MailsHold`,
`TokensPaidFor`): the mailer tends one event after the other, so a mail is paid for by
an event recorded as mailed or by a failure of the mailer, and a token by an event, by a
failure or by a mint nobody waited for. As long as there was none of the last kind, no
mint is left that could revoke what was mailed (`NoneLate`): `LatestLinkWorks` is about
those behaviours, and about mails recorded as sent. After a late mint the link may be
dead, and no property says otherwise.

`OrderTicket_proofs` holds for any forms and quotes, any cash and holding, and any
number of intents above zero and of attempts (`OrderTicketAssumption`, which also keeps
`Null` apart from numbers and orders). A key is drawn above all others, so a request can
share one only with what was sent while that key was kept, and `KeptFor` says that all
of it has the fingerprint kept with the key; `KeyMeansOrder` follows. `OncePerIntent`
needs `StillKept`: within one intent only the first price changes the form, which a
limit order sent after it and a transfer never meet, and a fingerprint that does not
drift is a function of the form alone (`SteadyFingerprint`), so the next attempt meets
the key that is kept. What drifts (`drifting`) are the exceptions the property names.

Only model-checked, since beyond this prover: the liveness properties
(`EveryAnnouncedOrderEnds`, `VerifiedIsMailed`, `RegistrationAnswered`, `GuardDecides`,
`Forgotten`, `CatchesUp`, `FallsSilent`), which rest on fairness, and anything about
ENABLED. Every invariant and action property of a passing run is a theorem.

## 7. Not modelled

* KYC decisions, notifications, alerts, realised profit: each is one transaction over
  its own rows, read by no other modelled part; what they send is an input here.
* The average price of a position and the rounding of a quoted price to four decimals
  (`ExecutionPrice.SCALE`): a price here has four.
* A record of topic `orders` that can be neither handled nor dead-lettered.
* That a customer stays signed in when the answer to a renewal is lost: they do not
  (`Sessions` has the step), and `SignedOutForCause` is about behaviours without a fault.
* The payment job's back-off and setting aside, the Order service's relay: see
  section 2.
* Price vendors, charts, advice and the ETL: reads and arithmetic; a price is
  arbitrary here.
* What the web client draws, its forms' validation, and renaming or deleting a watchlist.
* Several accounts (no transaction touches two), formats of messages, and the
  database's own failure modes other than a lost transaction.
