# A TLA+ model of the Lemni billing backend

Lemni (`src/`) is a NestJS service that bills the customers of merchants through the
Nomba payment gateway: hosted checkouts, subscriptions with trials, an hourly billing
cycle, retries of failed payments, webhooks, and the merchants' API around them. It runs
as one Node.js process over a libSQL database (Drizzle) and three BullMQ queues in Redis.

What makes it hard is the same everywhere: a handler is a sequence of `await`s, no
database transaction spans two of them, every `UPDATE` is unconditional
(`WHERE id = ...`), and every handler can be interleaved with all others at each `await`,
die there, and be delivered again. The modules here split handlers at their awaits and
let everything else happen in between.

## 1. Inventory

| Component | Source | State | Operations | Talks to |
|---|---|---|---|---|
| Circuit breaker | `provider/circuit-breaker.service.ts` | state, failure count, time of the last change (in memory) | `getState`, `isOpen`, `recordSuccess`, `recordFailure` | gateway client, workers, health cron |
| Gateway client | `provider/nomba.client.ts` | cached access token | `createCheckoutOrder`, `chargeTokenizedCard` | breaker, Nomba |
| Health cron | `scheduler/health-cron.service.ts` | pause flag of the charge queue (Redis) | `runHealthCheck`, every 5 minutes | breaker, charge queue |
| Charge and dunning workers | `scheduler/dunning-worker.service.ts` | jobs in Redis, subscription rows | `processCharge` (5 at a time), `processDunning` (3 at a time) | client, breaker, queues, database |
| Dead letters | `scheduler/dlq.service.ts` | table `dlq_jobs` | list, `replayDlqJob` | charge queue |
| Billing cycle | `scheduler/billing-worker.service.ts` | none of its own | `runBillingCycle`, hourly | database, charge queue |
| Hosted checkout | `checkout/checkout.service.ts` | customers, subscriptions, transactions, one-time codes | payments, card update, unsubscribe | client, database, email |
| Webhook | `webhook/webhook.service.ts` | transactions, subscriptions, customers | `processNombaEvent` | gateway, database, notification queue |
| Plans, customers, lifecycle | `billing/billing.service.ts` | plans, customers, subscriptions | create, update and delete plans, register, reactivate | database |
| Proration, billing period | `billing/proration.service.ts`, `billing-period.util.ts` | none (pure) | `calculateAdjustment`, `computeNextPeriodEnd` | workers, webhook |
| Merchants, sessions, keys | `auth/` | merchants, API keys, one-time codes | signup, login, keys, password reset | database, email |
| Notifications, Telegram | `notification/` | notification log, chat ids | worker, bot handler, log | queue, Telegram |
| Audit, dashboards, email, configuration | `audit/`, `common/`, `config/` | audit log | read-only queries, templates, wiring | database |

The subscription row is the meeting point. Its `status` and `currentPeriodEnd` are written
by the checkout, the webhook, the billing tick, both workers, customers (unsubscribe) and
merchants (reactivate, delete plan), none of which looks at what the others wrote since it
read the row.

What makes each part correct:

- breaker: counter and state agree through doubled, late and stale reports; gateway faults
  trip it; an open breaker admits nothing; outage and pause end;
- workers: a subscription is given up only when its retries are spent; retries are numbered
  without gaps; one retry is at work at a time; a period is granted only for a collection;
  a scheduled retry leads to a verdict;
- billing cycle: nobody due is forgotten, nobody is charged twice by a tick, trials end,
  a failed tick is made good;
- checkout and webhook: a payment is settled once and as the gateway decided; what the
  gateway took is settled in the end; old news does not revive a canceled subscription;
- lifecycle: a status changes only under the hands of somebody who took the row up while it
  was live, or because somebody asked; what was paid is kept; a plan does not take a live
  subscription along that its deletion could have seen;
- merchants: usernames are unique and numbered without gaps, confirmed passwords hold for
  whoever comes later;
- arithmetic: periods follow the calendar and roundings do not add up.

The hard behaviours, each with its line and the properties that watch it, are listed under
`hazards` in `PROJECT.json`.

## 2. Modules

| Module | Models | Composed with |
|---|---|---|
| `CircuitBreaker` | breaker, client, workers as callers, health cron, pause flag | |
| `Dunning` | charge and dunning workers, their queues, dead letters and replay | breaker (open or not), billing query, webhook, customers and merchants as actions |
| `BillingCycle` | the hourly tick row by row, pagination | charge worker, webhook, customers, plan deletion, clock as actions |
| `PaymentLedger` | abstract: what the books promise about a payment | |
| `Checkout` | creating payments, gateway orders, webhook requests | implements `PaymentLedger` |
| `OneTimeCodes` | codes for unsubscribing and for a new password | reactivation, cancellation, plan deletion, clock as actions |
| `SubscriptionLifecycle` | abstract: what the status of a subscription promises | |
| `Subscriptions` | rows of plans, customers and subscriptions and all who write them | implements `SubscriptionLifecycle` |
| `Merchants` | accounts, passwords, API keys, and the requests that use them | |
| `Cycles` | ends of periods and the cost of changing plans, over several periods | |
| `Notifications` | alerts, their log, the chat a merchant has connected | merchants, crashes as actions |
| `MC*` | instances for TLC, constants in the `.cfg` files | extend the above |
| `*Proofs` | theorems checked by TLAPS | extend the above |

How state and actions correspond to the code:

**CircuitBreaker.** `state`, `failureCount` are the fields of the service; `cooled` says
that more than `cooldownPeriod` has passed since the last change, which is all `getState`
asks of the clock. Each outbound call has a place `pc`: a dunning job between its own
`isOpen` and the client's (`checked`), past the client's guard and awaiting the token
(`token`), in `fetch` (`sent`), and returned to the worker, which reports to the breaker a
second time (`succeeded`, `failed`). `GetState` is a step of whoever calls it, so OPEN
becomes HALF_OPEN only when somebody looks. The cron reads in one step (`CronReads`) and
acts on what it read in another (`CronActs`). `Restart` resets the memory, not the pause.

**Dunning.** A charge job is a slot, since its id ends in `Date.now()` and is always fresh;
a dunning job is the pair of subscription and retry number its id is made of, and stays in
the queue's memory when completed or failed (`ended`), so that `Added` ignores a second add. A
handler's place is the state of its job. `err` is what the catch block caught, `paid` and
`collected` are what the gateway has debited, per subscription and per idempotency key.
`Retryable` gives both verdicts where the error text decides and is not Lemni's own.
`grace` is the plan's `gracePeriodDays`, which `PlanUpdated` may change at any moment; a
handler goes by what it read after its check (`limit`), the next one reads anew. `spent` are
the retries that have had their turn: sent and failed, or refused by the client because the
breaker opened after the check (`DunningRefused`), which the catch block does not tell from a
failure. Dead letters are rows with ids (`dlq`); `replay` are those which some replay has
read, with its job added, and has yet to delete. Replays of one letter may overlap, each adds
a job, and deleting a row that is gone does nothing. A
crash hands active jobs back once (`stalled`), as BullMQ does with `maxStalledCount = 1`.
A deleted plan takes the subscription with it (`gone`, the key cascades): updates of the row
then change nothing, a dead letter for it is refused, and its jobs go on. The handlers'
branches for a missing token are left out, because no state reaches them (`WorkHasCard`).

**BillingCycle.** A tick is a phase, a place in its loop, the rows of the page it has not
come to, and `lastId` (`cursor`). A page is any `PageSize` of the matching rows, since the
query has no order. `horizon` is the set of rows that were due at the phase's `now`: rows
that fall due later do not match it. Rows change between the query and their turn.
`asked` counts the charge jobs a tick added.

**Checkout.** A payment has a creating request (`create`), a transaction row, an order at
the gateway, and a subscription of its own. `handler` holds the webhook requests under way,
each with the payment it works on. A fault is a failing query or a crash: nothing is undone.
`owed` are outcomes the gateway has announced or will announce and has not seen answered.

**OneTimeCodes.** `rows` are the codes in `otp_verifications`, `owner` the column that is
set: a subscription's (`requestUnsubscribe`, `confirmUnsubscribe`) or a merchant's
(`forgotPassword`, `verifyResetOtp`), which are the same steps up to the last two: the first
acts and then deletes its code, the second deletes it and then signs a token. `ask` and
`check` are the requests under way. `shared`, `stale` and `crowded` are histories of the
overlaps: which codes two checks have in hand, which codes a request is about to withdraw,
and whose requests overlapped. They make the properties say when each promise ends.

**Notifications.** An event is one job of the `notifications` queue, added without options:
one attempt. `job` is its place in `processNotification`, with the local `delivered`;
`rows` counts the rows it has left in `notification_logs`, by their `delivered` flag, and
`accepted` the alerts that Telegram took, which the worker knows only if it got the answer.
`upset` are the events whose row may be missing: a failing query, a second crash, a merchant
who cleared the log. `start` are the `/start` messages in `handleBotUpdate`, read and not
yet bound, or bound and not yet told. `told` is what a chat last heard; `crossed` are the
merchants whose `telegramChatId` changed while such a message was under way.

**Subscriptions.** The other modules follow one actor into its decision; this one has all
of them at once and only what they write. `work` is what each has in hand: a row the tick
selected (`due`, `ended`), a charge job, a retry past its check, a customer whose code was
accepted, a reactivation before and after it looked at card and plan, the two updates of the
webhook, the evaluator's verdict. Whether a charge is collected, declined or put off is left
open here (`Collected`, `Declined`, `PutOff`, `GivenUp`; `Dunning` says when). `until` is
`trialEnd` or `currentPeriodEnd`, counted in days. `signup` is `createSubscriptionPayment`
with `getOrCreateCustomer` in it, `deletion` is `deletePlan` between its look and its act,
which cascades. `asks`, `late` and `secure` are histories. The refinement maps
the lifecycle's `busy` to the subscriptions somebody has in hand (`Busy`).

**Merchants.** A request is a record of what it has read: the name and counter a signup is
trying, with the accounts that were there when it began (`seen`); the password a login
compares with; the key that was found active and is compared. An account
is named by its email. A username is the one derived from the name, or that with a counter;
a derived one may look like one with a counter (`Bases` holds `acme` and `acme-2`). `firm`
is a history: the password last confirmed, with no change of it begun since.

**Cycles.** Days are numbers and the calendar is computed as `Date` does, with the overflow
of `setMonth`. `ends` is `currentPeriodEnd`; amounts are tenths of a kobo, since
`calculateAdjustment` rounds to kobo in two places. Nothing outside the tests calls
`calculateAdjustment` yet: `ChangesPlan` is the caller its doc comment describes, a new
cycle that begins at once. `surplus` keeps the books over all plan
changes: what was charged, less what was had and is to be had. The module has no actors but
the subscription and its clock; its initial states, steps and specification are `CyclesInit`,
`CyclesNext` and `CyclesSpec`, so that one proof module can extend it beside `BillingCycle`,
whose periods it computes.

## 3. What is checked

| Run | Instance | Shows |
|---|---|---|
| `breaker` | one charge worker, one dunning worker, one checkout call, threshold 3 | counter and state agree, an open breaker only drains, outage and pause end |
| `dunning_faults` | one subscription, one slot, grace 0 or 1, one letter, no answer, hidden debits, database errors, outages, one crash with no outage after it | given up only when spent; no free period |
| `dunning_calm` | one subscription, two slots, grace 0 to 2, changed once at any moment, one letter with overlapping replays, declines, no crash | retries numbered, one at a time, given up only when spent, each leads to a verdict |
| `retry_discarded` | grace 0 to 2, 5xx | **violated**: the retry of a 5xx is discarded |
| `billing` | two subscriptions, page of three, one tick, one failure | one job per tick, none forgotten, failures made good, trials end |
| `billing_full_page` | page of two | **violated**: a row of the last page is charged again |
| `checkout` | two payments of every kind, two webhook requests, two faults | implements `PaymentLedger`; paid is settled; repetitions are ignored; settled is granted |
| `codes` | one subscription, one merchant, two codes, two requests of each kind | a code acts once, only the newest is valid, a mailed one stays valid, up to the overlap that breaks it |
| `notifications` | one event, two chats, two `/start` messages at a time, two crashes | an alert is logged and sent once per delivery of its job, the log claims no more than Telegram took, a chat told that it is connected is, nothing is retried for ever |
| `lifecycle` | one plan, email and subscription, room for two customers, one checkout, one deletion, two workers, three days, two requests to go on | implements `SubscriptionLifecycle`; what was paid is kept; a deletion spares what it saw; foreign keys |
| `merchants` | two emails, names `acme` and `acme-2`, two passwords, one key, two requests | usernames unique and dense, only races collide, the search ends, confirmed passwords hold |
| `cycles` | starts at the ends of months, every interval, two amounts, renewals over two Februaries, two plan changes | a period ends no earlier than it is due, and later only by the delays and by at most three days for each month that passes late; the books fit to a kobo per change |

The violated runs are disagreements between the code and its documents; each finding in
`PROJECT.json` quotes the line of the code and the line it contradicts.

**Bounds and why they are enough.** Subscriptions share nothing but the breaker in
`Dunning`, so one shows what several would; the second slot gives overlapping charge jobs.
`MaxGrace` 1 and 2 make the first retry the last one, and not; the initial grace period is any
up to it. One change of the terms (`MaxChanges`) lengthens or shortens the period in the
middle of a chain of retries; it is left out of `dunning_faults`, which would not fit the time,
and covered there by the proofs, which have any number of changes. For the same reason two
constraints in `MCDunning` cut the instances, and the theorems have neither: no outage follows
the crash in `dunning_faults` (`OutageBeforeCrash`), and in `dunning_calm` the terms do not
change while a customer with a card still has a checkout to pay
(`NoCheckoutWhenTermsChange`). Both only keep the surroundings from acting, never a job from
going on, so the liveness check stays meaningful. One letter at a time
(`MaxDlq`) can be replayed twice at once, which fills both slots. `dunning_calm` leaves out
5xx, lost connections and hidden debits: the first two are classified as a decline may be, and
nothing its properties look at depends on the last. `Retries` has one number more
than the code counts to, so counting too far would show. In `BillingCycle` two
subscriptions are enough for one to be visited before and one after a change, and page
sizes of three and two put them below and at a page. Two payments in `Checkout` show that
requests do not touch each other's rows; two requests at a time give an overlap of the same
event; two faults give a failure and a failure of its repair. The breaker has the code's
threshold and counts two further failures. In `OneTimeCodes` two codes are a former and a
newer one, of one holder or of two, and two requests of each kind give every overlap. In `Notifications` events share nothing
and merchants share nothing, so one of each will do; two chats compete for the merchant, and
the second crash fails a job already redelivered. In `Subscriptions` one row is enough, since rows share
plans and customers only, and two workers make every pair of writers meet; a customer may be
created twice by a checkout and a registration; three days let a period begin, end and be
late; with two requests to go on a subscription is revived twice. In `Merchants` two signups
meet under one name, and under `acme` with a counter and `acme-2`; two requests make any two
handlers overlap. In `Cycles` the starts are the days that behave differently (the last days
of long and short months, around 29 February), renewals run over leap and common years, and
plans change in periods whose length divides `Scale`, so that the books stay in integers.
`asked`, the log's counts and the failure counter
saturate one past the value a property looks at. What depends on the bounds is settled by
the proofs below.

**Fairness and why the code justifies it.** `CircuitBreaker`: the clock advances, the cron
fires, and the process is not killed within every health check for ever (strong fairness of
`CronActs`); nothing is assumed of the gateway or of traffic, so the breaker's and the
queue's recovery do not rest on it. `Dunning`: the dunning worker gets on with some job as
long as it has one, for BullMQ starts them and requests and queries end; nothing of the charge
worker, the cron, customers or merchants. `BillingCycle`:
the cron fires every hour and its queries return, charge jobs are taken. `Checkout`: a
request makes progress, and the gateway repeats an event until it has been answered
(strong fairness: deliveries compete for request slots). `Notifications`: the worker takes
queued jobs, and its queries and requests end. `Merchants`: signups get on; that their
search ends rests on there being finitely many other accounts to overtake them
(`SearchIsBounded` proves the bound).
`Subscriptions` and `Cycles` promise nothing that must happen and assume no fairness.
`TickCovers` and the liveness
properties of `BillingCycle` are checked with one tick at a time: two overlapping ticks can
make each other's rows due, or keep them from being due (see `NobodyPassedOver` below).

**Deadlock** is checked where the system runs for ever (breaker, billing, merchants). A subscription
can be canceled for good and a payment settled for good, so `Dunning` and `Checkout`
may stop, and the codes of `OneTimeCodes`, the days and ids of `Subscriptions` and the renewals of
`Cycles` run out. In `Notifications` a merchant can always disconnect.

**Assumed of the outside.** The gateway debits once per idempotency key, gives one verdict
per order, announces it under the reference it returned for the order, and sends a token
with an order that asked for one. A billing period is longer than the life of a handler and
of a redelivery: `FallsDue` waits for them. Without this, a job left over from one period
could collect in the next. No two draws give the same code of six digits.

## 4. What is proved

TLAPS checks these for every value of the constants that meets the named assumptions.

- `CircuitBreakerProofs`: `TypeCorrect`, `BreakerConsistent`, `GatewayFaultsTrip`,
  `OpenOnlyDrains`. `FaultsTrip` is not inductive: a fault reported while CLOSED must be in
  the counter too, so the invariant adds `FaultsCounted` (`faults <= failureCount`), and
  every reporting step raises both. `RecoveryIsFinal`: while the gateway answers, a breaker
  that lets calls through and a running queue stay so; `Recovered` includes that the cron has
  not seen OPEN, for it would act on that later.
- `DunningProofs`: `RetriesNumbered` is inductive with the types (`TypeCorrect`): a job adds
  the number after its own. `GivenUpSpent` needs `TurnsTaken` beside it: a retry over, or
  followed by another, has had its turn; the worker compares with the period it read, so that
  what the merchant makes of it meanwhile does not matter.
  `WorkIsChargeable` is inductive with the types: work for a subscription comes from work
  it already has or from the cron, which looks at the card, and no step takes a card away.
  `PeriodsAreEarned` needs `MoneyTaken`: a job at the place after an accepted request has a
  collection of the current period behind it, or its key was used before, which can only be
  in the same period. `OneRetryInCalm` is `OneRetryAtATime` without crashes and outages, as
  the run has it; both conditions are needed: a crash between the hand-over to the next retry
  and the completion of the last one puts both to work, and so does a charge deferred by the
  breaker beside one that failed. `RetriesAreNotDropped` orders the places of a retry
  (`Reached`) and shows that none is sent back, dropped or skipped; a database error, which
  fails the one attempt of a job, is a counterexample, so `Faults` excludes it.
  `CanceledLeftInPeace` holds for all faults: with no work in hand (`InHand`), what is left in
  the queues cannot write a canceled row.
- `BillingCycleProofs`, about the tick: `TypeCorrect` for overlapping and failing ticks;
  `OneJobPerTick`: while the subscriptions are fewer than a page (`FewSubs`), no tick adds two
  jobs for one of them. The invariant says that no page is followed by another (`PagesShort`)
  and that nothing was asked for a row still to come, for a trial, or before a query
  (`AskedInOrder`). `billing_full_page` is the counterexample without `FewSubs`.
  `NobodyPassedOver` is `TickCovers`: at each step of the charges every row due to the tick is
  asked for or still on its page (`InHand`), for nothing makes a row due behind a tick's back
  but the promotion of a trial. By another tick that can happen, so ticks must not overlap
  (`OneTick`): one tick holds an expired trial on its page; the customer pays and the period
  passes; a second tick begins, the customer cancels before its query, and then the first
  tick makes the row active, due, and unknown to the second. `TrialsAllTaken` is the same of
  the trials and needs no `OneTick`: nothing makes a subscription an expired trial to a phase
  that did not see it (`NoNewTrials`).
- `BillingCycleProofs`, about periods: `PeriodLength`, `DueDatesHold`, `BooksBalance`. They
  rest on lemmas about the calendar for any first year: a month has 28 to 31 days and a year
  365 or 366 (`MonthParts`, `YearLength`), every day is in one month (`DayHasMonth`,
  `MonthOfDay`), and months that follow each other span their days (`MonthsSpan`).
  `AnchorHolds` is not inductive: what the overflow of a short month adds to the day it takes
  from the month begun, so the invariant (`OnTrack`, by way of `KeepsUp`) counts months and
  days together, and `OneMorePeriod` shows that adding an interval and a delay keeps it.
  `ChargesFit` follows step by step from how far `Round` can be off (`RoundIsNear`,
  `OneChange`).
- `CheckoutProofs`: `TypeCorrect`; `ImplementsLedger`, the refinement of `PaymentLedger`;
  `GrantedWhenSettled`; `RepetitionsIgnored`. The invariant relates the creating request to
  its row (`CreationInOrder`), the books to the gateway (`BooksAgree`), and says what a
  webhook request at each of its places may rely on (`HandlerContext`). What the refinement is
  good for: `SettledOnce` (nothing settled is reopened) and, with `CardsArePaid`,
  `BooksAreTrue` (the books never say what the gateway did not). `NothingIsForgotten`: what
  the gateway decided and the books lack is still owed, has a reference and a pending row, so
  the repetition the gateway sends finds something to work on.

- `OneTimeCodesProofs`: `TypeCorrect`, `CodesSpentOnce`, `NewestOnly`, `MailedStaysValid`,
  from one invariant: a code not yet drawn is nowhere (`FreshUnused`), an unshared code is in
  one hand and what it has brought follows from where that hand stands (`HandsApart`), an
  undisturbed request finds no code between its deletion and its insertion (`AsksApart`),
  and nothing but a request that has begun or a check that has accepted takes a code away
  (`Kept`).
- `NotificationsProofs`: `TypeCorrect`; `EventsLoggedOnce`, `LogIsTrue`, `AlertsGoOnce` from
  `EventInv`: how many rows and alerts an event has follows from its job's place and from
  whether it was redelivered, with one alert in reserve for a row about to say "delivered";
  `ToldChatIsBound` from `BindInv`: whoever is about to tell an uncrossed merchant's chat
  speaks to the chat that is bound. `EventsGetOn`: a job only moves forward (`Stage`), but for
  one redelivery.

- `SubscriptionsProofs`: `TypeCorrect`, with the foreign keys; `DeletionsSpare`,
  `PaidPeriodsAreKept` and `ImplementsLifecycle`, for any number of
  everything. The proofs do not go through the twenty-odd writers again and again: each is
  first shown to be an update of one row by somebody who has it in hand (`Written`), a taking
  up for one of a few reasons (`Taken`), or of no concern to the row (`Quiet`), and the
  invariants are shown of these. `SecureInv` is the heart of `PaidPeriodsAreKept`: during a
  period granted with nothing else under way only a customer who leaves gets hold of it.
  `CanceledStays` is a promise of the lifecycle, proved of the abstract steps and carried over
  by the refinement: what is canceled with nobody at it stays so until somebody asks.
- `MerchantsProofs`: `TypeCorrect` (usernames unique), `UsernamesAreDense`, `RacesOnly`,
  `ConfirmedPasswordsHold`. The invariant says what each kind of request
  may rely on when it goes on: all candidates before the one a signup is trying are taken
  (`SignupInv`), no password is firm while it is changed (`ChangeInv`), what is firm is what
  the row holds (`FirmInv`). `Bystander`
  shows once that nobody else's step disturbs it. `SearchIsBounded` counts: the candidates
  already tried are different usernames (`CandidatesDiffer`) of different accounts, so their
  number is bounded by that of the accounts.

Proved of every instance and not run: the types of `CircuitBreaker`, `Dunning`,
`BillingCycle`, `Checkout`, `OneTimeCodes` and `Notifications`, `FaultsTrip` (gateway faults reported while CLOSED trip the
breaker) and `WorkHasCard`. Every invariant and action property that a passing run checks is
stated by a theorem.

Only model-checked are the liveness properties, since fairness and `ENABLED` are out of the
prover's reach: `OpenEnds`, `PausedQueueResumes`, `DunningResolves`, `DueIsBilled`,
`TrialsResolve`, `PaidIsSettled`, `EventsSettle`, `SignupsEnd`. For most of them the part that
is not about fairness is proved, which is where the code could go wrong; what is left to TLC is
that enabled steps are taken:

| Liveness, checked | Its safety part, proved |
|---|---|
| `PausedQueueResumes` | `RecoveryIsFinal` |
| `DunningResolves` | `RetriesAreNotDropped` |
| `DueIsBilled` | `NobodyPassedOver` |
| `TrialsResolve` | `TrialsAllTaken` |
| `PaidIsSettled` | `NothingIsForgotten` |
| `EventsSettle` | `EventsGetOn` |
| `SignupsEnd` | `SearchIsBounded` |

## 5. Not modelled

- Amounts outside `Cycles`, message texts, logging, audit rows and the adding of
  notifications inside the billing handlers: nothing of the state above depends on them; that
  they can fail is in the faults.
- Audit trail, dashboards and other listings only read. (`getDashboardStats` compares
  `customerId` with a scalar subquery, which counts the subscriptions of one customer of the
  merchant; there is no state in it for a model to follow.) `getTransactions`, `listPlans`
  and `listApiKeys` likewise.
- Mail: templates and one request; `sendEmail` never throws, and mail is sent or not.
- JWTs: signing and refreshing keep no state; a reset token is good until it expires, so
  `ChangeBegins` of `Merchants` needs nothing but an account. The Telegram deep link is a
  string.
- Controllers beyond the call they make, request and signature validation, environment,
  wiring and start-up.
- `updateCustomerToken`, `ProrationService` and `evaluateSubscriptionGracePeriod` have no
  callers outside tests. The first is left out (the webhook's update of the same column is
  `StoreToken`), the other two are modelled as their comments describe their use.
- `reactivateSubscription` grants 30, 7 or 365 days, unlike `computeNextPeriodEnd`; in
  `Subscriptions` both are `Period` days.
- The bot token is taken to be configured (`sendMessage` returns as if delivered without
  one), and the read flags of the notification log are left out.

## 6. Where the code and its documents part

Two disagreements are runs: `retry_discarded` (the part about 5xx of REQUIREMENTS.md:73) and
`billing_full_page`. The others follow from a step or two of the code, and the models contain
them as the code has them. UP numbers are those of `docs/unhappy-paths.md`. Where a property
stops short of one, its comment or this list says so: passing does not mean that the document
is kept.

| The document | The code, and where the models have it |
|---|---|
| UP-06.6, REQUIREMENTS.md:265: the last retry meets an open breaker: do not cancel, hold in `past_due`, one final charge when it closes | a retry refused by the client counts as failed, and after the last one `processDunning` cancels (dunning-worker.service.ts:309-321): `DunningRefused`, `DunningExhausts`. `GivenUpOnlyWhenSpent` counts the refused retry as spent. One that meets the breaker at its own check fails for good and is made no more (`DunningHeld`), though the comment above expects BullMQ to retry it |
| REQUIREMENTS.md:73: network timeouts are retryable | the client's text for them, "Outbound connection to payment gateway failed", matches none of the patterns of `isRetryableError` (dunning-worker.service.ts:468): `Retryable("network")` |
| UP-02.1: a decline without a grace period cancels | it leaves `past_due` and a dead letter: `ChargeHandsOver`, `ChargeMarks` |
| UP-06.3, REQUIREMENTS.md:257: a tick whose query fails pushes no partial batch | the jobs of the rows before the failure have been added: `TickFails`. `DueIsBilled` says that the next tick adds the rest |
| REQUIREMENTS.md:75, 188, 211, 231, UP-02.4, UP-04.4: without a checkout link no transaction and no subscription are stored | both are inserted before the order is made; the transaction is then marked failed and the subscription stays, active or trialing (checkout.service.ts:240, 363): `OrderFails`, `CreateFails` in `Checkout` |
| UP-05.4: 409 for a second active subscription of a customer to a plan | nothing looks for one: a signup in `Subscriptions` inserts always |
| UP-04.3, REQUIREMENTS.md:97: 409 for a customer's second registration | `registerCustomer` inserts without looking (billing.service.ts:100), and two checkouts can both find no customer and insert (checkout.service.ts:62): `Register`, `SelectMisses`, `InsertCustomer` |
| UP-04.2, REQUIREMENTS.md:96: a plan with live subscriptions is not deleted | one created or reactivated between the look and the deletion goes with it (billing.service.ts:94); `DeletionSparesSeen` excepts those (`late`) |
| UP-01.3, REQUIREMENTS.md:49: requests in flight with a revoked key are rejected | a key revoked while `validateApiKey` compares its secret is let in (auth.service.ts:73-96): `KeyFound`, `RevokeApiKey`, `KeyAccepted` |
| REQUIREMENTS.md:310: an undelivered notification is sent again on the next queue tick | a job has one attempt; only a crash makes BullMQ deliver it again (`Notifications`, in keeping with UP-09.2) |

Without a document to hold against it: the retry of a later episode has an id the queue
remembers and is ignored (`Added`); the verification of a card at the start of a trial counts
as the payment of a period; declines trip the breaker (`WorkerReportsFailure`); a trial whose
tick fails after its promotion has no period end and is never billed.

What the properties of money do not cover. `NoFreePeriod` says that there is a debit for every
period, not that there is only one: a second charge job, or a retry after a hidden debit, uses
another key and debits again. An order to change a card stores no transaction
(checkout.service.ts:599), so its event finds none and is reported as an orphan; `PaidIsSettled`
is about orders that have one. `SettledIsGranted` is about executions without a fault.
`SpentOnce`, `MailedCodeWorks`, `OnlyRacesCollide`, `ConfirmedHolds` and `ToldIsBound` end at
the overlaps their histories record: they say what serialized use can rely on, and that the
next request heals what an overlap left.

## 7. Plan

Done: 1 `CircuitBreaker`, 2 `Dunning`, 3 `BillingCycle`, 4 `PaymentLedger` and `Checkout`,
5 `OneTimeCodes`, 6 `Notifications`, 7 `SubscriptionLifecycle` and `Subscriptions`,
8 `Merchants`, 9 `Cycles`. The order was: first what moves money without anybody watching.

Left:

1. Composition: `Dunning` with `CircuitBreaker` in place of its free `open`.
2. Two rows in `lifecycle`, once a smaller abstraction of `signup` makes room for them.
