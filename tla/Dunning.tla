------------------------------ MODULE Dunning ------------------------------
(***************************************************************************)
(* Collecting a recurring payment: the charge and dunning workers          *)
(* (scheduler/dunning-worker.service.ts), the two BullMQ queues they       *)
(* consume, the subscription row they all write, the dead letter table and *)
(* its replay (scheduler/dlq.service.ts), with the billing cron, the       *)
(* gateway's webhook, customers and merchants acting at any moment.        *)
(*                                                                         *)
(* A handler is split where it awaits: every other actor may run between   *)
(* two of its steps, and the process may die there.  No handler re-reads   *)
(* what it has read before an await, and every UPDATE of the code is       *)
(* unconditional (WHERE id = ...).                                         *)
(***************************************************************************)
EXTENDS Integers

CONSTANTS
    Subs,           \* subscriptions
    Slots,          \* bound: charge jobs of one subscription alive at a time
    MaxGrace,       \* bound: plans.gracePeriodDays
    Faults,         \* what may go wrong, see FaultKinds
    MaxCrashes,     \* bound: crashes of the process
    MaxDlq,         \* bound: dead letters of one subscription at a time
    MaxChanges      \* bound: changes of the terms of plans

FaultKinds ==
    {"declined",    \* the gateway answers 4xx
     "server",      \* the gateway answers 5xx
     "network",     \* no answer: timeout, dropped connection
     "ambiguous",   \* a 5xx or a missing answer may hide a collected payment
     "database",    \* a query fails
     "outage"}      \* the circuit breaker opens

ASSUME ConstantsAssumption ==
    /\ MaxGrace \in Nat
    /\ Faults \subseteq FaultKinds
    /\ MaxCrashes \in Nat
    /\ MaxDlq \in Nat
    /\ MaxChanges \in Nat

VARIABLES
    status,         \* subscriptions.status; "gone" once its plan is deleted
    period,         \* currentPeriodEnd: null, in the future, or passed
    card,           \* customers.nombaToken is set
    checkout,       \* the hosted checkout of the subscription is unpaid
    grace,          \* gracePeriodDays of its plan, also its maxRetries; 0 once
                    \*   the plan is deleted
    picked,         \* the billing cron holds the row, not yet processed
    charge,         \* the charge jobs
    err,            \* what a failing charge job caught
    dunning,        \* the dunning jobs, by job id
    limit,          \* gracePeriodDays as a dunning job at work has read it, or 0
    stalled,        \* charge and dunning jobs BullMQ has redelivered once
    dlq,            \* rows of dlq_jobs
    replay,         \* those some replay has read, with its job enqueued, and has
                    \*   yet to delete
    open,           \* the circuit breaker refuses calls
    crashes,        \* crashes so far
    paid,           \* history: those whose card was debited since their period
                    \*   last fell due
    collected,      \* the gateway's record: dunning keys it has debited under
    spent,          \* history: retries that have had their turn: sent and failed,
                    \*   or refused by the open breaker and not sent
    changes         \* changes of the plan's terms so far

queues == <<charge, err, dunning, limit, stalled>>
books == <<paid, collected, spent>>
vars == <<status, period, card, checkout, grace, picked, charge, err, dunning,
          limit, stalled, dlq, replay, open, crashes, paid, collected, spent,
          changes>>

(***************************************************************************)
(* Job ids.  A charge job's id ends in Date.now() and is always fresh: a   *)
(* pair <<s, k>> stands for one of the charge jobs of s.  A dunning job's  *)
(* id is 'dunning-<s>-retry-<n>': the pair <<s, n>> is its id.  A dead      *)
(* letter's is a fresh uuid: <<s, i>> stands for one of the letters of s.  *)
(***************************************************************************)
ChargeJobs == Subs \X Slots

Retries == 0..(MaxGrace + 1)    \* one more than any retry the code counts to

DunningJobs == Subs \X Retries

Letters == Subs \X (1..MaxDlq)

LettersOf(s) == {l \in Letters : l[1] = s}

ChargeState ==
    {"free",        \* no job
     "waiting",     \* in ChargeQueue
     "ready",       \* context read
     "sent",        \* charge request in flight
     "paid",        \* the gateway said yes
     "failed",      \* in the catch block
     "mark",        \* handed to dunning or DLQ, status not yet written
     "done"}        \* handler returned, completion not yet in Redis

DunningState ==
    {"none",        \* no job has ever had this id
     "delayed",     \* in DunningQueue
     "checked",     \* found past_due and the breaker closed, reading the rest
     "sent", "paid",
     "retry",       \* in the catch block
     "exhausted",   \* about to cancel the subscription
     "canceled",    \* canceled it, dead letter not yet written
     "done",
     "ended"}       \* completed or failed (attempts = 1), kept by BullMQ with
                    \*   its id: neither removeOnComplete nor removeOnFail

Errors == {"none", "declined", "server", "network", "database"}

TypeOK ==
    /\ status \in [Subs -> {"active", "past_due", "canceled", "gone"}]
    /\ period \in [Subs -> {"null", "running", "due"}]
    /\ card \in [Subs -> BOOLEAN]
    /\ checkout \in [Subs -> BOOLEAN]
    /\ grace \in [Subs -> 0..MaxGrace]
    /\ picked \in [Subs -> BOOLEAN]
    /\ charge \in [ChargeJobs -> ChargeState]
    /\ err \in [ChargeJobs -> Errors]
    /\ dunning \in [DunningJobs -> DunningState]
    /\ limit \in [DunningJobs -> 0..MaxGrace]
    /\ stalled \in [charge : SUBSET ChargeJobs, dunning : SUBSET DunningJobs]
    /\ dlq \subseteq Letters
    /\ replay \subseteq dlq
    /\ open \in BOOLEAN
    /\ crashes \in 0..MaxCrashes
    /\ paid \subseteq Subs
    /\ collected \subseteq DunningJobs
    /\ spent \subseteq DunningJobs
    /\ changes \in 0..MaxChanges

\* createSubscriptionPayment has just inserted the row: active, no period,
\* checkout open; the customer may have a card from another subscription.
Init ==
    /\ status = [s \in Subs |-> "active"]
    /\ period = [s \in Subs |-> "null"]
    /\ card \in [Subs -> BOOLEAN]
    /\ checkout = [s \in Subs |-> TRUE]
    /\ grace \in [Subs -> 0..MaxGrace]
    /\ picked = [s \in Subs |-> FALSE]
    /\ charge = [j \in ChargeJobs |-> "free"]
    /\ err = [j \in ChargeJobs |-> "none"]
    /\ dunning = [j \in DunningJobs |-> "none"]
    /\ limit = [j \in DunningJobs |-> 0]
    /\ stalled = [charge |-> {}, dunning |-> {}]
    /\ dlq = {}
    /\ replay = {}
    /\ open = FALSE
    /\ crashes = 0
    /\ paid = {}
    /\ collected = {}
    /\ spent = {}
    /\ changes = 0

----------------------------------------------------------------------------
(* Shared pieces.                                                          *)

\* The plan exists, and with it the row: the key cascades.
Exists(s) == status[s] # "gone"

\* An UPDATE of a row that is gone changes nothing.
SetStatus(s, value) ==
    status' = IF Exists(s) THEN [status EXCEPT ![s] = value] ELSE status

\* The row after a successful payment: active, with a period end ahead.
Advance(s) ==
    /\ SetStatus(s, "active")
    /\ period' = IF Exists(s) THEN [period EXCEPT ![s] = "running"] ELSE period

\* A charge job moves on; what it caught is of no further use.
ChargeGoto(j, place) ==
    /\ charge' = [charge EXCEPT ![j] = place]
    /\ err' = [err EXCEPT ![j] = "none"]

\* Defect for OneRetryAtATime: finished jobs give their id back.
Added_IdsReusable(jobs, id) ==
    [jobs EXCEPT ![id] = IF @ \in {"none", "ended"} THEN "delayed" ELSE @]

\* Queue.add with a jobId: BullMQ ignores the call if a job with this id
\* exists in any state, completed and failed jobs included.
Added(jobs, id) ==
    [jobs EXCEPT ![id] = IF @ = "none" THEN "delayed" ELSE @]

\* enqueueDunning(payload, n), called by a charge job of s.
EnqueueDunning(s, n) == dunning' = Added(dunning, <<s, n>>)

\* sendToDlq: a new row, which refers to that of s.
SendToDlq(s) ==
    /\ Exists(s)
    /\ \E l \in LettersOf(s) \ dlq : dlq' = dlq \cup {l}

\* The card of s is debited (external: the gateway).
Debit(s) == paid' = paid \cup {s}

\* The gateway debits at most once per idempotency key (external).
DebitOnce(j) ==
    /\ collected' = collected \cup {j}
    /\ IF j \in collected THEN UNCHANGED paid ELSE Debit(j[1])

\* A request that fails with e may nevertheless have debited the card.
MayHideDebit(e) == e \in {"server", "network"} /\ "ambiguous" \in Faults

\* isRetryableError(err) looks for a '5', 'timeout', 'network' or
\* 'econnreset' in the message.  The client's own texts decide two cases: a
\* 5xx carries its code, a lost connection reads 'Outbound connection to
\* payment gateway failed'.  A 4xx has the gateway's text, a database error
\* the driver's: either verdict.
Retryable(e) ==
    CASE e = "server"  -> {TRUE}
      [] e = "network" -> {FALSE}
      [] OTHER         -> BOOLEAN

----------------------------------------------------------------------------
(* processCharge.                                                          *)

\* The job is taken and resolveContext reads the customer's token, which is
\* there (WorkHasCard): the branch for a missing one is never taken.
ChargeReads(j) ==
    /\ charge[j] = "waiting"
    /\ ChargeGoto(j, "ready")
    /\ UNCHANGED <<status, period, card, checkout, grace, picked, dunning,
                   limit, stalled, dlq, replay, open, crashes, books,
                   changes>>

\* Breaker open: to the dunning queue, with the retry count it has (0).
ChargeDeferred(j) ==
    /\ charge[j] = "ready"
    /\ open
    /\ EnqueueDunning(j[1], 0)
    /\ ChargeGoto(j, "done")
    /\ UNCHANGED <<status, period, card, checkout, grace, picked, limit,
                   stalled, dlq, replay, open, crashes, books, changes>>

\* chargeTokenizedCard, under a key of its own.
ChargeSends(j) ==
    /\ charge[j] = "ready"
    /\ ~open
    /\ ChargeGoto(j, "sent")
    /\ UNCHANGED <<status, period, card, checkout, grace, picked, dunning,
                   limit, stalled, dlq, replay, open, crashes, books,
                   changes>>

ChargeAccepted(j) ==
    /\ charge[j] = "sent"
    /\ Debit(j[1])
    /\ ChargeGoto(j, "paid")
    /\ UNCHANGED <<status, period, card, checkout, grace, picked, dunning,
                   limit, stalled, dlq, replay, open, crashes, collected,
                   spent, changes>>

\* An error response or none at all.
ChargeFails(j) ==
    /\ charge[j] = "sent"
    /\ \E e \in {"declined", "server", "network"} \cap Faults :
        /\ charge' = [charge EXCEPT ![j] = "failed"]
        /\ err' = [err EXCEPT ![j] = e]
        /\ \/ UNCHANGED paid
           \/ MayHideDebit(e) /\ Debit(j[1])
    /\ UNCHANGED <<status, period, card, checkout, grace, picked, dunning,
                   limit, stalled, dlq, replay, open, crashes, collected,
                   spent, changes>>

\* The plan is read and the row advanced.
ChargeAdvances(j) ==
    /\ charge[j] = "paid"
    /\ Advance(j[1])
    /\ ChargeGoto(j, "done")
    /\ UNCHANGED <<card, checkout, grace, picked, dunning, limit, stalled,
                   dlq, replay, open, crashes, books, changes>>

\* ... or that query fails, inside the same try as the request.
ChargeAdvanceFails(j) ==
    /\ charge[j] = "paid"
    /\ "database" \in Faults
    /\ charge' = [charge EXCEPT ![j] = "failed"]
    /\ err' = [err EXCEPT ![j] = "database"]
    /\ UNCHANGED <<status, period, card, checkout, grace, picked, dunning,
                   limit, stalled, dlq, replay, open, crashes, books,
                   changes>>

\* The catch, retryable: to the dunning queue with retryCount + 1.  The
\* subscription's status is left alone.
ChargeRetries(j) ==
    /\ charge[j] = "failed"
    /\ TRUE \in Retryable(err[j])
    /\ EnqueueDunning(j[1], 1)
    /\ ChargeGoto(j, "done")
    /\ UNCHANGED <<status, period, card, checkout, grace, picked, limit,
                   stalled, dlq, replay, open, crashes, books, changes>>

\* handleNonRetryableFailure: to the dunning queue if the plan has a grace
\* period by now, else to the dead letters ...
ChargeHandsOver(j) ==
    /\ charge[j] = "failed"
    /\ FALSE \in Retryable(err[j])
    /\ Exists(j[1])
    /\ IF grace[j[1]] > 0
       THEN EnqueueDunning(j[1], 1) /\ UNCHANGED dlq
       ELSE SendToDlq(j[1]) /\ UNCHANGED dunning
    /\ ChargeGoto(j, "mark")
    /\ UNCHANGED <<status, period, card, checkout, grace, picked, limit,
                   stalled, replay, open, crashes, books, changes>>

\* ... and only then past_due.
ChargeMarks(j) ==
    /\ charge[j] = "mark"
    /\ SetStatus(j[1], "past_due")
    /\ ChargeGoto(j, "done")
    /\ UNCHANGED <<period, card, checkout, grace, picked, dunning, limit,
                   stalled, dlq, replay, open, crashes, books, changes>>

\* A query fails outside the try, or the plan is gone and the dead letter
\* refers to no row: the handler throws and BullMQ, with one attempt, keeps
\* the job as failed.  It never runs again.
ChargeThrows(j) ==
    /\ \/ charge[j] \in {"waiting", "mark"} /\ "database" \in Faults
       \/ /\ charge[j] = "failed"
          /\ FALSE \in Retryable(err[j])
          /\ "database" \in Faults \/ ~Exists(j[1])
    /\ charge' = [charge EXCEPT ![j] = "free"]
    /\ err' = [err EXCEPT ![j] = "none"]
    /\ stalled' = [stalled EXCEPT !.charge = @ \ {j}]
    /\ UNCHANGED <<status, period, card, checkout, grace, picked, dunning,
                   limit, dlq, replay, open, crashes, books, changes>>

\* BullMQ completes the job and removes it (removeOnComplete).
ChargeCompletes(j) ==
    /\ charge[j] = "done"
    /\ charge' = [charge EXCEPT ![j] = "free"]
    /\ err' = [err EXCEPT ![j] = "none"]
    /\ stalled' = [stalled EXCEPT !.charge = @ \ {j}]
    /\ UNCHANGED <<status, period, card, checkout, grace, picked, dunning,
                   limit, dlq, replay, open, crashes, books, changes>>

----------------------------------------------------------------------------
(* processDunning.                                                         *)

\* The dunning job j moves on and nothing else of the queues changes.
DunningGoto(j, place) == dunning' = [dunning EXCEPT ![j] = place]

\* A job that has ended is not run again, however often it was redelivered.
ForgetsStall(j) == stalled' = [stalled EXCEPT !.dunning = @ \ {j}]

\* The status read first is not past_due: a stale job, discarded.
DunningDiscards(j) ==
    /\ dunning[j] = "delayed"
    /\ status[j[1]] # "past_due"
    /\ DunningGoto(j, "done")
    /\ UNCHANGED <<status, period, card, checkout, grace, picked, charge, err,
                   limit, stalled, dlq, replay, open, crashes, books,
                   changes>>

\* The breaker is open: the handler throws, and with one attempt that is the
\* end of the job.
DunningHeld(j) ==
    /\ dunning[j] = "delayed"
    /\ status[j[1]] = "past_due"
    /\ open
    /\ DunningGoto(j, "ended")
    /\ ForgetsStall(j)
    /\ UNCHANGED <<status, period, card, checkout, grace, picked, charge, err,
                   limit, dlq, replay, open, crashes, books,
                   changes>>

DunningChecks(j) ==
    /\ dunning[j] = "delayed"
    /\ status[j[1]] = "past_due"
    /\ ~open
    /\ DunningGoto(j, "checked")
    /\ UNCHANGED <<status, period, card, checkout, grace, picked, charge, err,
                   limit, stalled, dlq, replay, open, crashes, books,
                   changes>>

\* The handler reads gracePeriodDays; whatever the merchant makes of it later,
\* this retry is measured by what was read.
ReadsTerms(j) == limit' = [limit EXCEPT ![j] = grace[j[1]]]

\* The handler is done with what it read.
DropsTerms(j) == limit' = [limit EXCEPT ![j] = 0]

\* Plan and customer are read: the plan is gone, or it has a gracePeriodDays
\* below this retry, and the subscription is given up.  (The token is there.)
DunningGivesUp(j) ==
    /\ dunning[j] = "checked"
    /\ ~Exists(j[1]) \/ j[2] > grace[j[1]]
    /\ ReadsTerms(j)
    /\ DunningGoto(j, "exhausted")
    /\ UNCHANGED <<status, period, card, checkout, grace, picked, charge, err,
                   stalled, dlq, replay, open, crashes, books, changes>>

\* Defect for NoFreePeriod: a redelivered job is taken for a paid one.
DunningSends_TrustsRedelivery(j) ==
    /\ dunning[j] = "checked"
    /\ Exists(j[1])
    /\ j[2] <= grace[j[1]]
    /\ ReadsTerms(j)
    /\ DunningGoto(j, IF j \in stalled.dunning THEN "paid" ELSE "sent")
    /\ UNCHANGED <<status, period, card, checkout, grace, picked, charge, err,
                   stalled, dlq, replay, open, crashes, books, changes>>

\* Otherwise chargeTokenizedCard ...
DunningSends(j) ==
    /\ dunning[j] = "checked"
    /\ Exists(j[1])
    /\ j[2] <= grace[j[1]]
    /\ ~open
    /\ ReadsTerms(j)
    /\ DunningGoto(j, "sent")
    /\ UNCHANGED <<status, period, card, checkout, grace, picked, charge, err,
                   stalled, dlq, replay, open, crashes, books, changes>>

\* ... which sends nothing if the breaker has opened since the check: the
\* client throws (503), and that lands in the catch block like a failure.
DunningRefused(j) ==
    /\ dunning[j] = "checked"
    /\ Exists(j[1])
    /\ j[2] <= grace[j[1]]
    /\ open
    /\ ReadsTerms(j)
    /\ spent' = spent \cup {j}
    /\ DunningGoto(j, "retry")
    /\ UNCHANGED <<status, period, card, checkout, grace, picked, charge, err,
                   stalled, dlq, replay, open, crashes, paid, collected,
                   changes>>

DunningAccepted(j) ==
    /\ dunning[j] = "sent"
    /\ DebitOnce(j)
    /\ DunningGoto(j, "paid")
    /\ UNCHANGED <<status, period, card, checkout, grace, picked, charge, err,
                   limit, stalled, dlq, replay, open, crashes, spent,
                   changes>>

DunningFails(j) ==
    /\ dunning[j] = "sent"
    /\ \E e \in {"declined", "server", "network"} \cap Faults :
        \/ UNCHANGED <<collected, paid>>
        \/ MayHideDebit(e) /\ DebitOnce(j)
    /\ spent' = spent \cup {j}
    /\ DunningGoto(j, "retry")
    /\ UNCHANGED <<status, period, card, checkout, grace, picked, charge, err,
                   limit, stalled, dlq, replay, open, crashes, changes>>

\* The row is advanced ...
DunningAdvances(j) ==
    /\ dunning[j] = "paid"
    /\ Advance(j[1])
    /\ DunningGoto(j, "done")
    /\ DropsTerms(j)
    /\ UNCHANGED <<card, checkout, grace, picked, charge, err, stalled, dlq,
                   replay, open, crashes, books, changes>>

\* ... or that query fails, and the payment counts as a failed retry.
DunningAdvanceFails(j) ==
    /\ dunning[j] = "paid"
    /\ "database" \in Faults
    /\ spent' = spent \cup {j}
    /\ DunningGoto(j, "retry")
    /\ UNCHANGED <<status, period, card, checkout, grace, picked, charge, err,
                   limit, stalled, dlq, replay, open, crashes, paid,
                   collected, changes>>

\* Defect for RetriesCountUp: the retry is counted here and in the enqueue.
DunningRetries_CountsTwice(j) ==
    /\ dunning[j] = "retry"
    /\ j[2] + 1 <= limit[j]
    /\ dunning' = [Added(dunning, <<j[1], j[2] + 2>>) EXCEPT ![j] = "done"]
    /\ DropsTerms(j)
    /\ UNCHANGED <<status, period, card, checkout, grace, picked, charge, err,
                   stalled, dlq, replay, open, crashes, books, changes>>

\* The catch: the next retry, under its own job id, within the grace period ...
DunningRetries(j) ==
    /\ dunning[j] = "retry"
    /\ j[2] + 1 <= limit[j]
    /\ dunning' = [Added(dunning, <<j[1], j[2] + 1>>) EXCEPT ![j] = "done"]
    /\ DropsTerms(j)
    /\ UNCHANGED <<status, period, card, checkout, grace, picked, charge, err,
                   stalled, dlq, replay, open, crashes, books, changes>>

\* Defect for GivenUpOnlyWhenSpent: gives up one retry early.
DunningExhausts_OneEarly(j) ==
    /\ dunning[j] = "retry"
    /\ j[2] + 1 >= limit[j]
    /\ DunningGoto(j, "exhausted")
    /\ UNCHANGED <<status, period, card, checkout, grace, picked, charge, err,
                   limit, stalled, dlq, replay, open, crashes, books,
                   changes>>

\* Defect for DunningResolves: the last failure is logged and no more.
DunningExhausts_Forgets(j) ==
    /\ dunning[j] = "retry"
    /\ j[2] + 1 > limit[j]
    /\ DunningGoto(j, "done")
    /\ DropsTerms(j)
    /\ UNCHANGED <<status, period, card, checkout, grace, picked, charge, err,
                   stalled, dlq, replay, open, crashes, books, changes>>

\* ... or handleGracePeriodExhausted.
DunningExhausts(j) ==
    /\ dunning[j] = "retry"
    /\ j[2] + 1 > limit[j]
    /\ DunningGoto(j, "exhausted")
    /\ UNCHANGED <<status, period, card, checkout, grace, picked, charge, err,
                   limit, stalled, dlq, replay, open, crashes, books,
                   changes>>

\* It cancels the subscription, whatever its status is by now ...
DunningCancels(j) ==
    /\ dunning[j] = "exhausted"
    /\ SetStatus(j[1], "canceled")
    /\ DunningGoto(j, "canceled")
    /\ DropsTerms(j)
    /\ UNCHANGED <<period, card, checkout, grace, picked, charge, err,
                   stalled, dlq, replay, open, crashes, books, changes>>

\* ... and, after a notification and an audit row, writes the dead letter.
DunningRecords(j) ==
    /\ dunning[j] = "canceled"
    /\ SendToDlq(j[1])
    /\ DunningGoto(j, "done")
    /\ UNCHANGED <<status, period, card, checkout, grace, picked, charge, err,
                   limit, stalled, replay, open, crashes, books, changes>>

\* A query fails outside the try, or the dead letter refers to no row: the
\* job is kept as failed for good.
DunningThrows(j) ==
    /\ \/ /\ dunning[j] \in {"delayed", "checked", "exhausted", "canceled"}
          /\ "database" \in Faults
       \/ dunning[j] = "canceled" /\ ~Exists(j[1])
    /\ DunningGoto(j, "ended")
    /\ ForgetsStall(j)
    /\ DropsTerms(j)
    /\ UNCHANGED <<status, period, card, checkout, grace, picked, charge, err,
                   dlq, replay, open, crashes, books, changes>>

\* BullMQ completes the job and keeps it, with its id.
DunningCompletes(j) ==
    /\ dunning[j] = "done"
    /\ DunningGoto(j, "ended")
    /\ ForgetsStall(j)
    /\ UNCHANGED <<status, period, card, checkout, grace, picked, charge, err,
                   limit, dlq, replay, open, crashes, books,
                   changes>>

----------------------------------------------------------------------------
(* The billing cron, dead letter replay, customers, merchants, webhooks.   *)

\* A charge job is added to ChargeQueue under a fresh id.
EnqueueCharge(s) ==
    \E k \in Slots :
        /\ charge[<<s, k>>] = "free"
        /\ ChargeGoto(<<s, k>>, "waiting")

\* currentPeriodEnd passes.  A period is at least a week: no handler of s is
\* still at work from the last one, and no redelivery is waiting.
FallsDue(s) ==
    /\ period[s] = "running"
    /\ \A k \in Slots : charge[<<s, k>>] \in {"free", "waiting"}
    /\ \A n \in Retries :
        \/ dunning[<<s, n>>] \in {"none", "ended"}
        \/ dunning[<<s, n>>] = "delayed" /\ <<s, n>> \notin stalled.dunning
    /\ period' = [period EXCEPT ![s] = "due"]
    /\ paid' = paid \ {s}
    /\ UNCHANGED <<status, card, checkout, grace, picked, queues, dlq, replay,
                   open, crashes, collected, spent, changes>>

\* The hourly cron selects the row ...
BillingPicks(s) ==
    /\ ~picked[s]
    /\ status[s] = "active"
    /\ period[s] = "due"
    /\ picked' = [picked EXCEPT ![s] = TRUE]
    /\ UNCHANGED <<status, period, card, checkout, grace, queues, dlq, replay,
                   open, crashes, books, changes>>

\* ... and, when its turn in the page comes, acts on what it selected: a
\* charge job if the customer has a card ...
BillingEnqueues(s) ==
    /\ picked[s]
    /\ Exists(s)
    /\ card[s]
    /\ EnqueueCharge(s)
    /\ picked' = [picked EXCEPT ![s] = FALSE]
    /\ UNCHANGED <<status, period, card, checkout, grace, dunning, limit,
                   stalled, dlq, replay, open, crashes, books, changes>>

\* ... past_due if not ...
BillingFindsNoCard(s) ==
    /\ picked[s]
    /\ Exists(s)
    /\ ~card[s]
    /\ SetStatus(s, "past_due")
    /\ picked' = [picked EXCEPT ![s] = FALSE]
    /\ UNCHANGED <<period, card, checkout, grace, queues, dlq, replay, open,
                   crashes, books, changes>>

\* ... nothing if the plan is gone.
BillingSkips(s) ==
    /\ picked[s]
    /\ ~Exists(s)
    /\ picked' = [picked EXCEPT ![s] = FALSE]
    /\ UNCHANGED <<status, period, card, checkout, grace, queues, dlq, replay,
                   open, crashes, books, changes>>

\* replayDlqJob reads the letter and enqueues the charge; another replay of
\* the same letter may be under way.  (One that enqueues after another has
\* deleted the row is this one, with that deletion put off: nobody else looks
\* at the row.) ...
ReplayEnqueues(l) ==
    /\ l \in dlq
    /\ EnqueueCharge(l[1])
    /\ replay' = replay \cup {l}
    /\ UNCHANGED <<status, period, card, checkout, grace, picked, dunning,
                   limit, stalled, dlq, open, crashes, books, changes>>

\* ... and then deletes the row by its id: of several replays of one letter
\* only the first deletes anything.
ReplayDeletes(l) ==
    /\ l \in replay
    /\ dlq' = dlq \ {l}
    /\ replay' = replay \ {l}
    /\ UNCHANGED <<status, period, card, checkout, grace, picked, queues,
                   open, crashes, books, changes>>

\* payment_success of the hosted checkout: the row advances, the token is
\* stored if the event has one (webhook.service.ts).
CheckoutPaid(s) ==
    /\ checkout[s]
    /\ Exists(s)
    /\ checkout' = [checkout EXCEPT ![s] = FALSE]
    /\ Advance(s)
    /\ \E tokenized \in BOOLEAN : card' = [card EXCEPT ![s] = @ \/ tokenized]
    /\ UNCHANGED <<grace, picked, queues, dlq, replay, open, crashes, books,
                   changes>>

\* confirmUnsubscribe.
CustomerCancels(s) ==
    /\ status[s] \notin {"canceled", "gone"}
    /\ SetStatus(s, "canceled")
    /\ UNCHANGED <<period, card, checkout, grace, picked, queues, dlq, replay,
                   open, crashes, books, changes>>

\* reactivateSubscription: a new period from today, nothing charged.
MerchantReactivates(s) ==
    /\ status[s] = "canceled"
    /\ card[s]
    /\ Advance(s)
    /\ UNCHANGED <<card, checkout, grace, picked, queues, dlq, replay, open,
                   crashes, books, changes>>

\* updatePlan: new terms, at once and for everybody.
PlanUpdated(s) ==
    /\ Exists(s)
    /\ changes < MaxChanges
    /\ changes' = changes + 1
    /\ \E days \in 0..MaxGrace : grace' = [grace EXCEPT ![s] = days]
    /\ UNCHANGED <<status, period, card, checkout, picked, queues, dlq,
                   replay, open, crashes, books>>

\* deletePlan deletes the plan, and the row with it; jobs and dead letters
\* stay.  Its check for live subscriptions is an earlier query: this one may
\* have been canceled then, or not been there, and be live by now.
PlanDeleted(s) ==
    /\ Exists(s)
    /\ status' = [status EXCEPT ![s] = "gone"]
    /\ period' = [period EXCEPT ![s] = "null"]
    /\ grace' = [grace EXCEPT ![s] = 0]
    /\ UNCHANGED <<card, checkout, picked, queues, dlq, replay, open, crashes,
                   books, changes>>

\* The breaker opens or lets calls through again (module CircuitBreaker).
BreakerChanges ==
    /\ "outage" \in Faults
    /\ open' = ~open
    /\ UNCHANGED <<status, period, card, checkout, grace, picked, queues, dlq,
                   replay, crashes, books, changes>>

\* The jobs a worker holds.
ActiveCharges == {j \in ChargeJobs : charge[j] \notin {"free", "waiting"}}

ActiveRetries ==
    {j \in DunningJobs : dunning[j] \notin {"none", "delayed", "ended"}}

\* The process dies and restarts.  BullMQ hands a job that was active back
\* once (maxStalledCount = 1) and fails it the second time.  The breaker
\* starts closed; the cron's and the replay's progress is forgotten.
Crash ==
    /\ crashes < MaxCrashes
    /\ crashes' = crashes + 1
    /\ charge' = [j \in ChargeJobs |->
                    CASE j \notin ActiveCharges    -> charge[j]
                      [] j \in ActiveCharges \ stalled.charge -> "waiting"
                      [] j \in ActiveCharges \cap stalled.charge -> "free"]
    /\ err' = [j \in ChargeJobs |-> "none"]
    /\ dunning' = [j \in DunningJobs |->
                    CASE j \notin ActiveRetries    -> dunning[j]
                      [] j \in ActiveRetries \ stalled.dunning -> "delayed"
                      [] j \in ActiveRetries \cap stalled.dunning -> "ended"]
    /\ stalled' = [charge  |-> (stalled.charge \cup ActiveCharges)
                                \ (stalled.charge \cap ActiveCharges),
                   dunning |-> (stalled.dunning \cup ActiveRetries)
                                \ (stalled.dunning \cap ActiveRetries)]
    /\ picked' = [s \in Subs |-> FALSE]
    /\ replay' = {}
    /\ limit' = [j \in DunningJobs |-> 0]
    /\ open' = FALSE
    /\ UNCHANGED <<status, period, card, checkout, grace, dlq, books,
                   changes>>

----------------------------------------------------------------------------
ChargeStep(j) ==
    \/ ChargeReads(j)
    \/ ChargeDeferred(j)
    \/ ChargeSends(j)
    \/ ChargeAccepted(j)
    \/ ChargeFails(j)
    \/ ChargeAdvances(j)
    \/ ChargeAdvanceFails(j)
    \/ ChargeRetries(j)
    \/ ChargeHandsOver(j)
    \/ ChargeMarks(j)
    \/ ChargeThrows(j)
    \/ ChargeCompletes(j)

DunningStep(j) ==
    \/ DunningDiscards(j)
    \/ DunningHeld(j)
    \/ DunningChecks(j)
    \/ DunningGivesUp(j)
    \/ DunningSends(j)
    \/ DunningRefused(j)
    \/ DunningAccepted(j)
    \/ DunningFails(j)
    \/ DunningAdvances(j)
    \/ DunningAdvanceFails(j)
    \/ DunningRetries(j)
    \/ DunningExhausts(j)
    \/ DunningCancels(j)
    \/ DunningRecords(j)
    \/ DunningThrows(j)
    \/ DunningCompletes(j)

OtherStep(s) ==
    \/ FallsDue(s)
    \/ BillingPicks(s)
    \/ BillingEnqueues(s)
    \/ BillingFindsNoCard(s)
    \/ BillingSkips(s)
    \/ CheckoutPaid(s)
    \/ CustomerCancels(s)
    \/ MerchantReactivates(s)
    \/ PlanUpdated(s)
    \/ PlanDeleted(s)
    \/ \E l \in LettersOf(s) : ReplayEnqueues(l) \/ ReplayDeletes(l)

Next ==
    \/ \E j \in ChargeJobs : ChargeStep(j)
    \/ \E j \in DunningJobs : DunningStep(j)
    \/ \E s \in Subs : OtherStep(s)
    \/ BreakerChanges
    \/ Crash

\* The dunning worker gets on with some job as long as it has one: a delay
\* elapses, a request is answered or times out, a query returns.  Nothing is
\* assumed of the charge worker, the cron, customers or merchants.
Fairness == WF_vars(\E j \in DunningJobs : DunningStep(j))

Spec == Init /\ [][Next]_vars /\ Fairness

----------------------------------------------------------------------------
(* Properties.                                                             *)

\* The last retry a dunning chain may reach: a charge that failed for a reason
\* to retry enqueues the first one without a look at the plan.
LastRetry == IF MaxGrace > 1 THEN MaxGrace ELSE 1

\* The retries of a subscription count up, 1, 2, ... without a gap and never
\* past the longest grace period, whatever was redelivered, replayed, deferred
\* or enqueued twice, and however often the merchant changed the terms.  (Retry
\* 0 is a charge deferred by an open breaker.)
RetriesCountUp ==
    \A s \in Subs : \A n \in Retries :
        dunning[<<s, n>>] # "none" =>
            /\ n <= LastRetry
            /\ \A m \in 1..n : dunning[<<s, m>>] # "none"

\* Charges, retries and dead letters exist only for customers with a card,
\* so the workers' branches for a missing one are dead code.
WorkHasCard ==
    \A s \in Subs :
        \/ \E k \in Slots : charge[<<s, k>>] # "free"
        \/ \E n \in Retries : dunning[<<s, n>>] # "none"
        \/ LettersOf(s) \cap dlq # {}
        => card[s]

\* A subscription whose plan exists is given up only by a retry that has reached
\* the grace period the worker read, and after every retry within it has had its
\* turn: it was sent and failed, or the open breaker refused it.  (That a refused
\* one counts is what the code does; REQUIREMENTS.md:265 and UP-06.6 of
\* docs/unhappy-paths.md want the subscription held in past_due instead.)
GivenUpOnlyWhenSpent ==
    [][\A j \in DunningJobs :
        dunning[j] # "exhausted" /\ dunning'[j] = "exhausted" =>
            \/ ~Exists(j[1])
            \/ /\ j[2] >= limit'[j]
               /\ \A n \in 1..limit'[j] : <<j[1], n>> \in spent]_vars

\* No free period: a worker that rolls a due subscription into its next
\* period has collected for it since it fell due, through redeliveries,
\* hidden debits and keys the gateway has already seen.
Rolled(s) == period[s] = "due" /\ period'[s] = "running"

NoFreePeriod ==
    [][\A s \in Subs :
        Rolled(s) =>
            \/ s \in paid
            \/ checkout'[s] # checkout[s]       \* the customer paid
            \/ status[s] = "canceled"           \* the merchant reactivated
      ]_vars

\* The work of a retry is in progress or to come.
Live(j) == dunning[j] \notin {"none", "done", "ended"}

\* At most one retry of a subscription is at work, however many charge jobs
\* hand it over: two would debit under two keys.
OneRetryAtATime ==
    \A s \in Subs : \A m, n \in Retries :
        Live(<<s, m>>) /\ Live(<<s, n>>) => m = n

\* Every retry is a step towards a verdict: a past_due subscription that has
\* a retry scheduled leaves past_due, collected or canceled.
DunningResolves ==
    \A s \in Subs :
        (status[s] = "past_due" /\ \E n \in Retries : dunning[<<s, n>>] = "delayed")
            ~> status[s] # "past_due"

(***************************************************************************)
(* What the documents and comments say, and the code does otherwise.       *)
(***************************************************************************)

\* REQUIREMENTS 3.1: a 5xx is retried without marking the subscription
\* past_due; so a retry is not thrown away while the period is unpaid.
RetryIsMade ==
    [][\A j \in DunningJobs :
        dunning[j] = "delayed" /\ dunning'[j] = "done" =>
            ~(status[j[1]] = "active" /\ period[j[1]] = "due")]_vars

=============================================================================
