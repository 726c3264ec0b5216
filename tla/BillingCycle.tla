---------------------------- MODULE BillingCycle ----------------------------
(***************************************************************************)
(* BillingWorkerService (scheduler/billing-worker.service.ts): the hourly  *)
(* tick that pages through the due subscriptions and adds a charge job for *)
(* each, then pages through the expired trials.  It runs against the       *)
(* charge worker (module Dunning has its detail), customers and the clock, *)
(* which all change the rows between a tick's query and its turn to act.   *)
(*                                                                         *)
(* The query has a limit but no ORDER BY: a page is any PageSize of the    *)
(* matching rows in any order.  The order is chosen row by row.            *)
(***************************************************************************)
EXTENDS Integers, FiniteSets

CONSTANTS
    Subs,           \* subscription ids; the order of the integers is theirs
    PageSize,       \* PAGE_SIZE, 100 in the code
    Ticks,          \* bound: ticks under way at a time (nothing prevents two)
    MaxFailures,    \* bound: ticks that fail
    MaxJobs         \* bound: charge jobs of one subscription in the queue

ASSUME ConstantsAssumption ==
    /\ Subs \subseteq Nat \ {0}
    /\ IsFiniteSet(Subs)
    /\ PageSize \in Nat \ {0}
    /\ MaxFailures \in Nat
    /\ MaxJobs \in Nat

VARIABLES
    status,         \* subscriptions.status; "gone" once the row is deleted
    period,         \* currentPeriodEnd: null, ahead of now, or passed
    trial,          \* trialEnd of a trialing one: ahead or passed, else null
    card,           \* the customer has a nombaToken
    queue,          \* charge jobs waiting, per subscription
    phase,          \* what each tick is paging through
    pc,             \* where in its loop it stands
    page,           \* rows of the page it has not come to
    full,           \* that page had PageSize rows
    cursor,         \* lastId, 0 before the first page
    horizon,        \* rows due at the phase's "now"; later ones do not match
    asked,          \* history: charge jobs the tick added, per subscription
    failures        \* ticks failed so far

rows == <<status, period, trial, card>>
loop == <<phase, pc, page, full, cursor, horizon>>
vars == <<rows, queue, loop, asked, failures>>

Places == {"query", "rows", "promoted"}

TypeOK ==
    /\ status \in [Subs -> {"trialing", "active", "past_due", "canceled", "gone"}]
    /\ period \in [Subs -> {"null", "ahead", "passed"}]
    /\ trial \in [Subs -> {"null", "ahead", "passed"}]
    /\ card \in [Subs -> BOOLEAN]
    /\ queue \in [Subs -> 0..MaxJobs]
    /\ phase \in [Ticks -> {"off", "charges", "trials"}]
    /\ pc \in [Ticks -> Places]
    /\ page \in [Ticks -> SUBSET Subs]
    /\ full \in [Ticks -> BOOLEAN]
    /\ cursor \in [Ticks -> Subs \cup {0}]
    /\ horizon \in [Ticks -> SUBSET Subs]
    /\ asked \in [Ticks -> [Subs -> 0..2]]
    /\ failures \in 0..MaxFailures
    /\ \A t \in Ticks : phase[t] = "off" => page[t] = {}

\* createSubscriptionPayment has inserted the rows: a plan with a trial, or
\* one that is paid at once.
Init ==
    /\ status \in [Subs -> {"trialing", "active"}]
    /\ period = [s \in Subs |-> "null"]
    /\ trial = [s \in Subs |-> IF status[s] = "trialing" THEN "ahead" ELSE "null"]
    /\ card \in [Subs -> BOOLEAN]
    /\ queue = [s \in Subs |-> 0]
    /\ phase = [t \in Ticks |-> "off"]
    /\ pc = [t \in Ticks |-> "query"]
    /\ page = [t \in Ticks |-> {}]
    /\ full = [t \in Ticks |-> FALSE]
    /\ cursor = [t \in Ticks |-> 0]
    /\ horizon = [t \in Ticks |-> {}]
    /\ asked = [t \in Ticks |-> [s \in Subs |-> 0]]
    /\ failures = 0

----------------------------------------------------------------------------
(* One tick.                                                               *)

\* No status is set to trialing after the start, and trialEnd is read of
\* trialing subscriptions only: it is forgotten with the status.
SetStatus(s, value) ==
    /\ status' = [status EXCEPT ![s] = value]
    /\ trial' = [trial EXCEPT ![s] = "null"]

Due == {s \in Subs : status[s] = "active" /\ period[s] = "passed"}

ExpiredTrials == {s \in Subs : status[s] = "trialing" /\ trial[s] = "passed"}

\* Defect for DueIsBilled: the query joins the cards, and passes over rows
\* that should become past_due.
Matching_WithCard(t) ==
    {s \in horizon[t] \cap (IF phase[t] = "charges" THEN Due ELSE ExpiredTrials) :
        card[s] /\ (cursor[t] # 0 => s <= cursor[t])}

\* The rows that match the query of t's phase, cursor included: the code
\* compares ids with lte.
Matching(t) ==
    {s \in horizon[t] \cap (IF phase[t] = "charges" THEN Due ELSE ExpiredTrials) :
        cursor[t] # 0 => s <= cursor[t]}

\* t enters phase p afresh: now is read, lastId is undefined.
StartPhase(t, p) ==
    /\ phase' = [phase EXCEPT ![t] = p]
    /\ pc' = [pc EXCEPT ![t] = "query"]
    /\ page' = [page EXCEPT ![t] = {}]
    /\ full' = [full EXCEPT ![t] = FALSE]
    /\ horizon' = [horizon EXCEPT ![t] = IF p = "charges" THEN Due ELSE ExpiredTrials]
    /\ cursor' = [cursor EXCEPT ![t] = 0]
    /\ UNCHANGED asked

\* The tick is over, normally or not.
Stop(t) ==
    /\ phase' = [phase EXCEPT ![t] = "off"]
    /\ pc' = [pc EXCEPT ![t] = "query"]
    /\ page' = [page EXCEPT ![t] = {}]
    /\ full' = [full EXCEPT ![t] = FALSE]
    /\ horizon' = [horizon EXCEPT ![t] = {}]
    /\ cursor' = [cursor EXCEPT ![t] = 0]
    /\ asked' = [asked EXCEPT ![t] = [s \in Subs |-> 0]]

\* After the last page: the trials, or the end of the tick.
NextPhase(t) == IF phase[t] = "charges" THEN StartPhase(t, "trials") ELSE Stop(t)

\* runBillingCycle.
TickStarts(t) ==
    /\ phase[t] = "off"
    /\ StartPhase(t, "charges")
    /\ UNCHANGED <<rows, queue, failures>>

\* A page: all matching rows if they are fewer than PageSize.
FetchPage(t) ==
    /\ phase[t] # "off"
    /\ pc[t] = "query"
    /\ Matching(t) # {}
    /\ \E P \in SUBSET Matching(t) :
        /\ \/ Cardinality(Matching(t)) < PageSize /\ P = Matching(t)
           \/ Cardinality(P) = PageSize
        /\ page' = [page EXCEPT ![t] = P]
    /\ full' = [full EXCEPT ![t] = Cardinality(Matching(t)) >= PageSize]
    /\ pc' = [pc EXCEPT ![t] = "rows"]
    /\ UNCHANGED <<rows, queue, phase, cursor, horizon, asked, failures>>

FindsNone(t) ==
    /\ phase[t] # "off"
    /\ pc[t] = "query"
    /\ Matching(t) = {}
    /\ NextPhase(t)
    /\ UNCHANGED <<rows, queue, failures>>

\* t comes to row s of its page, in phase p.
Visits(t, s, p) ==
    /\ phase[t] = p
    /\ pc[t] = "rows"
    /\ s \in page[t]

\* ... and is done with it.
PassRow(t, s) ==
    /\ page' = [page EXCEPT ![t] = @ \ {s}]
    /\ cursor' = [cursor EXCEPT ![t] = s]
    /\ UNCHANGED <<phase, full, horizon>>

\* Its plan and its customer exist, and the customer has a card.
HasCard(s) == status[s] # "gone" /\ card[s]

HasNoCard(s) == status[s] # "gone" /\ ~card[s]

\* A charge job for s, under an id made of Date.now().
AddJob(t, s) ==
    /\ queue[s] < MaxJobs
    /\ queue' = [queue EXCEPT ![s] = @ + 1]
    /\ asked' = [asked EXCEPT ![t][s] = IF @ < 2 THEN @ + 1 ELSE @]

\* A due subscription whose customer has a card.
ChargeRow(t, s) ==
    /\ Visits(t, s, "charges")
    /\ HasCard(s)
    /\ AddJob(t, s)
    /\ PassRow(t, s)
    /\ UNCHANGED <<rows, pc, failures>>

\* Defect for TickCovers: a missing card ends the page.
ChargeRowNoCard_EndsPage(t, s) ==
    /\ Visits(t, s, "charges")
    /\ HasNoCard(s)
    /\ SetStatus(s, "past_due")
    /\ page' = [page EXCEPT ![t] = {}]
    /\ cursor' = [cursor EXCEPT ![t] = s]
    /\ UNCHANGED <<period, card, queue, pc, phase, full, horizon, asked, failures>>

\* ... or has none.
ChargeRowNoCard(t, s) ==
    /\ Visits(t, s, "charges")
    /\ HasNoCard(s)
    /\ SetStatus(s, "past_due")
    /\ PassRow(t, s)
    /\ UNCHANGED <<period, card, queue, pc, asked, failures>>

\* An expired trial with a card: active, with no period ...
TrialRow(t, s) ==
    /\ Visits(t, s, "trials")
    /\ HasCard(s)
    /\ SetStatus(s, "active")
    /\ PassRow(t, s)
    /\ pc' = [pc EXCEPT ![t] = "promoted"]
    /\ UNCHANGED <<period, card, queue, asked, failures>>

\* ... and then its first charge job.
TrialCharge(t) ==
    /\ pc[t] = "promoted"
    /\ AddJob(t, cursor[t])
    /\ pc' = [pc EXCEPT ![t] = "rows"]
    /\ UNCHANGED <<rows, phase, page, full, cursor, horizon, failures>>

\* An expired trial without a card.
TrialRowNoCard(t, s) ==
    /\ Visits(t, s, "trials")
    /\ HasNoCard(s)
    /\ SetStatus(s, "past_due")
    /\ PassRow(t, s)
    /\ UNCHANGED <<period, card, queue, pc, asked, failures>>

\* The plan was deleted after the page was read, and the row with it.
RowSkipped(t, s) ==
    /\ pc[t] = "rows"
    /\ s \in page[t]
    /\ status[s] = "gone"
    /\ PassRow(t, s)
    /\ UNCHANGED <<rows, queue, pc, asked, failures>>

\* Defect for OncePerTick: only an empty page ends the phase.
EndPage_OnlyEmptyEnds(t) ==
    /\ phase[t] # "off"
    /\ pc[t] = "rows"
    /\ page[t] = {}
    /\ pc' = [pc EXCEPT ![t] = "query"]
    /\ UNCHANGED <<phase, page, full, cursor, horizon, rows, queue, asked, failures>>

\* Defect for TrialsResolve: a short page ends the tick, not the phase.
EndPage_EndsTick(t) ==
    /\ phase[t] # "off"
    /\ pc[t] = "rows"
    /\ page[t] = {}
    /\ IF full[t]
       THEN /\ pc' = [pc EXCEPT ![t] = "query"]
            /\ UNCHANGED <<phase, page, full, cursor, horizon, asked>>
       ELSE Stop(t)
    /\ UNCHANGED <<rows, queue, failures>>

\* The end of a page: a full one is followed by the next query, a short one
\* was the last.
EndPage(t) ==
    /\ phase[t] # "off"
    /\ pc[t] = "rows"
    /\ page[t] = {}
    /\ IF full[t]
       THEN /\ pc' = [pc EXCEPT ![t] = "query"]
            /\ UNCHANGED <<phase, page, full, cursor, horizon, asked>>
       ELSE NextPhase(t)
    /\ UNCHANGED <<rows, queue, failures>>

\* A query or an add fails, or the process dies: what was done stays done.
TickFails(t) ==
    /\ failures < MaxFailures
    /\ phase[t] # "off"
    /\ Stop(t)
    /\ failures' = failures + 1
    /\ UNCHANGED <<rows, queue>>

----------------------------------------------------------------------------
(* The charge worker, customers and the clock.                             *)

\* The worker takes a job of s: it collects, marks the failure, or leaves the
\* row as it is and hands over to the dunning queue or fails.
ChargeRuns(s) ==
    /\ queue[s] > 0
    /\ queue' = [queue EXCEPT ![s] = @ - 1]
    /\ \/ /\ status[s] # "gone"
          /\ SetStatus(s, "active")
          /\ period' = [period EXCEPT ![s] = "ahead"]
       \/ status[s] # "gone" /\ SetStatus(s, "past_due") /\ UNCHANGED period
       \/ UNCHANGED <<status, period, trial>>
    /\ UNCHANGED <<card, loop, asked, failures>>

\* A paid checkout, announced by the webhook with or without a tokenKey.
CheckoutPaid(s) ==
    /\ status[s] # "gone"
    /\ SetStatus(s, "active")
    /\ period' = [period EXCEPT ![s] = "ahead"]
    /\ \E tokenized \in BOOLEAN : card' = [card EXCEPT ![s] = @ \/ tokenized]
    /\ UNCHANGED <<queue, loop, asked, failures>>

\* confirmUnsubscribe.
CustomerCancels(s) ==
    /\ status[s] \notin {"canceled", "gone"}
    /\ SetStatus(s, "canceled")
    /\ UNCHANGED <<period, card, queue, loop, asked, failures>>

\* deletePlan deletes the plan, and the row with it.  Its check for live
\* subscriptions is an earlier query: this one may have been canceled then, or
\* not been there, and be live by now.
PlanDeleted(s) ==
    /\ status[s] # "gone"
    /\ SetStatus(s, "gone")
    /\ period' = [period EXCEPT ![s] = "null"]
    /\ UNCHANGED <<card, queue, loop, asked, failures>>

\* currentPeriodEnd passes, after the "now" of every phase under way.
PeriodEnds(s) ==
    /\ period[s] = "ahead"
    /\ period' = [period EXCEPT ![s] = "passed"]
    /\ horizon' = [t \in Ticks |-> IF phase[t] = "charges"
                                   THEN horizon[t] \ {s} ELSE horizon[t]]
    /\ UNCHANGED <<status, trial, card, queue, phase, pc, page, full, cursor,
                   asked, failures>>

\* trialEnd passes; nobody reads it of a subscription that is not trialing.
TrialEnds(s) ==
    /\ status[s] = "trialing"
    /\ trial[s] = "ahead"
    /\ trial' = [trial EXCEPT ![s] = "passed"]
    /\ UNCHANGED <<status, period, card, queue, loop, asked, failures>>

----------------------------------------------------------------------------
TickStep(t) ==
    \/ TickStarts(t)
    \/ FetchPage(t)
    \/ FindsNone(t)
    \/ \E s \in Subs : \/ ChargeRow(t, s)
                       \/ ChargeRowNoCard(t, s)
                       \/ TrialRow(t, s)
                       \/ TrialRowNoCard(t, s)
                       \/ RowSkipped(t, s)
    \/ TrialCharge(t)
    \/ EndPage(t)

Next ==
    \/ \E t \in Ticks : TickStep(t) \/ TickFails(t)
    \/ \E s \in Subs : \/ ChargeRuns(s)
                       \/ CheckoutPaid(s)
                       \/ CustomerCancels(s)
                       \/ PlanDeleted(s)
                       \/ PeriodEnds(s)
                       \/ TrialEnds(s)

\* The cron fires every hour, its queries return, and the charge worker runs
\* (module CircuitBreaker: a pause ends).
Fairness ==
    /\ \A t \in Ticks : WF_vars(TickStep(t))
    /\ \A s \in Subs : WF_vars(ChargeRuns(s))

Spec == Init /\ [][Next]_vars /\ Fairness

----------------------------------------------------------------------------
(* Properties.                                                             *)

\* A tick asks for at most one charge of a subscription: every further job
\* is a further debit, for their ids and keys differ.
OncePerTick == \A t \in Ticks : \A s \in Subs : asked[t][s] <= 1

\* A tick that comes to the end of its charges has asked for every
\* subscription that was due when it began and still is.
TickCovers ==
    [][\A t \in Ticks :
        phase[t] = "charges" /\ phase'[t] = "trials" =>
            \A s \in horizon[t] \cap Due : asked[t][s] > 0]_vars

\* A due subscription is charged, marked past_due or no longer due, even if
\* a tick fails: the next one catches up.
DueIsBilled == \A s \in Subs : s \in Due ~> s \notin Due \/ queue[s] > 0

\* An expired trial becomes active, past_due or canceled.
TrialsResolve == \A s \in Subs : s \in ExpiredTrials ~> s \notin ExpiredTrials
=============================================================================
