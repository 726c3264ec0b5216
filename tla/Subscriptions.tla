--------------------------- MODULE Subscriptions ---------------------------
(***************************************************************************)
(* The rows of plans, customers and subscriptions, and everybody who       *)
(* writes them: BillingService (billing/billing.service.ts), the checkout, *)
(* the hourly tick, both workers, the webhook and the self-service.        *)
(*                                                                         *)
(* Each of them reads a row, awaits something else, and then writes        *)
(* WHERE id = ..., whatever the row has become meanwhile.  How each comes  *)
(* to its verdict is in the modules of its own; here it is what remains to *)
(* be written, and all of them work on the same rows.                      *)
(***************************************************************************)
EXTENDS Naturals

CONSTANTS
    Plans, Emails, Customers, Subs,     \* one merchant's; ids are never reused
    Signups,        \* bound: checkout requests under way at a time
    Deletions,      \* bound: plan deletions under way at a time
    Workers,        \* bound: requests and jobs holding a subscription at a time
    None,
    Period,         \* days between now and a new currentPeriodEnd
    MaxGrace,       \* bound: plans.gracePeriodDays
    MaxDay,         \* bound: days that pass
    MaxAsks         \* bound: reactivations, replays and payments of a subscription

ASSUME ConstantsAssumption ==
    /\ Period \in Nat \ {0}
    /\ MaxGrace \in Nat /\ MaxDay \in Nat \ {0} /\ MaxAsks \in Nat
    /\ None \notin Emails \cup Plans \cup Customers

VARIABLES
    now,            \* the day
    plan,           \* rows of plans, with the columns that matter here
    customer,       \* rows of customers: the email, None if there is no row
    card,           \* customers with a nombaToken
    status,         \* subscriptions.status, "none" and "deleted" without a row
    until,          \* trialEnd of a trialing one, else currentPeriodEnd; 0: null
    planOf,         \* subscriptions.planId
    ownerOf,        \* subscriptions.customerId
    unpaid,         \* subscriptions whose first transaction is pending
    retries,        \* subscriptions with a job in the dunning queue
    letters,        \* subscriptions with a dead letter
    signup,         \* what each checkout request is doing
    deletion,       \* the plan each deletion is about to delete
    work,           \* what each of the others is about to write
    asks,           \* history: who asked for the subscription to go on
    late,           \* history: live, but not yet when the deletion of its plan looked
    secure          \* history: the period was granted with nothing else under way

catalog == <<plan, customer, card, signup, deletion>>
rows == <<status, until, planOf, ownerOf, unpaid>>
queues == <<retries, letters>>
history == <<late, secure>>
vars == <<now, catalog, rows, queues, work, asks, history>>

Live == {"trialing", "active", "past_due"}
Stored == Live \cup {"canceled"}

Ops ==
    {"due", "ended",            \* the tick has the row in hand
     "charge", "dunning",       \* a charge job; a retry past its check
     "unsubscribe",             \* the code was accepted
     "reactivate", "revive",    \* found canceled; card and plan looked at
     "settle", "advance",       \* the webhook's two updates
     "lapse", "expire"}         \* the evaluator's verdicts: past_due, canceled

Idle == [op |-> "idle"]
NoSignup == [at |-> "idle"]

SignupState ==
    {NoSignup}
    \cup [at : {"select", "create"}, plan : Plans, trial : BOOLEAN, email : Emails]
    \cup [at : {"insert"}, plan : Plans, trial : BOOLEAN, customer : Customers]

PlanRow == [row : {"none", "live", "deleted"}, grace : 0..MaxGrace]

\* Foreign keys: a stored subscription has its plan and its customer.
Anchored ==
    \A s \in Subs : status[s] \in Stored =>
        /\ planOf[s] \in Plans /\ plan[planOf[s]].row = "live"
        /\ ownerOf[s] \in Customers /\ customer[ownerOf[s]] # None

TypeOK ==
    /\ now \in 1..MaxDay
    /\ plan \in [Plans -> PlanRow]
    /\ customer \in [Customers -> Emails \cup {None}]
    /\ card \in SUBSET Customers
    /\ status \in [Subs -> {"none", "deleted"} \cup Stored]
    /\ until \in [Subs -> Nat]
    /\ planOf \in [Subs -> Plans \cup {None}]
    /\ ownerOf \in [Subs -> Customers \cup {None}]
    /\ unpaid \in SUBSET Subs
    /\ retries \in SUBSET Subs
    /\ letters \in SUBSET Subs
    /\ signup \in [Signups -> SignupState]
    /\ deletion \in [Deletions -> Plans \cup {None}]
    /\ work \in [Workers -> {Idle} \cup [op : Ops, sub : Subs]]
    /\ asks \in [Subs -> 0..MaxAsks]
    /\ late \in SUBSET Subs
    /\ secure \in SUBSET Subs
    /\ Anchored

Init ==
    /\ now = 1
    /\ plan = [p \in Plans |-> [row |-> "none", grace |-> 0]]
    /\ customer = [c \in Customers |-> None]
    /\ card = {}
    /\ status = [s \in Subs |-> "none"]
    /\ until = [s \in Subs |-> 0]
    /\ planOf = [s \in Subs |-> None]
    /\ ownerOf = [s \in Subs |-> None]
    /\ unpaid = {}
    /\ retries = {}
    /\ letters = {}
    /\ signup = [r \in Signups |-> NoSignup]
    /\ deletion = [d \in Deletions |-> None]
    /\ work = [w \in Workers |-> Idle]
    /\ asks = [s \in Subs |-> 0]
    /\ late = {}
    /\ secure = {}

----------------------------------------------------------------------------
(* Plans.                                                                  *)

CreatePlan(p) ==
    /\ plan[p].row = "none"
    /\ \E grace \in 0..MaxGrace : plan' = [plan EXCEPT ![p] = [row |-> "live", grace |-> grace]]
    /\ UNCHANGED <<now, customer, card, signup, deletion, rows, queues, work, asks>>

\* New terms hold for everybody at once; a plan found may be gone when written.
UpdatePlan(p) ==
    /\ plan[p].row = "live"
    /\ \E grace \in 0..MaxGrace : plan' = [plan EXCEPT ![p].grace = grace]
    /\ UNCHANGED <<now, customer, card, signup, deletion, rows, queues, work, asks>>

\* Defect for DeletionSparesSeen: only active subscriptions hold a plan.
DeletionLooks_ActiveOnly(d, p) ==
    /\ deletion[d] = None
    /\ plan[p].row = "live"
    /\ \A s \in Subs : planOf[s] = p => status[s] # "active"
    /\ deletion' = [deletion EXCEPT ![d] = p]
    /\ UNCHANGED <<now, plan, customer, card, signup, rows, queues, work, asks>>

\* deletePlan: the plan is there and no live subscription is on it.
DeletionLooks(d, p) ==
    /\ deletion[d] = None
    /\ plan[p].row = "live"
    /\ \A s \in Subs : planOf[s] = p => status[s] \notin Live
    /\ deletion' = [deletion EXCEPT ![d] = p]
    /\ UNCHANGED <<now, plan, customer, card, signup, rows, queues, work, asks>>

\* Then it deletes, and the deletion cascades to whatever is on it by now.
DeletionActs(d) ==
    /\ deletion[d] # None
    /\ deletion' = [deletion EXCEPT ![d] = None]
    /\ plan' = [plan EXCEPT ![deletion[d]].row = "deleted"]
    /\ status' = [s \in Subs |-> IF planOf[s] = deletion[d] /\ status[s] \in Stored
                                 THEN "deleted" ELSE status[s]]
    /\ UNCHANGED <<now, customer, card, signup, until, planOf, ownerOf, unpaid,
                   queues, work, asks>>

----------------------------------------------------------------------------
(* Customers, and the checkout that brings them.                           *)

Known(e) == {c \in Customers : customer[c] = e}

\* registerCustomer inserts without a look.
Register(e) ==
    /\ \E c \in Known(None) : customer' = [customer EXCEPT ![c] = e]
    /\ UNCHANGED <<now, plan, card, signup, deletion, rows, queues, work, asks>>

\* A payment for a subscription brings the card of its customer.
StoreToken(c) ==
    /\ \E s \in Subs : status[s] \in Stored /\ ownerOf[s] = c
    /\ card' = card \cup {c}
    /\ UNCHANGED <<now, plan, customer, signup, deletion, rows, queues, work, asks>>

\* createSubscriptionPayment reads its plan, with or without a trial, ...
SignupBegins(r, p, e) ==
    /\ signup[r] = NoSignup
    /\ plan[p].row = "live"
    /\ \E trial \in BOOLEAN :
        signup' = [signup EXCEPT ![r] =
            [at |-> "select", plan |-> p, trial |-> trial, email |-> e]]
    /\ UNCHANGED <<now, plan, customer, card, deletion, rows, queues, work, asks>>

\* The request goes on to insert a subscription of customer c.
WithCustomer(r, c) ==
    signup' = [signup EXCEPT ![r] =
            [at |-> "insert", plan |-> signup[r].plan, trial |-> signup[r].trial, customer |-> c]]

\* ... getOrCreateCustomer selects: a row is there ...
SelectFinds(r) ==
    /\ signup[r].at = "select"
    /\ \E c \in Known(signup[r].email) : WithCustomer(r, c)
    /\ UNCHANGED <<now, plan, customer, card, deletion, rows, queues, work, asks>>

\* ... or none is, and one will be created.
SelectMisses(r) ==
    /\ signup[r].at = "select"
    /\ Known(signup[r].email) = {}
    /\ signup' = [signup EXCEPT ![r].at = "create"]
    /\ UNCHANGED <<now, plan, customer, card, deletion, rows, queues, work, asks>>

InsertCustomer(r) ==
    /\ signup[r].at = "create"
    /\ \E c \in Known(None) :
        /\ customer' = [customer EXCEPT ![c] = signup[r].email]
        /\ WithCustomer(r, c)
    /\ UNCHANGED <<now, plan, card, deletion, rows, queues, work, asks>>

\* Defect for TypeOK: no foreign key.
InsertSub_NoForeignKey(r, s) ==
    /\ signup[r].at = "insert"
    /\ status[s] = "none"
    /\ status' = [status EXCEPT ![s] = IF signup[r].trial THEN "trialing" ELSE "active"]
    /\ until' = [until EXCEPT ![s] = IF signup[r].trial THEN now + 1 ELSE 0]
    /\ planOf' = [planOf EXCEPT ![s] = signup[r].plan]
    /\ ownerOf' = [ownerOf EXCEPT ![s] = signup[r].customer]
    /\ unpaid' \in {unpaid, unpaid \cup {s}}
    /\ signup' = [signup EXCEPT ![r] = NoSignup]
    /\ UNCHANGED <<now, plan, customer, card, deletion, queues, work, asks>>

\* The subscription, on the terms read at the beginning.  Nobody asks whether
\* the customer has one already.  Its order and transaction may fail.
InsertSub(r, s) ==
    /\ signup[r].at = "insert"
    /\ plan[signup[r].plan].row = "live"
    /\ status[s] = "none"
    /\ status' = [status EXCEPT ![s] = IF signup[r].trial THEN "trialing" ELSE "active"]
    /\ until' = [until EXCEPT ![s] = IF signup[r].trial THEN now + 1 ELSE 0]
    /\ planOf' = [planOf EXCEPT ![s] = signup[r].plan]
    /\ ownerOf' = [ownerOf EXCEPT ![s] = signup[r].customer]
    /\ unpaid' \in {unpaid, unpaid \cup {s}}
    /\ signup' = [signup EXCEPT ![r] = NoSignup]
    /\ UNCHANGED <<now, plan, customer, card, deletion, queues, work, asks>>

\* A query fails, the foreign key refuses: what was inserted stays.
SignupFails(r) ==
    /\ signup[r] # NoSignup
    /\ signup' = [signup EXCEPT ![r] = NoSignup]
    /\ UNCHANGED <<now, plan, customer, card, deletion, rows, queues, work, asks>>

----------------------------------------------------------------------------
(* Taking up a subscription.                                               *)

Takes(w, op, s) ==
    /\ work[w] = Idle
    /\ work' = [work EXCEPT ![w] = [op |-> op, sub |-> s]]

\* As Takes, on behalf of the merchant or the customer.
Asked(w, op, s) ==
    /\ Takes(w, op, s)
    /\ asks[s] < MaxAsks
    /\ asks' = [asks EXCEPT ![s] = @ + 1]

Expired(s) == until[s] # 0 /\ until[s] <= now

\* Defect for PaidIsKept: the query forgets the date.
PickDue_AnyDate(w, s) ==
    /\ status[s] = "active"
    /\ Takes(w, "due", s)
    /\ UNCHANGED <<now, catalog, rows, queues, asks>>

\* The tick selects active rows whose period has ended, ...
PickDue(w, s) ==
    /\ status[s] = "active"
    /\ Expired(s)
    /\ Takes(w, "due", s)
    /\ UNCHANGED <<now, catalog, rows, queues, asks>>

\* ... and trials that have.
PickEnded(w, s) ==
    /\ status[s] = "trialing"
    /\ Expired(s)
    /\ Takes(w, "ended", s)
    /\ UNCHANGED <<now, catalog, rows, queues, asks>>

\* Defect for LifecycleKept: a retry does not look at the status.
RetryComesUp_Blindly(w, s) ==
    /\ s \in retries
    /\ status[s] \in Stored
    /\ retries' = retries \ {s}
    /\ Takes(w, "dunning", s)
    /\ UNCHANGED <<now, catalog, rows, letters, asks>>

\* A retry comes up for a subscription that still is past_due.
RetryComesUp(w, s) ==
    /\ s \in retries
    /\ status[s] = "past_due"
    /\ retries' = retries \ {s}
    /\ Takes(w, "dunning", s)
    /\ UNCHANGED <<now, catalog, rows, letters, asks>>

\* It no longer is: the job is stale.
RetryDiscarded(s) ==
    /\ s \in retries
    /\ status[s] # "past_due"
    /\ retries' = retries \ {s}
    /\ UNCHANGED <<now, catalog, rows, letters, work, asks>>

\* confirmUnsubscribe finds it not yet canceled.
Unsubscribes(w, s) ==
    /\ status[s] \in Live
    /\ Takes(w, "unsubscribe", s)
    /\ UNCHANGED <<now, catalog, rows, queues, asks>>

\* evaluateSubscriptionGracePeriod reads row, plan and clock, and has
\* something to write only if the status has to change.
Evaluates(w, s) ==
    LET overdue == now - until[s]
        grace == plan[planOf[s]].grace
    IN  /\ status[s] \in {"active", "past_due"}
        /\ until[s] # 0
        /\ \/ overdue > grace /\ Takes(w, "expire", s)
           \/ /\ overdue > 0 /\ overdue <= grace
              /\ status[s] = "active"
              /\ Takes(w, "lapse", s)
        /\ UNCHANGED <<now, catalog, rows, queues, asks>>

\* reactivateSubscription finds it canceled.
Reactivates(w, s) ==
    /\ status[s] = "canceled"
    /\ Asked(w, "reactivate", s)
    /\ UNCHANGED <<now, catalog, rows, queues>>

\* The webhook finds the first transaction pending.
PaymentComesIn(w, s) ==
    /\ s \in unpaid
    /\ Asked(w, "settle", s)
    /\ UNCHANGED <<now, catalog, rows, queues>>

\* A dead letter is replayed; a second replay may find it still there.
Replays(w, s) ==
    /\ s \in letters
    /\ Asked(w, "charge", s)
    /\ letters' \in {letters, letters \ {s}}
    /\ UNCHANGED <<now, catalog, rows, retries>>

----------------------------------------------------------------------------
(* Writing it.                                                             *)

HasCard(s) == ownerOf[s] \in card
PlanStands(s) == planOf[s] # None /\ plan[planOf[s]].row = "live"

Puts(w) ==
    /\ work' = [work EXCEPT ![w] = Idle]
    /\ UNCHANGED <<now, catalog, planOf, ownerOf, asks>>

\* UPDATE ... SET status = v WHERE id = s.
SetStatus(s, v) ==
    IF status[s] \in Stored
    THEN /\ status' = [status EXCEPT ![s] = v]
         /\ until' = [until EXCEPT ![s] = IF status[s] = "trialing" THEN 0 ELSE @]
    ELSE UNCHANGED <<status, until>>

\* UPDATE ... SET status = 'active', current_period_end = ... WHERE id = s.
Grant(s) ==
    IF status[s] \in Stored
    THEN /\ status' = [status EXCEPT ![s] = "active"]
         /\ until' = [until EXCEPT ![s] = now + Period]
    ELSE UNCHANGED <<status, until>>

\* The tick: without a card past_due, ...
RowWithoutCard(w) ==
    /\ work[w].op \in {"due", "ended"}
    /\ ~HasCard(work[w].sub)
    /\ SetStatus(work[w].sub, "past_due")
    /\ Puts(w)
    /\ UNCHANGED <<unpaid, queues>>

\* ... with one a charge job, for which a trial is promoted first.
RowToCharge(w) ==
    LET s == work[w].sub
    IN  /\ work[w].op \in {"due", "ended"}
        /\ HasCard(s) /\ PlanStands(s)
        /\ work' = [work EXCEPT ![w].op = "charge"]
        /\ IF work[w].op = "ended" THEN SetStatus(s, "active") ELSE UNCHANGED <<status, until>>
        /\ UNCHANGED <<now, catalog, planOf, ownerOf, unpaid, queues, asks>>

\* The charge or the retry went through.
Collected(w) ==
    /\ work[w].op \in {"charge", "dunning"}
    /\ PlanStands(work[w].sub)
    /\ Grant(work[w].sub)
    /\ Puts(w)
    /\ UNCHANGED <<unpaid, queues>>

\* Only what is stored can get a dead letter.
Letter(s) == IF status[s] \in Stored THEN {s} ELSE {}

\* The charge was declined: a retry or a dead letter is left behind, and then
\* the status, unless that update fails.  The queue ignores a retry whose
\* number it remembers.
Declined(w) ==
    LET s == work[w].sub
    IN  /\ work[w].op = "charge"
        /\ IF PlanStands(s) /\ plan[planOf[s]].grace > 0
           THEN retries' \in {retries, retries \cup {s}} /\ UNCHANGED letters
           ELSE letters' = letters \cup Letter(s) /\ UNCHANGED retries
        /\ SetStatus(s, "past_due") \/ UNCHANGED <<status, until>>
        /\ Puts(w)
        /\ UNCHANGED unpaid

\* The charge, or a retry that is not the last one, is put off.
PutOff(w) ==
    /\ work[w].op \in {"charge", "dunning"}
    /\ retries' \in {retries, retries \cup {work[w].sub}}
    /\ Puts(w)
    /\ UNCHANGED <<status, until, unpaid, letters>>

\* The last retry has failed: canceled, and then a dead letter, unless that
\* insertion fails.
GivenUp(w) ==
    LET s == work[w].sub
    IN  /\ work[w].op = "dunning"
        /\ SetStatus(s, "canceled")
        /\ letters' \in {letters, letters \cup Letter(s)}
        /\ Puts(w)
        /\ UNCHANGED <<unpaid, retries>>

\* The customer leaves.
Leaves(w) ==
    /\ work[w].op = "unsubscribe"
    /\ SetStatus(work[w].sub, "canceled")
    /\ Puts(w)
    /\ UNCHANGED <<unpaid, queues>>

\* The evaluator's verdict.
Lapses(w) ==
    /\ work[w].op \in {"lapse", "expire"}
    /\ SetStatus(work[w].sub, IF work[w].op = "lapse" THEN "past_due" ELSE "canceled")
    /\ Puts(w)
    /\ UNCHANGED <<unpaid, queues>>

\* reactivateSubscription: the customer has a card, the plan still stands, ...
ReactivationAllowed(w) ==
    /\ work[w].op = "reactivate"
    /\ HasCard(work[w].sub) /\ PlanStands(work[w].sub)
    /\ work' = [work EXCEPT ![w].op = "revive"]
    /\ UNCHANGED <<now, catalog, rows, queues, asks>>

\* ... and a new period begins.
Revives(w) ==
    /\ work[w].op = "revive"
    /\ Grant(work[w].sub)
    /\ Puts(w)
    /\ UNCHANGED <<unpaid, queues>>

\* The webhook marks the transaction, ...
Settles(w) ==
    /\ work[w].op = "settle"
    /\ unpaid' = unpaid \ {work[w].sub}
    /\ work' = [work EXCEPT ![w].op = "advance"]
    /\ UNCHANGED <<now, catalog, status, until, planOf, ownerOf, queues, asks>>

\* ... then advances the subscription.
Advances(w) ==
    /\ work[w].op = "advance"
    /\ Grant(work[w].sub)
    /\ Puts(w)
    /\ UNCHANGED <<unpaid, queues>>

\* Refused, failed, or died before it wrote.
WorkEnds(w) ==
    /\ work[w] # Idle
    /\ Puts(w)
    /\ UNCHANGED <<status, until, unpaid, queues>>

DayPasses ==
    /\ now < MaxDay
    /\ now' = now + 1
    /\ UNCHANGED <<catalog, rows, queues, work, asks>>

----------------------------------------------------------------------------
CatalogStep ==
    \/ \E p \in Plans : CreatePlan(p) \/ UpdatePlan(p)
    \/ \E d \in Deletions : DeletionActs(d) \/ \E p \in Plans : DeletionLooks(d, p)
    \/ \E e \in Emails : Register(e)
    \/ \E c \in Customers : StoreToken(c)

SignupStep(r) ==
    \/ \E p \in Plans, e \in Emails : SignupBegins(r, p, e)
    \/ SelectFinds(r) \/ SelectMisses(r) \/ InsertCustomer(r) \/ SignupFails(r)
    \/ \E s \in Subs : InsertSub(r, s)

TakeStep(w, s) ==
    \/ PickDue(w, s) \/ PickEnded(w, s) \/ RetryComesUp(w, s)
    \/ Unsubscribes(w, s) \/ Evaluates(w, s)
    \/ Reactivates(w, s) \/ PaymentComesIn(w, s) \/ Replays(w, s)

WriteStep(w) ==
    \/ RowWithoutCard(w) \/ RowToCharge(w)
    \/ Collected(w) \/ Declined(w) \/ PutOff(w) \/ GivenUp(w)
    \/ Leaves(w) \/ Lapses(w)
    \/ ReactivationAllowed(w) \/ Revives(w) \/ Settles(w) \/ Advances(w) \/ WorkEnds(w)

Step ==
    \/ CatalogStep
    \/ \E r \in Signups : SignupStep(r)
    \/ \E w \in Workers : WriteStep(w) \/ \E s \in Subs : TakeStep(w, s)
    \/ \E s \in Subs : RetryDiscarded(s)
    \/ DayPasses

Busy == {s \in Subs : \E w \in Workers : work[w] # Idle /\ work[w].sub = s}

\* Histories: what went live under a pending deletion of its plan, and whose
\* period was granted with nothing else under way and nobody asking since.
Remember ==
    /\ late' = {s \in Subs :
            /\ status'[s] \in Live
            /\ \/ s \in late
               \/ status[s] \notin Live /\ \E d \in Deletions : deletion[d] = planOf'[s]}
    /\ secure' = {s \in Subs :
            \/ s \in secure /\ asks'[s] = asks[s] /\ until'[s] = until[s]
            \/ /\ until'[s] # until[s]
               /\ status'[s] = "active" /\ until'[s] > now
               /\ s \notin Busy'}

Next == Step /\ Remember

Spec == Init /\ [][Next]_vars

----------------------------------------------------------------------------
(* Properties.                                                             *)

Lifecycle == INSTANCE SubscriptionLifecycle WITH busy <- Busy

\* Whoever writes the row, and however late: a subscription that was canceled
\* with nothing under way stays canceled until its merchant or its customer
\* asks for it.  Rows in the tick's hand, queued retries and the evaluator do
\* not bring it back.
LifecycleKept == Lifecycle!Spec

\* The deletion of a plan takes a live subscription along only if that was
\* inserted or revived after deletePlan had looked.
DeletionSparesSeen ==
    [][\A s \in Subs : status[s] \in Live /\ status'[s] = "deleted" => s \in late]_vars

\* The customer's own cancellation is what step is about to write for s.
Leaving(s) == \E w \in Workers : work[w] = [op |-> "unsubscribe", sub |-> s]

\* A period granted with nothing else under way is enjoyed to its end: no
\* tick, no old retry and no evaluator takes the subscription away or shortens
\* the period, unless somebody asked again or the customer leaves.
PaidIsKept ==
    [][\A s \in secure :
        /\ status[s] = "active" /\ now < until[s]
        /\ status'[s] # "deleted"
        /\ ~Leaving(s)
        => status'[s] = "active" /\ until'[s] >= until[s]]_vars
=============================================================================
