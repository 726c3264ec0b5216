------------------------------ MODULE Checkout ------------------------------
(***************************************************************************)
(* Hosted payments: CheckoutService (checkout/checkout.service.ts) opens   *)
(* an order at the gateway, the customer pays or not, and the gateway      *)
(* announces the outcome to WebhookService.processNombaEvent               *)
(* (webhook/webhook.service.ts), as often as it likes and before earlier   *)
(* announcements have been dealt with.                                     *)
(*                                                                         *)
(* Handlers are split at their awaits.  None of them uses a database       *)
(* transaction: a failing query or a crash leaves what was written before. *)
(***************************************************************************)
EXTENDS Naturals

CONSTANTS
    Payments,       \* requests, each with an order id and a customer of its own
    Handlers,       \* bound: webhook requests under way at a time
    MaxFaults       \* bound: failed queries and crashes

ASSUME ConstantsAssumption == MaxFaults \in Nat

VARIABLES
    kind,           \* what was asked for, see Kinds
    create,         \* where the request that creates the payment stands
    tx,             \* transactions.status, "none" before the row exists
    order,          \* the gateway's order
    sub,            \* subscriptions.status of the payment's subscription
    period,         \* the webhook has set its currentPeriodEnd
    card,           \* the webhook has stored the customer's nombaToken
    handler,        \* what each webhook request is doing
    owed,           \* payments whose outcome the gateway has not seen answered
    faults          \* faults so far

vars == <<kind, create, tx, order, sub, period, card, handler, owed, faults>>

Kinds ==
    {"onetime",     \* POST /pay: no subscription
     "plan",        \* no trial: the plan's amount is due now
     "cardtrial",   \* trialRequireCard: an order of amount 0 tokenizes the card
     "freetrial",   \* a trial without a card: no order at all
     "cardupdate"}  \* updatePaymentMethod: an order without a transaction

CreateState ==
    {"start",
     "subscribed",  \* subscription row inserted
     "pending",     \* transaction row inserted, order requested
     "ordered",     \* the gateway has answered with a reference and a link
     "caught",      \* in the catch block
     "done",        \* reference saved, link returned to the customer
     "over"}        \* returned without a link, thrown, or died

WebhookState ==
    {"settle",      \* found the transaction pending
     "found",       \* marked it a success; reads the subscription
     "token"}       \* advanced the subscription

Idle == [at |-> "idle"]

TypeOK ==
    /\ kind \in [Payments -> Kinds]
    /\ create \in [Payments -> CreateState]
    /\ tx \in [Payments -> {"none", "pending", "success", "failed"}]
    /\ order \in [Payments -> {"none", "open", "paid", "declined"}]
    /\ sub \in [Payments -> {"none", "trialing", "active", "canceled"}]
    /\ period \in [Payments -> BOOLEAN]
    /\ card \in [Payments -> BOOLEAN]
    /\ handler \in [Handlers -> {Idle} \cup [at : WebhookState, payment : Payments]]
    /\ owed \in SUBSET Payments
    /\ faults \in 0..MaxFaults

Init ==
    /\ kind \in [Payments -> Kinds]
    /\ create = [p \in Payments |-> "start"]
    /\ tx = [p \in Payments |-> "none"]
    /\ order = [p \in Payments |-> "none"]
    /\ sub = [p \in Payments |-> "none"]
    /\ period = [p \in Payments |-> FALSE]
    /\ card = [p \in Payments |-> FALSE]
    /\ handler = [h \in Handlers |-> Idle]
    /\ owed = {}
    /\ faults = 0

----------------------------------------------------------------------------
(* Creating a payment.                                                     *)

CreateGoto(p, from, to) ==
    /\ create[p] = from
    /\ create' = [create EXCEPT ![p] = to]

\* The subscription row: trialing, or active before anything is paid.
Subscribe(p) ==
    /\ kind[p] \in {"plan", "cardtrial", "freetrial"}
    /\ CreateGoto(p, "start", "subscribed")
    /\ sub' = [sub EXCEPT ![p] = IF kind[p] = "plan" THEN "active" ELSE "trialing"]
    /\ UNCHANGED <<kind, tx, order, period, card, handler, owed, faults>>

\* A trial that needs no card ends here.
TrialStarts(p) ==
    /\ kind[p] = "freetrial"
    /\ CreateGoto(p, "subscribed", "over")
    /\ UNCHANGED <<kind, tx, order, sub, period, card, handler, owed, faults>>

InsertTransaction(p) ==
    /\ \/ kind[p] = "onetime" /\ CreateGoto(p, "start", "pending")
       \/ kind[p] \in {"plan", "cardtrial"} /\ CreateGoto(p, "subscribed", "pending")
    /\ tx' = [tx EXCEPT ![p] = "pending"]
    /\ UNCHANGED <<kind, order, sub, period, card, handler, owed, faults>>

\* createCheckoutOrder returns ...
OrderAccepted(p) ==
    /\ CreateGoto(p, "pending", "ordered")
    /\ order' = [order EXCEPT ![p] = "open"]
    /\ UNCHANGED <<kind, tx, sub, period, card, handler, owed, faults>>

\* ... or throws; the gateway may have opened the order all the same.
OrderFails(p) ==
    /\ CreateGoto(p, "pending", "caught")
    /\ \E opened \in {"none", "open"} : order' = [order EXCEPT ![p] = opened]
    /\ UNCHANGED <<kind, tx, sub, period, card, handler, owed, faults>>

\* nombaRef is stored, then the link returned.
SaveReference(p) ==
    /\ CreateGoto(p, "ordered", "done")
    /\ UNCHANGED <<kind, tx, order, sub, period, card, handler, owed, faults>>

\* ... unless the update fails.
SaveFails(p) ==
    /\ faults < MaxFaults
    /\ CreateGoto(p, "ordered", "caught")
    /\ faults' = faults + 1
    /\ UNCHANGED <<kind, tx, order, sub, period, card, handler, owed>>

\* The catch block marks the transaction and throws on.
GiveUp(p) ==
    /\ CreateGoto(p, "caught", "over")
    /\ tx' = [tx EXCEPT ![p] = "failed"]
    /\ UNCHANGED <<kind, order, sub, period, card, handler, owed, faults>>

\* updatePaymentMethod: the link is returned, nothing is written.
CardUpdate(p) ==
    /\ kind[p] = "cardupdate"
    /\ CreateGoto(p, "start", "done")
    /\ order' = [order EXCEPT ![p] = "open"]
    /\ UNCHANGED <<kind, tx, sub, period, card, handler, owed, faults>>

\* Any other query of the request fails: nothing is undone.
CreateFails(p) ==
    /\ faults < MaxFaults
    /\ create[p] \in {"start", "subscribed", "pending", "caught"}
    /\ create' = [create EXCEPT ![p] = "over"]
    /\ faults' = faults + 1
    /\ UNCHANGED <<kind, tx, order, sub, period, card, handler, owed>>

----------------------------------------------------------------------------
(* The gateway, the customer.                                              *)

\* Defect for LedgerKept: the link is out before the reference is saved.
LinkKnown_BeforeReference(p) == create[p] \in {"ordered", "done"}

\* The customer has the link.
LinkKnown(p) == create[p] = "done"

\* The customer pays or is declined: the gateway's verdict on the order.
Decided(p) ==
    /\ LinkKnown(p)
    /\ order[p] = "open"
    /\ \E verdict \in {"paid", "declined"} : order' = [order EXCEPT ![p] = verdict]
    /\ owed' = owed \cup {p}
    /\ UNCHANGED <<kind, create, tx, sub, period, card, handler, faults>>

\* confirmUnsubscribe.
CustomerCancels(p) ==
    /\ sub[p] \in {"trialing", "active"}
    /\ sub' = [sub EXCEPT ![p] = "canceled"]
    /\ UNCHANGED <<kind, create, tx, order, period, card, handler, owed, faults>>

----------------------------------------------------------------------------
(* processNombaEvent.                                                      *)

\* The gateway sends the outcome of p, for the first time or again.
Arrives(h, p) ==
    /\ handler[h] = Idle
    /\ order[p] \in {"paid", "declined"}

\* h has answered 200.
Answer(h, p) ==
    /\ handler' = [handler EXCEPT ![h] = Idle]
    /\ owed' = owed \ {p}

\* A transaction has the event's reference as its nombaRef.
Referenced(p) == create[p] = "done" /\ tx[p] # "none"

\* None has.
Orphaned(h, p) ==
    /\ Arrives(h, p)
    /\ ~Referenced(p)
    /\ Answer(h, p)
    /\ UNCHANGED <<kind, create, tx, order, sub, period, card, faults>>

\* The transaction is settled already.
Deduplicated(h, p) ==
    /\ Arrives(h, p)
    /\ Referenced(p)
    /\ tx[p] \in {"success", "failed"}
    /\ Answer(h, p)
    /\ UNCHANGED <<kind, create, tx, order, sub, period, card, faults>>

\* Defect for OldNewsIgnored: only a failed transaction counts as terminal.
Accepted_Reprocesses(h, p) ==
    /\ Arrives(h, p)
    /\ Referenced(p)
    /\ tx[p] # "failed"
    /\ handler' = [handler EXCEPT ![h] = [at |-> "settle", payment |-> p]]
    /\ UNCHANGED <<kind, create, tx, order, sub, period, card, owed, faults>>

\* Defect for PaidIsSettled: the event is answered before it is processed.
Accepted_AnswersFirst(h, p) ==
    /\ Arrives(h, p)
    /\ Referenced(p)
    /\ tx[p] = "pending"
    /\ handler' = [handler EXCEPT ![h] = [at |-> "settle", payment |-> p]]
    /\ owed' = owed \ {p}
    /\ UNCHANGED <<kind, create, tx, order, sub, period, card, faults>>

\* The transaction is pending.
Accepted(h, p) ==
    /\ Arrives(h, p)
    /\ Referenced(p)
    /\ tx[p] = "pending"
    /\ handler' = [handler EXCEPT ![h] = [at |-> "settle", payment |-> p]]
    /\ UNCHANGED <<kind, create, tx, order, sub, period, card, owed, faults>>

WebhookGoto(h, from, to, p) ==
    /\ handler[h] = [at |-> from, payment |-> p]
    /\ handler' = [handler EXCEPT ![h] = [at |-> to, payment |-> p]]
    /\ UNCHANGED owed

WebhookEnds(h, from, p) ==
    /\ handler[h] = [at |-> from, payment |-> p]
    /\ Answer(h, p)

\* Defect for SettledIsGranted: returns after the first update.
SettleSuccess_ReturnsEarly(h, p) ==
    /\ order[p] = "paid"
    /\ WebhookEnds(h, "settle", p)
    /\ tx' = [tx EXCEPT ![p] = "success"]
    /\ UNCHANGED <<kind, create, order, sub, period, card, faults>>

\* payment_success: the status goes first; whether it still is pending is not
\* asked again.
SettleSuccess(h, p) ==
    /\ order[p] = "paid"
    /\ IF kind[p] = "onetime" THEN WebhookEnds(h, "settle", p)
                              ELSE WebhookGoto(h, "settle", "found", p)
    /\ tx' = [tx EXCEPT ![p] = "success"]
    /\ UNCHANGED <<kind, create, order, sub, period, card, faults>>

\* payment_failed: the rest of the handler only notifies.
SettleFailed(h, p) ==
    /\ order[p] = "declined"
    /\ WebhookEnds(h, "settle", p)
    /\ tx' = [tx EXCEPT ![p] = "failed"]
    /\ UNCHANGED <<kind, create, order, sub, period, card, faults>>

\* advanceSubscription: active with a period, whatever it was.
Advance(h, p) ==
    /\ WebhookGoto(h, "found", "token", p)
    /\ sub' = [sub EXCEPT ![p] = "active"]
    /\ period' = [period EXCEPT ![p] = TRUE]
    /\ UNCHANGED <<kind, create, tx, order, card, faults>>

\* The card token, which the order asked for (tokenizeCard); notifications
\* follow that change nothing here.
StoreToken(h, p) ==
    /\ WebhookEnds(h, "token", p)
    /\ card' = [card EXCEPT ![p] = TRUE]
    /\ UNCHANGED <<kind, create, tx, order, sub, period, faults>>

\* A query of h fails: 500, and the gateway will send the event again.
WebhookFails(h) ==
    /\ faults < MaxFaults
    /\ handler[h] # Idle
    /\ handler' = [handler EXCEPT ![h] = Idle]
    /\ faults' = faults + 1
    /\ UNCHANGED <<kind, create, tx, order, sub, period, card, owed>>

\* The process dies, with every request under way.
Crash ==
    /\ faults < MaxFaults
    /\ handler' = [h \in Handlers |-> Idle]
    /\ create' = [p \in Payments |->
        IF create[p] \in {"start", "done"} THEN create[p] ELSE "over"]
    /\ faults' = faults + 1
    /\ UNCHANGED <<kind, tx, order, sub, period, card, owed>>

----------------------------------------------------------------------------
CreateStep(p) ==
    \/ Subscribe(p) \/ TrialStarts(p) \/ InsertTransaction(p)
    \/ OrderAccepted(p) \/ OrderFails(p) \/ SaveReference(p) \/ GiveUp(p)
    \/ CardUpdate(p)

Delivered(h, p) == Orphaned(h, p) \/ Deduplicated(h, p) \/ Accepted(h, p)

WebhookStep(h) ==
    \E p \in Payments :
        \/ SettleSuccess(h, p) \/ SettleFailed(h, p)
        \/ Advance(h, p) \/ StoreToken(h, p)

Next ==
    \/ \E p \in Payments :
        \/ CreateStep(p) \/ SaveFails(p) \/ CreateFails(p)
        \/ Decided(p) \/ CustomerCancels(p)
        \/ \E h \in Handlers : Delivered(h, p)
    \/ \E h \in Handlers : WebhookStep(h) \/ WebhookFails(h)
    \/ Crash

\* A request makes progress; the gateway repeats what was not answered.
Fairness ==
    /\ \A h \in Handlers : WF_vars(WebhookStep(h))
    /\ \A p \in Payments :
        SF_vars(p \in owed /\ \E h \in Handlers : Delivered(h, p))

Spec == Init /\ [][Next]_vars /\ Fairness

----------------------------------------------------------------------------
(* Properties.                                                             *)

AtWork(p) == \E h \in Handlers : handler[h] # Idle /\ handler[h].payment = p

\* The books as an abstract ledger sees them.
Books == [p \in Payments |-> IF tx[p] \in {"success", "failed"} THEN tx[p] ELSE "open"]

Verdicts == [p \in Payments |-> IF order[p] = "open" THEN "none" ELSE order[p]]

Ledger == INSTANCE PaymentLedger
          WITH outcome <- Verdicts, ledger <- Books, granted <- period

\* Whatever is repeated, overlapped, lost or cut short, a payment is settled
\* once and the way the gateway decided, and only a success grants a period.
LedgerKept == Ledger!Spec

\* A payment the gateway took ends up a success in the books, even if the
\* webhook fails or the process dies in between.
PaidIsSettled ==
    \A p \in Payments :
        order[p] = "paid" /\ kind[p] # "cardupdate" ~> tx[p] = "success"

\* Unless a query failed or the process died, a settled payment of a
\* subscription has granted its period and stored its card, however its
\* announcements overlap.
SettledIsGranted ==
    \A p \in Payments :
        /\ faults = 0
        /\ tx[p] = "success"
        /\ kind[p] # "onetime"
        /\ ~AtWork(p)
        => period[p] /\ card[p]

\* A canceled subscription whose payment is settled and answered.
Closed(p) ==
    /\ sub[p] = "canceled"
    /\ tx[p] \in {"success", "failed"}
    /\ ~AtWork(p)

\* No repetition of the event brings it back or is worked on again.
OldNewsIgnored == [][\A p \in Payments : Closed(p) => Closed(p)']_vars

=============================================================================
