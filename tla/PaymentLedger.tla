--------------------------- MODULE PaymentLedger ---------------------------
(***************************************************************************)
(* What the books promise about a hosted payment, whatever happens between *)
(* Lemni and the gateway: it is settled once, the way the gateway decided, *)
(* and only a settled success grants a billing period.                     *)
(***************************************************************************)
CONSTANT Payments

VARIABLES
    outcome,        \* what the gateway decided: "none", "paid" or "declined"
    ledger,         \* what the books say: "open", "success" or "failed"
    granted         \* a billing period was granted for the payment

vars == <<outcome, ledger, granted>>

Init ==
    /\ outcome = [p \in Payments |-> "none"]
    /\ ledger = [p \in Payments |-> "open"]
    /\ granted = [p \in Payments |-> FALSE]

\* The gateway decides, once, and never on a payment the books have closed.
Decide(p, verdict) ==
    /\ outcome[p] = "none"
    /\ ledger[p] = "open"
    /\ outcome' = [outcome EXCEPT ![p] = verdict]
    /\ UNCHANGED <<ledger, granted>>

\* The books follow the gateway.
Settle(p) ==
    /\ ledger[p] = "open"
    /\ \/ /\ outcome[p] = "paid"
          /\ ledger' = [ledger EXCEPT ![p] = "success"]
       \/ /\ outcome[p] = "declined"
          /\ ledger' = [ledger EXCEPT ![p] = "failed"]
    /\ UNCHANGED <<outcome, granted>>

\* A payment nobody can make any more.
Abandon(p) ==
    /\ ledger[p] = "open"
    /\ outcome[p] = "none"
    /\ ledger' = [ledger EXCEPT ![p] = "failed"]
    /\ UNCHANGED <<outcome, granted>>

Grant(p) ==
    /\ ledger[p] = "success"
    /\ granted' = [granted EXCEPT ![p] = TRUE]
    /\ UNCHANGED <<outcome, ledger>>

Next ==
    \E p \in Payments :
        \/ \E verdict \in {"paid", "declined"} : Decide(p, verdict)
        \/ Settle(p)
        \/ Abandon(p)
        \/ Grant(p)

Spec == Init /\ [][Next]_vars
=============================================================================
