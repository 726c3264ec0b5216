----------------------- MODULE SubscriptionLifecycle -----------------------
(***************************************************************************)
(* What the status of a subscription promises, whoever writes the row: it  *)
(* changes only under the hands of somebody who took the subscription up   *)
(* while it was live, or because its merchant or its customer asked for    *)
(* it.  A subscription canceled with nothing under way stays canceled      *)
(* until somebody asks.                                                    *)
(***************************************************************************)
EXTENDS Naturals

CONSTANT Subs

VARIABLES
    status,         \* "none" before the row exists, "deleted" after
    busy,           \* subscriptions somebody has taken up and may write
    asks            \* how often merchant or customer asked for it to go on

vars == <<status, busy, asks>>

Live == {"trialing", "active", "past_due"}
Stored == Live \cup {"canceled"}

Init ==
    /\ status = [s \in Subs |-> "none"]
    /\ busy = {}
    /\ asks = [s \in Subs |-> 0]

Start(s) ==
    /\ status[s] = "none"
    /\ \E first \in {"trialing", "active"} : status' = [status EXCEPT ![s] = first]
    /\ UNCHANGED <<busy, asks>>

\* The scheduler, or a customer who wants to leave, takes up what is live.
TakeUp(s) ==
    /\ status[s] \in Live
    /\ busy' = busy \cup {s}
    /\ UNCHANGED <<status, asks>>

\* A reactivation, a replay or a payment takes up anything.
Ask(s) ==
    /\ status[s] # "none"
    /\ busy' = busy \cup {s}
    /\ asks' = [asks EXCEPT ![s] = @ + 1]
    /\ UNCHANGED status

Write(s) ==
    /\ s \in busy
    /\ status[s] \in Stored
    /\ \E next \in Stored : status' = [status EXCEPT ![s] = next]
    /\ busy' \in {busy, busy \ {s}}
    /\ UNCHANGED asks

PutDown(s) ==
    /\ busy' = busy \ {s}
    /\ UNCHANGED <<status, asks>>

\* The plan is deleted, and its subscriptions with it.
Delete(gone) ==
    /\ \A s \in gone : status[s] \in Stored
    /\ status' = [s \in Subs |-> IF s \in gone THEN "deleted" ELSE status[s]]
    /\ UNCHANGED <<busy, asks>>

Next ==
    \/ \E s \in Subs : Start(s) \/ TakeUp(s) \/ Ask(s) \/ Write(s) \/ PutDown(s)
    \/ \E gone \in SUBSET Subs : Delete(gone)

Spec == Init /\ [][Next]_vars
=============================================================================
