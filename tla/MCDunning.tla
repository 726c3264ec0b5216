----------------------------- MODULE MCDunning -----------------------------
(* Instance of Dunning for model checking.  Subscriptions share nothing but *)
(* the breaker, so one shows all that several would; a second slot lets two *)
(* charge jobs of the subscription overlap.                                 *)
EXTENDS Dunning

ASSUME InstanceAssumption == Subs # {} /\ Slots # {} /\ MaxDlq > 0

\* Bound: what follows a crash meets no outage.  (The proofs have both.)
OutageBeforeCrash == open => crashes = 0

\* Bound: the terms change when nobody with a card has a checkout to pay.
NoCheckoutWhenTermsChange == \A s \in Subs : changes = 0 \/ ~checkout[s] \/ ~card[s]
=============================================================================
