---------------------------- MODULE MCCheckout ----------------------------
(* Instance of Checkout for model checking.                                *)
EXTENDS Checkout

ASSUME InstanceAssumption == Payments # {} /\ Handlers # {}
=============================================================================
