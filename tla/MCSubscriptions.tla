-------------------------- MODULE MCSubscriptions --------------------------
(* Instance of Subscriptions for model checking.                           *)
EXTENDS Subscriptions, TLC

Symmetry == Permutations(Workers) \cup Permutations(Customers)
=============================================================================
