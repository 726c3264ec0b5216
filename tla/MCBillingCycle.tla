-------------------------- MODULE MCBillingCycle --------------------------
(* Instance of BillingCycle for model checking.                            *)
EXTENDS BillingCycle

ASSUME InstanceAssumption == Ticks # {} /\ MaxJobs > 0
=============================================================================
