-------------------------- MODULE MCNotifications --------------------------
(* Instance of Notifications for model checking.                           *)
EXTENDS Notifications

ASSUME InstanceAssumption == Merchants # {} /\ Events # {} /\ MaxCrashes > 0
=============================================================================
