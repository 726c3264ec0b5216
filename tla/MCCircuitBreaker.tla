------------------------- MODULE MCCircuitBreaker -------------------------
(* Instance of CircuitBreaker for model checking: one caller of each kind   *)
(* and the code's threshold of three.  Two more failures than the threshold *)
(* are counted apart, so that counting while OPEN is exercised.             *)
EXTENDS CircuitBreaker

\* Every kind of caller can have a call in flight when the breaker opens.
ASSUME InstanceAssumption ==
    /\ ChargeSlots # {} /\ DunningSlots # {} /\ CheckoutCalls # {}
    /\ MaxCount > FailureThreshold
=============================================================================
