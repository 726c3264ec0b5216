----------------------- MODULE CircuitBreakerProofs -----------------------
(***************************************************************************)
(* Theorems about CircuitBreaker, for any number of workers and checkout   *)
(* calls and any threshold.                                                *)
(***************************************************************************)
EXTENDS CircuitBreaker, TLAPS

\* The helper Bump stays within its bound, never moves down, and leaves a
\* number below the bound one higher.
LEMMA BumpType ==
    ASSUME NEW top \in Nat, NEW n \in 0..top
    PROVE  /\ Bump(n, top) \in 0..top
           /\ Bump(n, top) >= n
           /\ n < top => Bump(n, top) = n + 1
  BY DEF Bump

\* What recordFailure leaves, from any consistent breaker: the counter moved
\* up by one within its bound, and the state still agrees with it.
LEMMA RecordFailureEffect ==
    ASSUME TypeOK, BreakerMatchesCount, RecordFailure
    PROVE  /\ state' \in {"CLOSED", "OPEN", "HALF_OPEN"}
           /\ failureCount' \in 0..MaxCount
           /\ cooled' \in BOOLEAN
           /\ state' = "CLOSED" <=> failureCount' < FailureThreshold
           /\ failureCount' = Bump(failureCount, MaxCount)
  <1>1. MaxCount \in Nat /\ FailureThreshold \in Nat \ {0} /\ MaxCount >= FailureThreshold
    BY ConstantsAssumption
  <1>2. failureCount \in 0..MaxCount
    BY DEF TypeOK
  <1>3. /\ Bump(failureCount, MaxCount) \in 0..MaxCount
        /\ Bump(failureCount, MaxCount) >= failureCount
    BY <1>1, <1>2, BumpType
  <1>4. failureCount' = Bump(failureCount, MaxCount)
    BY DEF RecordFailure
  <1>5. state' \in {"CLOSED", "OPEN", "HALF_OPEN"} /\ cooled' \in BOOLEAN
    BY DEF RecordFailure, TypeOK
  <1>6. CASE state = "CLOSED"
    <2>1. state' = "CLOSED" <=> ~(Bump(failureCount, MaxCount) >= FailureThreshold)
      BY <1>6 DEF RecordFailure
    <2>2. QED
      BY <1>1, <1>3, <1>4, <1>5, <2>1
  <1>7. CASE state # "CLOSED"
    <2>1. failureCount >= FailureThreshold
      BY <1>1, <1>2, <1>7 DEF BreakerMatchesCount
    <2>2. state' # "CLOSED"
      BY <1>7 DEF RecordFailure
    <2>3. QED
      BY <1>1, <1>2, <1>3, <1>4, <1>5, <2>1, <2>2
  <1>8. QED
    BY <1>6, <1>7

----------------------------------------------------------------------------
\* The inductive invariant.  FaultsTrip is not inductive by itself: a fault
\* reported while CLOSED must be known to be in the counter too, so the
\* strengthening is that the history of faults never exceeds the counter,
\* as far as the threshold.
FaultsCounted == faults <= failureCount

IInv ==
    /\ TypeOK
    /\ BreakerMatchesCount
    /\ FaultsCounted

\* FaultsTrip follows from the inductive invariant: the faults are in the
\* counter, and the counter decides the state.
LEMMA IInvImpliesFaultsTrip == IInv => FaultsTrip
  BY ConstantsAssumption
  DEF IInv, TypeOK, BreakerMatchesCount, FaultsCounted, FaultsTrip

\* A newly started process satisfies the inductive invariant.
LEMMA InitIInv == Init => IInv
  <1> SUFFICES ASSUME Init PROVE IInv
    OBVIOUS
  <1>1. pc \in [Calls -> CallState]
    BY DEF Init, CallState
  <1>2. TypeOK
    <2>1. cooled \in BOOLEAN
      BY DEF Init
    <2>2. /\ state = "CLOSED" /\ failureCount = 0
          /\ paused \in BOOLEAN /\ cron = "idle"
          /\ gateway \in {"up", "down"} /\ faults = 0
      BY DEF Init
    <2>3. QED
      BY <1>1, <2>1, <2>2, ConstantsAssumption DEF TypeOK
  <1>3. BreakerMatchesCount /\ FaultsCounted
    BY ConstantsAssumption DEF Init, BreakerMatchesCount, FaultsCounted
  <1>4. QED
    BY <1>2, <1>3 DEF IInv

\* Moving one call keeps the program counters well typed.
LEMMA GotoType ==
    ASSUME TypeOK, NEW c \in Calls, NEW place \in CallState, Goto(c, place)
    PROVE  pc' \in [Calls -> CallState]
  BY DEF TypeOK, Goto

\* So does throwing out of executeRequest.
LEMMA ThrowType ==
    ASSUME TypeOK, NEW c \in Calls, Throw(c)
    PROVE  pc' \in [Calls -> CallState]
  <1>1. (IF c \in Workers THEN "failed" ELSE "idle") \in CallState
    BY DEF CallState
  <1>2. QED
    BY <1>1, GotoType DEF Throw

\* The part of the invariant about the breaker and the history: what every
\* step must re-establish, whatever it does to the calls.
BreakerPart ==
    /\ state \in {"CLOSED", "OPEN", "HALF_OPEN"}
    /\ failureCount \in 0..MaxCount
    /\ cooled \in BOOLEAN
    /\ faults \in 0..FailureThreshold
    /\ BreakerMatchesCount
    /\ FaultsCounted

\* getState, or no breaker call at all, keeps the breaker's part: OPEN and
\* HALF_OPEN stand for the same counts.
LEMMA GetStateKeeps ==
    ASSUME IInv, GetState \/ UNCHANGED breaker, UNCHANGED faults
    PROVE  BreakerPart'
  BY DEF IInv, TypeOK, GetState, breaker, BreakerMatchesCount,
         FaultsCounted, BreakerPart

\* recordSuccess keeps it: everything is back to nought.
LEMMA RecordSuccessKeeps ==
    ASSUME RecordSuccess, Forget
    PROVE  BreakerPart'
  <1>1. cooled' \in BOOLEAN
    BY DEF Forget, RecordSuccess
  <1>2. state' = "CLOSED" /\ failureCount' = 0 /\ faults' = 0
    BY DEF Forget, RecordSuccess
  <1>3. QED
    BY <1>1, <1>2, ConstantsAssumption
    DEF BreakerMatchesCount, FaultsCounted, BreakerPart

\* recordFailure keeps it, whether the failure is a fault of the gateway,
\* counted in the history as well, or only the worker's second report.
LEMMA RecordFailureKeeps ==
    ASSUME IInv, RecordFailure,
           faults' = Bump(faults, FailureThreshold) \/ faults' = faults
    PROVE  BreakerPart'
  <1>1. /\ MaxCount \in Nat
        /\ FailureThreshold \in Nat \ {0}
        /\ MaxCount >= FailureThreshold
    BY ConstantsAssumption
  <1>2. /\ failureCount \in 0..MaxCount
        /\ faults \in 0..FailureThreshold
        /\ faults <= failureCount
    BY DEF IInv, TypeOK, FaultsCounted
  <1>3. /\ state' \in {"CLOSED", "OPEN", "HALF_OPEN"}
        /\ failureCount' \in 0..MaxCount
        /\ cooled' \in BOOLEAN
        /\ state' = "CLOSED" <=> failureCount' < FailureThreshold
        /\ failureCount' = Bump(failureCount, MaxCount)
    BY RecordFailureEffect DEF IInv
  <1>4. faults' \in 0..FailureThreshold
    BY <1>1, <1>2, BumpType
  <1>5. faults' <= failureCount'
    <2>1. CASE failureCount < MaxCount
      <3>1. failureCount' = failureCount + 1
        BY <1>3, <2>1 DEF Bump
      <3>2. faults' <= faults + 1
        BY <1>1, <1>2 DEF Bump
      <3>3. QED
        BY <1>2, <1>4, <3>1, <3>2
    <2>2. CASE ~(failureCount < MaxCount)
      <3>1. failureCount' = MaxCount
        BY <1>1, <1>2, <1>3, <2>2 DEF Bump
      <3>2. QED
        BY <1>1, <1>4, <3>1
    <2>3. QED
      BY <2>1, <2>2
  <1>6. BreakerMatchesCount' /\ FaultsCounted'
    BY <1>3, <1>5 DEF BreakerMatchesCount, FaultsCounted
  <1>7. QED
    BY <1>2, <1>3, <1>4, <1>6 DEF BreakerPart

----------------------------------------------------------------------------
\* Every step keeps the inductive invariant.
LEMMA NextIInv == IInv /\ [Next]_vars => IInv'
  <1> SUFFICES ASSUME IInv, [Next]_vars
               PROVE  IInv'
    OBVIOUS
  <1>1. TypeOK
    BY DEF IInv
  <1>2. ASSUME BreakerPart',
               pc' \in [Calls -> CallState],
               paused' \in BOOLEAN,
               cron' \in {"idle", "sawOpen", "sawHealthy"},
               gateway' \in {"up", "down"}
        PROVE  IInv'
    BY <1>2 DEF IInv, TypeOK, BreakerPart
  <1>3. ASSUME NEW w \in ChargeSlots, StartCharge(w)
        PROVE  IInv'
    <2>1. w \in Calls
      BY DEF Calls, Workers
    <2>2. pc' \in [Calls -> CallState]
      BY <1>1, <1>3, <2>1, GotoType DEF StartCharge, CallState
    <2>3. BreakerPart'
      BY <1>3, GetStateKeeps DEF StartCharge
    <2>4. QED
      BY <1>1, <1>2, <1>3, <2>2, <2>3 DEF StartCharge, TypeOK
  <1>4. ASSUME NEW w \in DunningSlots, StartDunning(w)
        PROVE  IInv'
    <2>1. w \in Calls
      BY DEF Calls, Workers
    <2>2. pc' \in [Calls -> CallState]
      BY <1>1, <1>4, <2>1, GotoType DEF StartDunning, CallState
    <2>3. BreakerPart'
      BY <1>4, GetStateKeeps DEF StartDunning
    <2>4. QED
      BY <1>1, <1>2, <1>4, <2>2, <2>3 DEF StartDunning, TypeOK
  <1>5. ASSUME NEW w \in DunningSlots, DunningGivesUp(w)
        PROVE  IInv'
    <2>1. w \in Calls
      BY DEF Calls, Workers
    <2>2. pc' \in [Calls -> CallState]
      BY <1>1, <1>5, <2>1, GotoType DEF DunningGivesUp, CallState
    <2>3. BreakerPart'
      BY <1>5, GetStateKeeps DEF DunningGivesUp
    <2>4. QED
      BY <1>1, <1>2, <1>5, <2>2, <2>3 DEF DunningGivesUp, TypeOK
  <1>6. ASSUME NEW w \in DunningSlots, DunningCalls(w)
        PROVE  IInv'
    <2>1. w \in Calls
      BY DEF Calls, Workers
    <2>2. pc' \in [Calls -> CallState]
      <3>1. CASE IsOpen
        BY <1>1, <1>6, <2>1, <3>1, ThrowType DEF DunningCalls
      <3>2. CASE ~IsOpen
        BY <1>1, <1>6, <2>1, <3>2, GotoType DEF DunningCalls, CallState
      <3>3. QED
        BY <3>1, <3>2
    <2>3. BreakerPart'
      BY <1>6, GetStateKeeps DEF DunningCalls
    <2>4. QED
      BY <1>1, <1>2, <1>6, <2>2, <2>3 DEF DunningCalls, TypeOK
  <1>7. ASSUME NEW c \in CheckoutCalls, StartCheckout(c)
        PROVE  IInv'
    <2>1. c \in Calls
      BY DEF Calls
    <2>2. pc' \in [Calls -> CallState]
      BY <1>1, <1>7, <2>1, GotoType DEF StartCheckout, CallState
    <2>3. BreakerPart'
      BY <1>7, GetStateKeeps DEF StartCheckout
    <2>4. QED
      BY <1>1, <1>2, <1>7, <2>2, <2>3 DEF StartCheckout, TypeOK
  <1>8. ASSUME NEW c \in Calls, CallStep(c)
        PROVE  IInv'
    <2>1. CASE TokenIssued(c)
      <3>1. pc' \in [Calls -> CallState]
        BY <1>1, <2>1, GotoType DEF TokenIssued, CallState
      <3>2. BreakerPart'
        BY <2>1, GetStateKeeps DEF TokenIssued
      <3>3. QED
        BY <1>1, <1>2, <2>1, <3>1, <3>2 DEF TokenIssued, TypeOK
    <2>2. CASE TokenRefused(c)
      <3>1. pc' \in [Calls -> CallState]
        BY <1>1, <2>2, ThrowType DEF TokenRefused
      <3>2. BreakerPart'
        BY <2>2, GetStateKeeps DEF TokenRefused
      <3>3. QED
        BY <1>1, <1>2, <2>2, <3>1, <3>2 DEF TokenRefused, TypeOK
    <2>3. CASE ResponseOk(c)
      <3>1. (IF c \in Workers THEN "succeeded" ELSE "idle") \in CallState
        BY DEF CallState
      <3>2. pc' \in [Calls -> CallState]
        BY <1>1, <2>3, <3>1, GotoType DEF ResponseOk
      <3>3. BreakerPart'
        BY <2>3, RecordSuccessKeeps DEF ResponseOk
      <3>4. QED
        BY <1>1, <1>2, <2>3, <3>2, <3>3 DEF ResponseOk, TypeOK
    <2>4. CASE ResponseDeclined(c)
      <3>1. pc' \in [Calls -> CallState]
        BY <1>1, <2>4, ThrowType DEF ResponseDeclined
      <3>2. BreakerPart'
        BY <2>4, GetStateKeeps DEF ResponseDeclined
      <3>3. QED
        BY <1>1, <1>2, <2>4, <3>1, <3>2 DEF ResponseDeclined, TypeOK
    <2>5. CASE ResponseFault(c)
      <3>1. pc' \in [Calls -> CallState]
        BY <1>1, <2>5, ThrowType DEF ResponseFault
      <3>2. BreakerPart'
        BY <2>5, RecordFailureKeeps DEF ResponseFault
      <3>3. QED
        BY <1>1, <1>2, <2>5, <3>1, <3>2 DEF ResponseFault, TypeOK
    <2>6. QED
      BY <1>8, <2>1, <2>2, <2>3, <2>4, <2>5 DEF CallStep
  <1>9. ASSUME NEW w \in Workers, WorkerStep(w)
        PROVE  IInv'
    <2>1. w \in Calls
      BY DEF Calls
    <2>2. CASE WorkerReportsSuccess(w)
      <3>1. pc' \in [Calls -> CallState]
        BY <1>1, <2>1, <2>2, GotoType DEF WorkerReportsSuccess, CallState
      <3>2. BreakerPart'
        BY <2>2, RecordSuccessKeeps DEF WorkerReportsSuccess
      <3>3. QED
        BY <1>1, <1>2, <2>2, <3>1, <3>2 DEF WorkerReportsSuccess, TypeOK
    <2>3. CASE WorkerReportsFailure(w)
      <3>1. pc' \in [Calls -> CallState]
        BY <1>1, <2>1, <2>3, GotoType DEF WorkerReportsFailure, CallState
      <3>2. BreakerPart'
        BY <2>3, RecordFailureKeeps DEF WorkerReportsFailure
      <3>3. QED
        BY <1>1, <1>2, <2>3, <3>1, <3>2 DEF WorkerReportsFailure, TypeOK
    <2>4. QED
      BY <1>9, <2>2, <2>3 DEF WorkerStep
  <1>10. CASE CooldownElapses
    BY <1>10 DEF CooldownElapses, IInv, TypeOK, BreakerMatchesCount,
                 FaultsCounted
  <1>11. CASE CronReads
    <2>1. BreakerPart'
      BY <1>11, GetStateKeeps DEF CronReads
    <2>2. QED
      BY <1>1, <1>2, <1>11, <2>1 DEF CronReads, TypeOK
  <1>12. CASE CronActs
    <2>1. BreakerPart'
      BY <1>12, GetStateKeeps DEF CronActs
    <2>2. paused' \in BOOLEAN
      BY <1>12 DEF CronActs
    <2>3. QED
      BY <1>1, <1>2, <1>12, <2>1, <2>2 DEF CronActs, TypeOK
  <1>13. CASE GatewayChanges
    BY <1>13 DEF GatewayChanges, breaker, IInv, TypeOK,
                 BreakerMatchesCount, FaultsCounted
  <1>14. CASE Restart
    <2>1. BreakerPart'
      BY <1>14, RecordSuccessKeeps DEF Restart, RecordSuccess
    <2>2. pc' \in [Calls -> CallState]
      BY <1>14 DEF Restart, CallState
    <2>3. QED
      BY <1>1, <1>2, <1>14, <2>1, <2>2 DEF Restart, TypeOK
  <1>15. CASE UNCHANGED vars
    BY <1>15 DEF vars, IInv, TypeOK, BreakerMatchesCount, FaultsCounted
  <1>16. QED
    BY <1>3, <1>4, <1>5, <1>6, <1>7, <1>8, <1>9, <1>10, <1>11, <1>12, <1>13,
       <1>14, <1>15 DEF Next

----------------------------------------------------------------------------
\* The inductive invariant holds in every reachable state: the types, and the
\* counter that bounds the history of faults.
THEOREM InductiveInvariant == Spec => []IInv
  BY InitIInv, NextIInv, PTL DEF Spec

\* Every reachable state of the breaker and of its callers is well typed.
THEOREM TypeCorrect == Spec => []TypeOK
  <1>1. IInv => TypeOK
    BY DEF IInv
  <1>2. QED
    BY <1>1, InductiveInvariant, PTL

\* The breaker's state and its counter agree in every reachable state, for
\* any threshold and any number of callers.
THEOREM BreakerConsistent == Spec => []BreakerMatchesCount
  <1>1. IInv => BreakerMatchesCount
    BY DEF IInv
  <1>2. QED
    BY <1>1, InductiveInvariant, PTL

\* failureThreshold requests failed by the gateway with no success reported
\* between them always leave the breaker OPEN or HALF_OPEN.
THEOREM GatewayFaultsTrip == Spec => []FaultsTrip
  <1>1. QED
    BY IInvImpliesFaultsTrip, InductiveInvariant, PTL

----------------------------------------------------------------------------
\* One step while the breaker stays OPEN admits no call: every admission asks
\* getState first, and would have been refused or have left OPEN.
LEMMA OpenDrainsStep ==
    ASSUME [Next]_vars, TypeOK, state = "OPEN", state' = "OPEN"
    PROVE  Admitted' \subseteq Admitted
  <1>1. ASSUME NEW c \in Calls, NEW place \in CallState, Goto(c, place),
               place \notin {"token", "sent"} \/ c \in Admitted
        PROVE  Admitted' \subseteq Admitted
    BY <1>1 DEF Goto, Admitted, TypeOK
  <1>2. ASSUME GetState PROVE IsOpen
    BY <1>2 DEF GetState, IsOpen
  <1>3. ASSUME NEW c \in Calls, Throw(c)
        PROVE  Admitted' \subseteq Admitted
    <2>1. (IF c \in Workers THEN "failed" ELSE "idle") \in CallState \ {"token", "sent"}
      BY DEF CallState
    <2>2. QED
      BY <1>1, <1>3, <2>1 DEF Throw
  <1>4. ASSUME UNCHANGED pc
        PROVE  Admitted' \subseteq Admitted
    BY <1>4 DEF Admitted
  <1>5. ASSUME NEW w \in ChargeSlots, StartCharge(w)
        PROVE  FALSE
    BY <1>2, <1>5 DEF StartCharge
  <1>6. ASSUME NEW w \in DunningSlots,
               StartDunning(w) \/ DunningGivesUp(w) \/ DunningCalls(w)
        PROVE  Admitted' \subseteq Admitted
    <2>1. w \in Calls
      BY DEF Calls, Workers
    <2>2. CASE StartDunning(w)
      BY <1>2, <2>2 DEF StartDunning
    <2>3. CASE DunningGivesUp(w)
      BY <1>1, <2>1, <2>3 DEF DunningGivesUp, CallState
    <2>4. CASE DunningCalls(w)
      BY <1>2, <1>3, <2>1, <2>4 DEF DunningCalls
    <2>5. QED
      BY <1>6, <2>2, <2>3, <2>4
  <1>7. ASSUME NEW c \in CheckoutCalls, StartCheckout(c)
        PROVE  FALSE
    BY <1>2, <1>7 DEF StartCheckout
  <1>8. ASSUME NEW c \in Calls, CallStep(c)
        PROVE  Admitted' \subseteq Admitted
    <2>1. CASE TokenIssued(c)
      <3>1. c \in Admitted
        BY <2>1 DEF TokenIssued, Admitted
      <3>2. QED
        BY <1>1, <2>1, <3>1 DEF TokenIssued, CallState
    <2>2. CASE TokenRefused(c) \/ ResponseDeclined(c) \/ ResponseFault(c)
      BY <1>3, <2>2 DEF TokenRefused, ResponseDeclined, ResponseFault
    <2>3. CASE ResponseOk(c)
      BY <2>3 DEF ResponseOk, RecordSuccess
    <2>4. QED
      BY <1>8, <2>1, <2>2, <2>3 DEF CallStep
  <1>9. ASSUME NEW w \in Workers, WorkerStep(w)
        PROVE  Admitted' \subseteq Admitted
    <2>1. w \in Calls
      BY DEF Calls
    <2>2. CASE WorkerReportsSuccess(w)
      BY <2>2 DEF WorkerReportsSuccess, RecordSuccess
    <2>3. CASE WorkerReportsFailure(w)
      BY <1>1, <2>1, <2>3 DEF WorkerReportsFailure, CallState
    <2>4. QED
      BY <1>9, <2>2, <2>3 DEF WorkerStep
  <1>10. CASE CooldownElapses \/ CronReads \/ CronActs \/ GatewayChanges \/ UNCHANGED vars
    BY <1>4, <1>10 DEF CooldownElapses, CronReads, CronActs, GatewayChanges, vars
  <1>11. CASE Restart
    BY <1>11 DEF Restart
  <1>12. QED
    BY <1>5, <1>6, <1>7, <1>8, <1>9, <1>10, <1>11 DEF Next

\* While the breaker stays OPEN no call is admitted to the gateway: for any
\* number of callers, the calls in flight only drain.
THEOREM OpenOnlyDrains == Spec => OpenDrains
  <1>1. TypeOK /\ [Next]_vars
        => [state = "OPEN" /\ state' = "OPEN" => Admitted' \subseteq Admitted]_vars
    BY OpenDrainsStep
  <1>2. QED
    BY <1>1, TypeCorrect, PTL DEF Spec, OpenDrains

----------------------------------------------------------------------------
(* Recovery is final.                                                      *)

\* The breaker lets calls through, and the queue runs with no pause to come.
Recovered == state # "OPEN" /\ cron # "sawOpen" /\ ~paused

LEMMA RecoveredStep ==
    ASSUME [Next]_vars, TypeOK, Quiet, Recovered
    PROVE  Recovered'
  <1>1. ASSUME GetState
        PROVE  state' # "OPEN" /\ ~IsOpen
    BY <1>1 DEF GetState, Recovered, IsOpen
  <1>2. ASSUME NEW w \in ChargeSlots, StartCharge(w)
        PROVE  Recovered'
    BY <1>1, <1>2 DEF StartCharge, Recovered
  <1>3. ASSUME NEW w \in DunningSlots,
               StartDunning(w) \/ DunningGivesUp(w) \/ DunningCalls(w)
        PROVE  Recovered'
    BY <1>1, <1>3 DEF StartDunning, DunningGivesUp, DunningCalls, Recovered, breaker
  <1>4. ASSUME NEW c \in CheckoutCalls, StartCheckout(c)
        PROVE  Recovered'
    BY <1>1, <1>4 DEF StartCheckout, Recovered
  <1>5. ASSUME NEW c \in Calls, CallStep(c)
        PROVE  Recovered'
    <2>1. ~ResponseFault(c)
      BY DEF ResponseFault, Quiet
    <2>2. QED
      BY <1>5, <2>1 DEF CallStep, TokenIssued, TokenRefused, ResponseOk, ResponseDeclined,
         RecordSuccess, Recovered, breaker
  <1>6. ASSUME NEW w \in Workers, WorkerStep(w)
        PROVE  Recovered'
    <2>1. ~WorkerReportsFailure(w)
      BY DEF WorkerReportsFailure, Quiet, Calls
    <2>2. QED
      BY <1>6, <2>1 DEF WorkerStep, WorkerReportsSuccess, RecordSuccess, Recovered
  <1>7. CASE CronReads
    BY <1>1, <1>7 DEF CronReads, Recovered
  <1>8. CASE CronActs
    BY <1>8 DEF CronActs, Recovered, breaker
  <1>9. CASE CooldownElapses \/ GatewayChanges \/ Restart \/ UNCHANGED vars
    BY <1>9 DEF CooldownElapses, GatewayChanges, Restart, Recovered, breaker, vars
  <1>10. QED
    BY <1>2, <1>3, <1>4, <1>5, <1>6, <1>7, <1>8, <1>9 DEF Next

\* As long as the gateway answers and no failure is being reported, a breaker
\* that lets calls through and a queue that runs stay so, whatever callers, the
\* cron and restarts do: runHealthCheck does not pause it again.  This is the
\* safety part of PausedQueueResumes.
THEOREM RecoveryIsFinal == Spec => []([]Quiet /\ Recovered => []Recovered)
  <1>1. TypeOK /\ [Next]_vars /\ Quiet /\ Recovered => Recovered'
    BY RecoveredStep
  <1>2. QED
    BY <1>1, TypeCorrect, PTL DEF Spec
=============================================================================
