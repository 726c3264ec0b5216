--------------------------- MODULE CircuitBreaker ---------------------------
(***************************************************************************)
(* The circuit breaker around the Nomba payment gateway and everything     *)
(* that feeds or obeys it:                                                 *)
(*                                                                         *)
(*   - CircuitBreakerService (provider/circuit-breaker.service.ts);        *)
(*   - NombaClient.executeRequest (provider/nomba.client.ts), which asks   *)
(*     the breaker before a request and reports to it after one;           *)
(*   - the charge and dunning workers (scheduler/dunning-worker.service),  *)
(*     which ask it again before and report to it again after;             *)
(*   - HealthCronService.runHealthCheck, which pauses and resumes the      *)
(*     charge queue from the breaker's state.                              *)
(*                                                                         *)
(* One process holds the breaker in memory and interleaves these callers   *)
(* at their awaits.  The pause flag lives in Redis and survives a restart. *)
(***************************************************************************)
EXTENDS Naturals

CONSTANTS
    ChargeSlots,        \* concurrent charge jobs (ChargeWorker, concurrency 5)
    DunningSlots,       \* concurrent dunning jobs (DunningWorker, concurrency 3)
    CheckoutCalls,      \* concurrent API calls that create a checkout order
    FailureThreshold,   \* failureThreshold, 3 in the code
    MaxCount            \* bound: failureCount saturates here

ASSUME ConstantsAssumption ==
    /\ ChargeSlots \cap DunningSlots = {}
    /\ (ChargeSlots \cup DunningSlots) \cap CheckoutCalls = {}
    /\ FailureThreshold \in Nat \ {0}
    /\ MaxCount \in Nat
    /\ MaxCount >= FailureThreshold

Workers == ChargeSlots \cup DunningSlots

Calls == Workers \cup CheckoutCalls

VARIABLES
    state,          \* the breaker: "CLOSED", "OPEN" or "HALF_OPEN"
    failureCount,   \* its count of failures since the last success
    cooled,         \* while OPEN: more than cooldownPeriod since it opened
    pc,             \* where each outbound call stands
    paused,         \* ChargeQueue is paused (kept in Redis)
    cron,           \* what the running health check saw, or "idle"
    gateway,        \* the payment gateway (environment): "up" or "down"
    faults          \* history: requests the gateway failed since the last
                    \*   success reported to the breaker (saturating)

breaker == <<state, failureCount, cooled>>
vars == <<state, failureCount, cooled, pc, paused, cron, gateway, faults>>

CallState ==
    {"idle",        \* no call
     "checked",     \* dunning job past its own isOpen check, reading the DB
     "token",       \* past executeRequest's guard, awaiting getAccessToken
     "sent",        \* fetch in flight
     "succeeded",   \* the client returned, the worker has not reported yet
     "failed"}      \* the client threw, the worker's catch has not run yet

TypeOK ==
    /\ state \in {"CLOSED", "OPEN", "HALF_OPEN"}
    /\ failureCount \in 0..MaxCount
    /\ cooled \in BOOLEAN
    /\ pc \in [Calls -> CallState]
    /\ paused \in BOOLEAN
    /\ cron \in {"idle", "sawOpen", "sawHealthy"}
    /\ gateway \in {"up", "down"}
    /\ faults \in 0..FailureThreshold

Init ==
    /\ state = "CLOSED"
    /\ failureCount = 0
    /\ cooled = FALSE
    /\ pc = [c \in Calls |-> "idle"]
    /\ paused \in BOOLEAN           \* a pause outlives the process that made it
    /\ cron = "idle"
    /\ gateway \in {"up", "down"}
    /\ faults = 0

----------------------------------------------------------------------------
(* CircuitBreakerService.                                                  *)

\* n + 1, saturating at the bound top: the code only compares the counter
\* with failureThreshold, so every value above it behaves alike.
Bump(n, top) == IF n < top THEN n + 1 ELSE n

\* isOpen() answers TRUE.
IsOpen == state = "OPEN" /\ ~cooled

\* Defect for OpenEnds: the cooldown is never looked at.
GetState_NeverHalfOpen == UNCHANGED breaker

\* getState(): an OPEN breaker whose cooldown is over becomes HALF_OPEN.
GetState ==
    /\ state' = IF state = "OPEN" /\ cooled THEN "HALF_OPEN" ELSE state
    /\ cooled' = FALSE
    /\ UNCHANGED failureCount

\* recordSuccess(): any success closes the breaker, whatever its state.
RecordSuccess ==
    /\ state' = "CLOSED"
    /\ failureCount' = 0
    /\ cooled' = FALSE

\* Defect for BreakerMatchesCount: opens one failure late.
RecordFailure_OffByOne ==
    LET n == Bump(failureCount, MaxCount)
    IN  /\ failureCount' = n
        /\ state' = IF n > FailureThreshold \/ state = "HALF_OPEN" THEN "OPEN" ELSE state
        /\ cooled' = (cooled /\ state = "OPEN")

\* recordFailure(): CLOSED opens at the threshold, HALF_OPEN opens at once,
\* OPEN only counts (its cooldown is not restarted).
RecordFailure ==
    LET n == Bump(failureCount, MaxCount)
        trips == \/ state = "CLOSED" /\ n >= FailureThreshold
                 \/ state = "HALF_OPEN"
    IN  /\ failureCount' = n
        /\ state' = IF trips THEN "OPEN" ELSE state
        /\ cooled' = IF trips THEN FALSE ELSE cooled

\* More than cooldownPeriod (30 s) has passed since the breaker opened.
CooldownElapses ==
    /\ state = "OPEN"
    /\ ~cooled
    /\ cooled' = TRUE
    /\ UNCHANGED <<state, failureCount, pc, paused, cron, gateway, faults>>

----------------------------------------------------------------------------
(* Outbound calls: NombaClient.executeRequest and its three callers.       *)

\* The history starts afresh.
Forget == faults' = 0

Goto(c, place) == pc' = [pc EXCEPT ![c] = place]

\* Where a call goes when executeRequest throws: a worker's catch block, or
\* back to the API caller.
Throw(c) == Goto(c, IF c \in Workers THEN "failed" ELSE "idle")

\* processCharge: its own isOpen() and executeRequest's run without an await
\* between them.  A paused queue hands out no job; an open breaker sends the
\* job to the dunning queue and leaves the call idle.
StartCharge(w) ==
    /\ pc[w] = "idle"
    /\ ~paused
    /\ ~IsOpen
    /\ GetState
    /\ Goto(w, "token")
    /\ UNCHANGED <<paused, cron, gateway, faults>>

\* processDunning: its own isOpen() comes three database reads before the
\* client's.  The dunning queue is never paused; an open breaker throws.
StartDunning(w) ==
    /\ pc[w] = "idle"
    /\ ~IsOpen
    /\ GetState
    /\ Goto(w, "checked")
    /\ UNCHANGED <<paused, cron, gateway, faults>>

\* The reads show a missing plan, token or email, or no retry left: the job
\* ends without calling the gateway.
DunningGivesUp(w) ==
    /\ pc[w] = "checked"
    /\ Goto(w, "idle")
    /\ UNCHANGED <<breaker, paused, cron, gateway, faults>>

\* processDunning reaches executeRequest, whose guard may find the breaker
\* opened since: the 503 it throws lands in the worker's catch.
DunningCalls(w) ==
    /\ pc[w] = "checked"
    /\ IF IsOpen THEN Throw(w) ELSE Goto(w, "token")
    /\ GetState
    /\ UNCHANGED <<paused, cron, gateway, faults>>

\* Defect for OpenDrains: createCheckoutOrder skips the client's guard.
StartCheckout_Unguarded(c) ==
    /\ pc[c] = "idle"
    /\ Goto(c, "token")
    /\ UNCHANGED <<breaker, paused, cron, gateway, faults>>

\* CheckoutService calls createCheckoutOrder, past the client's guard.
StartCheckout(c) ==
    /\ pc[c] = "idle"
    /\ ~IsOpen
    /\ GetState
    /\ Goto(c, "token")
    /\ UNCHANGED <<paused, cron, gateway, faults>>

\* getAccessToken resolves: the request is dispatched, whatever the breaker
\* has become in the meantime.
TokenIssued(c) ==
    /\ pc[c] = "token"
    /\ Goto(c, "sent")
    /\ UNCHANGED <<breaker, paused, cron, gateway, faults>>

\* getAccessToken throws, outside executeRequest's try: not counted there.
TokenRefused(c) ==
    /\ pc[c] = "token"
    /\ gateway = "down"
    /\ Throw(c)
    /\ UNCHANGED <<breaker, paused, cron, gateway, faults>>

\* A 2xx response.
ResponseOk(c) ==
    /\ pc[c] = "sent"
    /\ gateway = "up"
    /\ RecordSuccess
    /\ Forget
    /\ Goto(c, IF c \in Workers THEN "succeeded" ELSE "idle")
    /\ UNCHANGED <<paused, cron, gateway>>

\* A 4xx response, a declined card say: thrown, not counted by the client.
ResponseDeclined(c) ==
    /\ pc[c] = "sent"
    /\ gateway = "up"
    /\ Throw(c)
    /\ UNCHANGED <<breaker, paused, cron, gateway, faults>>

\* A 5xx response, a timeout or a dropped connection.
ResponseFault(c) ==
    /\ pc[c] = "sent"
    /\ gateway = "down"
    /\ RecordFailure
    /\ faults' = Bump(faults, FailureThreshold)
    /\ Throw(c)
    /\ UNCHANGED <<paused, cron, gateway>>

\* The worker's recordSuccess after the client's; the database update that
\* follows in the same try may throw into the worker's catch.
WorkerReportsSuccess(w) ==
    /\ pc[w] = "succeeded"
    /\ RecordSuccess
    /\ Forget
    /\ \E place \in {"idle", "failed"} : Goto(w, place)
    /\ UNCHANGED <<paused, cron, gateway>>

\* The worker's catch reports every error: a 5xx a second time, and a
\* decline, a refused token or a database error for the first.
WorkerReportsFailure(w) ==
    /\ pc[w] = "failed"
    /\ RecordFailure
    /\ Goto(w, "idle")
    /\ UNCHANGED <<paused, cron, gateway, faults>>

----------------------------------------------------------------------------
(* HealthCronService.runHealthCheck, the gateway and the process.          *)

\* The health check reads the breaker ...
CronReads ==
    /\ cron = "idle"
    /\ GetState
    /\ cron' = IF IsOpen THEN "sawOpen" ELSE "sawHealthy"
    /\ UNCHANGED <<pc, paused, gateway, faults>>

\* Defect for PausedQueueResumes: resumes only a CLOSED breaker's queue.
CronActs_OnlyWhenClosed ==
    /\ cron # "idle"
    /\ paused' = (cron = "sawOpen" \/ (paused /\ state # "CLOSED"))
    /\ cron' = "idle"
    /\ UNCHANGED <<breaker, pc, gateway, faults>>

\* ... and, after a round trip to Redis, pauses or resumes ChargeQueue by
\* what it read then.
CronActs ==
    /\ cron # "idle"
    /\ paused' = (cron = "sawOpen")
    /\ cron' = "idle"
    /\ UNCHANGED <<breaker, pc, gateway, faults>>

\* The gateway fails or recovers.
GatewayChanges ==
    /\ gateway' = IF gateway = "up" THEN "down" ELSE "up"
    /\ UNCHANGED <<breaker, pc, paused, cron, faults>>

\* The process dies and starts again: memory is lost, Redis is not.
Restart ==
    /\ state' = "CLOSED"
    /\ failureCount' = 0
    /\ cooled' = FALSE
    /\ pc' = [c \in Calls |-> "idle"]
    /\ cron' = "idle"
    /\ Forget
    /\ UNCHANGED <<paused, gateway>>

----------------------------------------------------------------------------
CallStep(c) ==
    \/ TokenIssued(c)
    \/ TokenRefused(c)
    \/ ResponseOk(c)
    \/ ResponseDeclined(c)
    \/ ResponseFault(c)

WorkerStep(w) ==
    \/ WorkerReportsSuccess(w)
    \/ WorkerReportsFailure(w)

Next ==
    \/ \E w \in ChargeSlots : StartCharge(w)
    \/ \E w \in DunningSlots : StartDunning(w) \/ DunningGivesUp(w) \/ DunningCalls(w)
    \/ \E c \in CheckoutCalls : StartCheckout(c)
    \/ \E c \in Calls : CallStep(c)
    \/ \E w \in Workers : WorkerStep(w)
    \/ CooldownElapses
    \/ CronReads
    \/ CronActs
    \/ GatewayChanges
    \/ Restart

\* The clock advances, the cron fires every five minutes and its calls to
\* Redis return; the process may die often, but not within every health
\* check for ever (strong fairness of CronActs).  Nothing is assumed of the
\* gateway, of the jobs or of the customers who open a checkout.
Fairness ==
    /\ WF_vars(CooldownElapses)
    /\ WF_vars(CronReads)
    /\ SF_vars(CronActs)

Spec == Init /\ [][Next]_vars /\ Fairness

----------------------------------------------------------------------------
(* Properties.                                                             *)

\* The state and the counter never disagree: the breaker is CLOSED exactly
\* while fewer than failureThreshold failures were counted since the last
\* success, through every interleaving of doubled, late and stale reports.
BreakerMatchesCount ==
    state = "CLOSED" <=> failureCount < FailureThreshold

\* The breaker does its job: after failureThreshold requests failed by the
\* gateway (5xx or no connection) with no success between, it is not CLOSED,
\* whoever made the requests and whenever their answers came.
FaultsTrip ==
    faults >= FailureThreshold => state # "CLOSED"

\* The calls that have passed executeRequest's guard.
Admitted == {c \in Calls : pc[c] \in {"token", "sent"}}

\* While the breaker stays OPEN the traffic to the gateway only drains: no
\* call is admitted, and those already admitted finish one by one.
OpenDrains ==
    [][state = "OPEN" /\ state' = "OPEN" => Admitted' \subseteq Admitted]_vars

\* An OPEN breaker always ends up offering a probe: late failures neither
\* extend nor restart its cooldown, with or without traffic.
OpenEnds == state = "OPEN" ~> state # "OPEN"

\* No failure is being reported and the gateway answers.
Quiet == gateway = "up" /\ \A c \in Calls : pc[c] # "failed"

\* A pause does not outlive the outage: once the gateway answers again and no
\* failure is reported any more, a paused ChargeQueue is resumed, even with
\* no traffic left to close the breaker and even if the pause was made by an
\* earlier process or on a stale reading.
PausedQueueResumes ==
    <>[]Quiet => (paused ~> ~paused)
=============================================================================
