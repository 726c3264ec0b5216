--------------------------- MODULE DunningProofs ---------------------------
(***************************************************************************)
(* Theorems about Dunning, for any subscriptions, any number of charge     *)
(* jobs, any grace periods, however often changed, any faults and any      *)
(* number of crashes.                                                      *)
(***************************************************************************)
EXTENDS Dunning, TLAPS

----------------------------------------------------------------------------
(* Type correctness.                                                       *)

LEMMA ConstantsType ==
    ASSUME NEW s \in Subs, NEW n \in {0, 1}
    PROVE  <<s, n>> \in DunningJobs
BY ConstantsAssumption DEF DunningJobs, Retries

LEMMA SetStatusType ==
    ASSUME TypeOK, NEW s \in Subs, NEW value \in {"active", "past_due", "canceled"},
           SetStatus(s, value)
    PROVE  status' \in [Subs -> {"active", "past_due", "canceled", "gone"}]
BY DEF TypeOK, SetStatus

LEMMA AdvanceType ==
    ASSUME TypeOK, NEW s \in Subs, Advance(s)
    PROVE  /\ status' \in [Subs -> {"active", "past_due", "canceled", "gone"}]
           /\ period' \in [Subs -> {"null", "running", "due"}]
BY DEF TypeOK, Advance, SetStatus

LEMMA ChargeGotoType ==
    ASSUME TypeOK, NEW j \in ChargeJobs, NEW place \in ChargeState,
           ChargeGoto(j, place)
    PROVE  /\ charge' \in [ChargeJobs -> ChargeState]
           /\ err' \in [ChargeJobs -> Errors]
BY DEF TypeOK, ChargeGoto, Errors

LEMMA EnqueueDunningType ==
    ASSUME TypeOK, NEW s \in Subs, NEW n, EnqueueDunning(s, n)
    PROVE  dunning' \in [DunningJobs -> DunningState]
BY DEF TypeOK, EnqueueDunning, Added, DunningState

LEMMA DunningGotoType ==
    ASSUME TypeOK, NEW j \in DunningJobs, NEW place \in DunningState,
           DunningGoto(j, place)
    PROVE  dunning' \in [DunningJobs -> DunningState]
BY DEF TypeOK, DunningGoto

LEMMA TermsType ==
    ASSUME TypeOK, NEW j \in DunningJobs, ReadsTerms(j) \/ DropsTerms(j)
    PROVE  limit' \in [DunningJobs -> 0..MaxGrace]
<1>. j[1] \in Subs /\ 0 \in 0..MaxGrace
  BY ConstantsAssumption DEF DunningJobs
<1>. QED  BY DEF TypeOK, ReadsTerms, DropsTerms

LEMMA SendToDlqType ==
    ASSUME TypeOK, NEW s \in Subs, SendToDlq(s)
    PROVE  dlq' \subseteq Letters /\ dlq \subseteq dlq'
BY DEF TypeOK, SendToDlq, Letters, LettersOf

LEMMA DebitType ==
    ASSUME TypeOK, NEW s \in Subs, Debit(s)
    PROVE  paid' \subseteq Subs
BY DEF TypeOK, Debit

LEMMA DebitOnceType ==
    ASSUME TypeOK, NEW j \in DunningJobs, DebitOnce(j)
    PROVE  /\ paid' \subseteq Subs
           /\ collected' \subseteq DunningJobs
<1>1. j[1] \in Subs
  BY DEF DunningJobs
<1>2. CASE j \in collected
  BY <1>2 DEF TypeOK, DebitOnce
<1>3. CASE j \notin collected
  BY <1>1, <1>3, DebitType DEF TypeOK, DebitOnce
<1>. QED
  BY <1>2, <1>3

LEMMA EnqueueChargeType ==
    ASSUME TypeOK, NEW s \in Subs, EnqueueCharge(s)
    PROVE  /\ charge' \in [ChargeJobs -> ChargeState]
           /\ err' \in [ChargeJobs -> Errors]
<1>1. PICK k \in Slots : ChargeGoto(<<s, k>>, "waiting")
  BY DEF EnqueueCharge
<1>2. <<s, k>> \in ChargeJobs
  BY DEF ChargeJobs
<1>. QED
  BY <1>1, <1>2, ChargeGotoType DEF ChargeState

LEMMA ChargeStepType ==
    ASSUME TypeOK, NEW j \in ChargeJobs, ChargeStep(j)
    PROVE  TypeOK'
<1>. j[1] \in Subs
  BY DEF ChargeJobs
<1>1. CASE ChargeReads(j)
  BY <1>1, ChargeGotoType
     DEF TypeOK, ChargeReads, ChargeState, books
<1>2. CASE ChargeDeferred(j)
  BY <1>2, ChargeGotoType, EnqueueDunningType
     DEF TypeOK, ChargeDeferred, ChargeState, books
<1>3. CASE ChargeSends(j)
  BY <1>3, ChargeGotoType
     DEF TypeOK, ChargeSends, ChargeState, books
<1>4. CASE ChargeAccepted(j)
  BY <1>4, ChargeGotoType, DebitType
     DEF TypeOK, ChargeAccepted, ChargeState, books
<1>5. CASE ChargeFails(j)
  BY <1>5, DebitType
     DEF TypeOK, ChargeFails, ChargeState, books, Errors
<1>6. CASE ChargeAdvances(j)
  BY <1>6, ChargeGotoType, AdvanceType
     DEF TypeOK, ChargeAdvances, ChargeState, books
<1>7. CASE ChargeAdvanceFails(j)
  BY <1>7
     DEF TypeOK, ChargeAdvanceFails, ChargeState, books, Errors
<1>8. CASE ChargeRetries(j)
  BY <1>8, ChargeGotoType, EnqueueDunningType
     DEF TypeOK, ChargeRetries, ChargeState, books
<1>9. CASE ChargeHandsOver(j)
  <2>1. dlq' \subseteq Letters /\ replay' \subseteq dlq'
    BY <1>9, SendToDlqType DEF TypeOK, ChargeHandsOver
  <2>. QED
    BY <1>9, <2>1, ChargeGotoType, EnqueueDunningType
       DEF TypeOK, ChargeHandsOver, ChargeState, books
<1>10. CASE ChargeMarks(j)
  BY <1>10, ChargeGotoType, SetStatusType
     DEF TypeOK, ChargeMarks, ChargeState, books
<1>11. CASE ChargeThrows(j)
  BY <1>11
     DEF TypeOK, ChargeThrows, ChargeState, books, Errors
<1>12. CASE ChargeCompletes(j)
  BY <1>12
     DEF TypeOK, ChargeCompletes, ChargeState, books, Errors
<1>. QED
  BY <1>1, <1>2, <1>3, <1>4, <1>5, <1>6, <1>7, <1>8, <1>9, <1>10, <1>11, <1>12 DEF ChargeStep

LEMMA DunningStepType ==
    ASSUME TypeOK, NEW j \in DunningJobs, DunningStep(j)
    PROVE  TypeOK'
<1>. j[1] \in Subs
  BY DEF DunningJobs
<1>1. CASE DunningDiscards(j)
  BY <1>1, DunningGotoType
     DEF TypeOK, DunningDiscards, DunningState, queues, books
<1>2. CASE DunningHeld(j)
  BY <1>2, DunningGotoType
     DEF TypeOK, DunningHeld, DunningState, ForgetsStall, queues, books
<1>3. CASE DunningChecks(j)
  BY <1>3, DunningGotoType
     DEF TypeOK, DunningChecks, DunningState, queues, books
<1>4. CASE DunningGivesUp(j)
  BY <1>4, DunningGotoType, TermsType
     DEF TypeOK, DunningGivesUp, DunningState, queues, books
<1>5. CASE DunningSends(j) \/ DunningRefused(j)
  BY <1>5, DunningGotoType, TermsType
     DEF TypeOK, DunningSends, DunningRefused, DunningState, queues, books
<1>6. CASE DunningAccepted(j)
  BY <1>6, DunningGotoType, DebitOnceType
     DEF TypeOK, DunningAccepted, DunningState, queues, books
<1>7. CASE DunningFails(j)
  BY <1>7, DunningGotoType, DebitOnceType
     DEF TypeOK, DunningFails, DunningState, queues, books
<1>8. CASE DunningAdvances(j)
  BY <1>8, DunningGotoType, AdvanceType, TermsType
     DEF TypeOK, DunningAdvances, DunningState, queues, books
<1>9. CASE DunningAdvanceFails(j)
  BY <1>9, DunningGotoType
     DEF TypeOK, DunningAdvanceFails, DunningState, queues, books
<1>10. CASE DunningRetries(j)
  BY <1>10, TermsType
     DEF TypeOK, DunningRetries, DunningState, queues, books, Added
<1>11. CASE DunningExhausts(j)
  BY <1>11, DunningGotoType
     DEF TypeOK, DunningExhausts, DunningState, queues, books
<1>12. CASE DunningCancels(j)
  BY <1>12, DunningGotoType, SetStatusType, TermsType
     DEF TypeOK, DunningCancels, DunningState, queues, books
<1>13. CASE DunningRecords(j)
  <2>1. dlq' \subseteq Letters /\ replay' \subseteq dlq'
    BY <1>13, SendToDlqType DEF TypeOK, DunningRecords
  <2>. QED
    BY <1>13, <2>1, DunningGotoType
       DEF TypeOK, DunningRecords, DunningState, queues, books
<1>14. CASE DunningThrows(j)
  BY <1>14, DunningGotoType, TermsType
     DEF TypeOK, DunningThrows, DunningState, ForgetsStall, queues, books
<1>15. CASE DunningCompletes(j)
  BY <1>15, DunningGotoType
     DEF TypeOK, DunningCompletes, DunningState, ForgetsStall, queues, books
<1>. QED
  BY <1>1, <1>2, <1>3, <1>4, <1>5, <1>6, <1>7, <1>8, <1>9, <1>10, <1>11, <1>12, <1>13, <1>14, <1>15 DEF DunningStep

LEMMA OtherStepType ==
    ASSUME TypeOK, NEW s \in Subs, OtherStep(s)
    PROVE  TypeOK'
<1>1. CASE FallsDue(s)
  BY <1>1
     DEF TypeOK, FallsDue, queues, books
<1>2. CASE BillingPicks(s)
  BY <1>2
     DEF TypeOK, BillingPicks, queues, books
<1>3. CASE BillingEnqueues(s)
  BY <1>3, EnqueueChargeType
     DEF TypeOK, BillingEnqueues, queues, books
<1>4. CASE BillingFindsNoCard(s)
  BY <1>4, SetStatusType
     DEF TypeOK, BillingFindsNoCard, queues, books
<1>5. ASSUME NEW l \in LettersOf(s), ReplayEnqueues(l)
      PROVE  TypeOK'
  BY <1>5, EnqueueChargeType
     DEF TypeOK, ReplayEnqueues, LettersOf, queues, books
<1>6. ASSUME NEW l \in LettersOf(s), ReplayDeletes(l)
      PROVE  TypeOK'
  BY <1>6 DEF TypeOK, ReplayDeletes, queues, books
<1>7. CASE CheckoutPaid(s)
  BY <1>7, AdvanceType
     DEF TypeOK, CheckoutPaid, queues, books
<1>8. CASE CustomerCancels(s)
  BY <1>8, SetStatusType
     DEF TypeOK, CustomerCancels, queues, books
<1>9. CASE MerchantReactivates(s)
  BY <1>9, AdvanceType
     DEF TypeOK, MerchantReactivates, queues, books
<1>10. CASE BillingSkips(s)
  BY <1>10
     DEF TypeOK, BillingSkips, queues, books
<1>11. CASE PlanDeleted(s) \/ PlanUpdated(s)
  BY <1>11, ConstantsAssumption
     DEF TypeOK, PlanUpdated, PlanDeleted, PlanUpdated, queues, books
<1>. QED
  BY <1>1, <1>2, <1>3, <1>4, <1>5, <1>6, <1>7, <1>8, <1>9, <1>10, <1>11 DEF OtherStep

LEMMA CrashType ==
    ASSUME TypeOK, Crash
    PROVE  TypeOK'
<1>1. charge' \in [ChargeJobs -> ChargeState] /\ err' \in [ChargeJobs -> Errors]
  BY DEF TypeOK, Crash, ChargeState, Errors
<1>2. dunning' \in [DunningJobs -> DunningState]
  BY DEF TypeOK, Crash, DunningState
<1>3. stalled' \in [charge : SUBSET ChargeJobs, dunning : SUBSET DunningJobs]
  BY DEF TypeOK, Crash, ActiveCharges, ActiveRetries
<1>4. crashes' \in 0..MaxCrashes
  BY ConstantsAssumption DEF TypeOK, Crash
<1>5. limit' \in [DunningJobs -> 0..MaxGrace]
  BY ConstantsAssumption DEF Crash
<1>. QED
  BY <1>1, <1>2, <1>3, <1>4, <1>5 DEF TypeOK, Crash, books

LEMMA NextType ==
    ASSUME TypeOK, [Next]_vars
    PROVE  TypeOK'
<1>1. CASE \E j \in ChargeJobs : ChargeStep(j)
  BY <1>1, ChargeStepType
<1>2. CASE \E j \in DunningJobs : DunningStep(j)
  BY <1>2, DunningStepType
<1>3. CASE \E s \in Subs : OtherStep(s)
  BY <1>3, OtherStepType
<1>4. CASE BreakerChanges
  BY <1>4 DEF TypeOK, BreakerChanges, queues, books
<1>5. CASE Crash
  BY <1>5, CrashType
<1>6. CASE UNCHANGED vars
  BY <1>6 DEF TypeOK, vars
<1>. QED
  BY <1>1, <1>2, <1>3, <1>4, <1>5, <1>6 DEF Next

LEMMA InitType ==
    ASSUME Init
    PROVE  TypeOK
<1>1. charge \in [ChargeJobs -> ChargeState] /\ err \in [ChargeJobs -> Errors]
  BY DEF Init, ChargeState, Errors
<1>2. dunning \in [DunningJobs -> DunningState]
  BY DEF Init, DunningState
<1>3. stalled \in [charge : SUBSET ChargeJobs, dunning : SUBSET DunningJobs]
  BY DEF Init
<1>4. limit \in [DunningJobs -> 0..MaxGrace]
  BY ConstantsAssumption DEF Init
<1>5. crashes \in 0..MaxCrashes /\ changes \in 0..MaxChanges
  BY ConstantsAssumption DEF Init
<1>6. open \in BOOLEAN
  BY DEF Init
<1>. QED
  BY <1>1, <1>2, <1>3, <1>4, <1>5, <1>6 DEF Init, TypeOK

\* Every variable keeps its range under every interleaving; in particular a
\* letter that some replay holds is still there, however many replays overlap.
THEOREM TypeCorrect == Spec => []TypeOK
<1>1. Init => TypeOK
  BY InitType
<1>2. TypeOK /\ [Next]_vars => (TypeOK)'
  BY NextType
<1>. QED
  BY <1>1, <1>2, PTL DEF Spec

----------------------------------------------------------------------------
(* The dunning queue.                                                      *)

\* A held or running retry moves on to a place other than giving up.
DunningMoves(j) ==
    /\ dunning[j] # "none"
    /\ \E place \in DunningState \ {"none", "exhausted"} : DunningGoto(j, place)

\* All a step can do to the dunning queue.
LEMMA DunningFrame ==
    ASSUME [Next]_vars
    PROVE  \/ UNCHANGED dunning
           \/ \E j \in DunningJobs : DunningMoves(j)
           \/ \E j \in DunningJobs : DunningGivesUp(j) \/ DunningExhausts(j)
           \/ \E j \in DunningJobs : DunningRetries(j)
           \/ \E s \in Subs : \E n \in {0, 1} : EnqueueDunning(s, n)
           \/ Crash
<1>1. ASSUME NEW j \in ChargeJobs, ChargeStep(j)
      PROVE  UNCHANGED dunning \/ EnqueueDunning(j[1], 0) \/ EnqueueDunning(j[1], 1)
  BY <1>1 DEF ChargeStep, ChargeReads, ChargeDeferred, ChargeSends,
     ChargeAccepted, ChargeFails, ChargeAdvances, ChargeAdvanceFails, ChargeRetries,
     ChargeHandsOver, ChargeMarks, ChargeThrows, ChargeCompletes
<1>2. ASSUME NEW j \in DunningJobs, DunningStep(j)
      PROVE  DunningMoves(j) \/ DunningGivesUp(j) \/ DunningExhausts(j) \/ DunningRetries(j)
  BY <1>2 DEF DunningMoves, DunningState, DunningStep, DunningDiscards,
     DunningHeld, DunningChecks, DunningSends, DunningRefused, DunningAccepted, DunningFails,
     DunningAdvances, DunningAdvanceFails, DunningCancels, DunningRecords,
     DunningThrows, DunningCompletes
<1>3. ASSUME NEW s \in Subs, OtherStep(s)
      PROVE  UNCHANGED dunning
  BY <1>3 DEF OtherStep, FallsDue, BillingPicks, BillingEnqueues,
     BillingFindsNoCard, BillingSkips, ReplayEnqueues, ReplayDeletes, CheckoutPaid,
     CustomerCancels, MerchantReactivates, PlanUpdated, PlanDeleted, queues
<1>4. ASSUME NEW j \in Subs \X Slots PROVE j[1] \in Subs
  BY <1>4
<1>5. CASE BreakerChanges \/ UNCHANGED vars
  BY <1>5 DEF BreakerChanges, vars, queues
<1>. QED
  BY <1>1, <1>2, <1>3, <1>4, <1>5 DEF Next, ChargeJobs

\* A pair is the pair of its parts.
LEMMA JobIsPair ==
    ASSUME NEW j \in DunningJobs
    PROVE  j[1] \in Subs /\ j[2] \in Retries /\ j = <<j[1], j[2]>>
BY DEF DunningJobs

LEMMA AddedEffect ==
    ASSUME TypeOK, NEW id \in DunningJobs, NEW j \in DunningJobs
    PROVE  /\ dunning[j] # "none" => Added(dunning, id)[j] = dunning[j]
           /\ Added(dunning, id)[j] # "none" => dunning[j] # "none" \/ j = id
           /\ Added(dunning, id)[id] # "none"
BY DEF TypeOK, Added

LEMMA RetriesCountUpStep ==
    ASSUME TypeOK, RetriesCountUp, [Next]_vars
    PROVE  RetriesCountUp'
<1>. USE ConstantsAssumption
<1>. DEFINE Used(j) == dunning[j] # "none"
<1>1. ASSUME \A j \in DunningJobs : Used(j)' <=> Used(j)
      PROVE  RetriesCountUp'
  <2>. SUFFICES ASSUME NEW s \in Subs, NEW n \in Retries, Used(<<s, n>>)'
                PROVE  n <= LastRetry /\ \A m \in 1..n : Used(<<s, m>>)'
    BY DEF RetriesCountUp
  <2>1. n <= LastRetry /\ \A m \in 1..n : Used(<<s, m>>)
    BY <1>1 DEF RetriesCountUp, DunningJobs
  <2>2. \A m \in 1..n : <<s, m>> \in DunningJobs
    BY DEF DunningJobs, Retries
  <2>. QED
    BY <2>1, <2>2, <1>1
<1>2. CASE UNCHANGED dunning
  BY <1>2, <1>1
<1>3. ASSUME NEW j \in DunningJobs,
             DunningMoves(j) \/ DunningGivesUp(j) \/ DunningExhausts(j)
      PROVE  RetriesCountUp'
  BY <1>3, <1>1 DEF TypeOK, DunningMoves, DunningGivesUp, DunningExhausts, DunningGoto
<1>4. CASE Crash
  BY <1>4, <1>1 DEF TypeOK, Crash, ActiveRetries
<1>5. ASSUME NEW s \in Subs, NEW k \in Retries,
             k > 0 => k <= LastRetry,
             k > 1 => Used(<<s, k - 1>>),
             \A j \in DunningJobs : Used(j) => Used(j)',
             \A j \in DunningJobs : Used(j)' => Used(j) \/ j = <<s, k>>
      PROVE  RetriesCountUp'
  <2>. SUFFICES ASSUME NEW t \in Subs, NEW n \in Retries, Used(<<t, n>>)'
                PROVE  n <= LastRetry /\ \A m \in 1..n : Used(<<t, m>>)'
    BY DEF RetriesCountUp
  <2>1. \A m \in 1..n : <<t, m>> \in DunningJobs
    BY DEF DunningJobs, Retries
  <2>2. <<t, n>> \in DunningJobs /\ 0 \in Retries
    BY DEF DunningJobs, Retries
  <2>3. CASE Used(<<t, n>>)
    BY <1>5, <2>1, <2>3 DEF RetriesCountUp
  <2>4. CASE ~Used(<<t, n>>)
    <3>1. t = s /\ n = k
      BY <1>5, <2>2, <2>4
    <3>2. CASE n <= 1
      BY <1>5, <2>2, <3>1, <3>2 DEF LastRetry, Retries
    <3>3. CASE n > 1
      <4>1. n - 1 \in Retries /\ n \in Nat
        BY <3>3 DEF Retries
      <4>2. \A m \in 1..(n - 1) : Used(<<t, m>>)
        BY <1>5, <3>1, <3>3, <4>1 DEF RetriesCountUp
      <4>3. \A m \in 1..n : m \in 1..(n - 1) \/ m = n
        BY <4>1
      <4>4. \A m \in 1..(n - 1) : Used(<<t, m>>)'
        <5>1. \A m \in 1..(n - 1) : <<t, m>> \in DunningJobs
          BY <2>1, <4>1
        <5>. QED
          BY <1>5, <4>2, <5>1
      <4>5. \A m \in 1..n : Used(<<t, m>>)'
        BY <4>3, <4>4
      <4>6. n <= LastRetry
        BY <1>5, <3>1, <3>3, <4>1
      <4>. QED
        BY <4>5, <4>6
    <3>. QED
      BY <3>2, <3>3 DEF Retries
  <2>. QED
    BY <2>3, <2>4
<1>6. ASSUME NEW s \in Subs, NEW n \in {0, 1}, EnqueueDunning(s, n)
      PROVE  RetriesCountUp'
  <2>1. n \in Retries /\ <<s, n>> \in DunningJobs
    BY DEF DunningJobs, Retries
  <2>2. /\ \A j \in DunningJobs : Used(j) => Used(j)'
        /\ \A j \in DunningJobs : Used(j)' => Used(j) \/ j = <<s, n>>
    BY <1>6, <2>1, AddedEffect DEF EnqueueDunning
  <2>3. (n > 0 => n <= LastRetry) /\ ~(n > 1)
    BY DEF LastRetry
  <2>. QED
    BY <1>5, <2>1, <2>2, <2>3
<1>7. ASSUME NEW j \in DunningJobs, DunningRetries(j)
      PROVE  RetriesCountUp'
  <2>. DEFINE id == <<j[1], j[2] + 1>>
  <2>1. /\ j[1] \in Subs /\ j[2] \in Retries /\ j = <<j[1], j[2]>>
        /\ j[2] + 1 \in Retries /\ j[2] + 1 <= LastRetry
        /\ Used(j)
    BY <1>7, JobIsPair DEF TypeOK, DunningRetries, Retries, LastRetry
  <2>2. id \in DunningJobs
    BY <2>1 DEF DunningJobs
  <2>3. dunning' = [Added(dunning, id) EXCEPT ![j] = "done"]
    BY <1>7 DEF DunningRetries
  <2>4. Added(dunning, id) \in [DunningJobs -> DunningState]
    BY DEF TypeOK, Added, DunningState
  <2>5. \A i \in DunningJobs : dunning'[i] = IF i = j THEN "done" ELSE Added(dunning, id)[i]
    BY <2>3, <2>4
  <2>6. /\ \A i \in DunningJobs : Used(i) => Used(i)'
        /\ \A i \in DunningJobs : Used(i)' => Used(i) \/ i = id
    BY <2>1, <2>2, <2>5, AddedEffect
  <2>. QED
    <3>1. j[2] + 1 > 1 => Used(<<j[1], (j[2] + 1) - 1>>)
      BY <2>1 DEF Retries
    <3>. QED
      BY <1>5, <2>1, <2>6, <3>1
<1>. QED
  BY <1>2, <1>3, <1>4, <1>6, <1>7, DunningFrame

LEMMA InitRetries == Init => RetriesCountUp
BY DEF Init, RetriesCountUp, DunningJobs

\* Retries are counted 1, 2, ... without a gap and never past the longest grace
\* period, whatever is redelivered or enqueued twice and however the terms
\* change: the id check of the queue and the counter in the payload suffice.
THEOREM RetriesNumbered == Spec => []RetriesCountUp
<1>1. Init => TypeOK /\ RetriesCountUp
  BY InitType, InitRetries
<1>2. TypeOK /\ RetriesCountUp /\ [Next]_vars
        => (TypeOK /\ RetriesCountUp)'
  BY NextType, RetriesCountUpStep
<1>. QED
  BY <1>1, <1>2, PTL DEF Spec


\* A retry that is over has had its turn, and so has every retry that another
\* one followed.
TurnsTaken ==
    /\ \A j \in DunningJobs : dunning[j] = "retry" => j \in spent
    /\ \A s \in Subs : \A n \in Retries :
        n >= 1 /\ n + 1 \in Retries /\ dunning[<<s, n + 1>>] # "none" => <<s, n>> \in spent

\* A retry comes to its end only by taking its turn.
LEMMA TurnFrame ==
    ASSUME TypeOK, [Next]_vars
    PROVE  /\ spent \subseteq spent'
           /\ \A j \in DunningJobs : dunning'[j] = "retry" => dunning[j] = "retry" \/ j \in spent'
<1>1. ASSUME NEW i \in ChargeJobs, ChargeStep(i)
      PROVE  /\ spent' = spent
             /\ \A j \in DunningJobs : dunning'[j] = "retry" => dunning[j] = "retry"
  <2>1. spent' = spent /\ (UNCHANGED dunning \/ \E m \in {0, 1} : EnqueueDunning(i[1], m))
    BY <1>1 DEF ChargeStep, ChargeReads, ChargeDeferred, ChargeSends,
       ChargeAccepted, ChargeFails, ChargeAdvances, ChargeAdvanceFails, ChargeRetries,
       ChargeHandsOver, ChargeMarks, ChargeThrows, ChargeCompletes, books
  <2>. QED  BY <2>1 DEF EnqueueDunning, Added, TypeOK
<1>2. ASSUME NEW i \in DunningJobs, DunningStep(i)
      PROVE  /\ spent \subseteq spent'
             /\ \A j \in DunningJobs : dunning'[j] = "retry" => dunning[j] = "retry" \/ j \in spent'
  <2>1. CASE DunningRefused(i) \/ DunningFails(i) \/ DunningAdvanceFails(i)
    BY <2>1 DEF DunningRefused, DunningFails, DunningAdvanceFails, DunningGoto, TypeOK
  <2>2. CASE DunningRetries(i)
    BY <2>2 DEF DunningRetries, Added, TypeOK, books
  <2>3. CASE ~(DunningRefused(i) \/ DunningFails(i) \/ DunningAdvanceFails(i) \/ DunningRetries(i))
    <3>1. /\ spent' = spent
          /\ \E place \in DunningState \ {"retry"} : DunningGoto(i, place)
      BY <1>2, <2>3 DEF DunningStep, DunningDiscards, DunningHeld, DunningChecks,
         DunningGivesUp, DunningSends, DunningAccepted, DunningAdvances,
         DunningExhausts, DunningCancels, DunningRecords, DunningThrows,
         DunningCompletes, DunningState, books
    <3>. QED  BY <3>1 DEF DunningGoto, TypeOK
  <2>. QED  BY <2>1, <2>2, <2>3
<1>3. ASSUME NEW s \in Subs, OtherStep(s)
      PROVE  UNCHANGED <<spent, dunning>>
  BY <1>3 DEF OtherStep, FallsDue, BillingPicks, BillingEnqueues,
     BillingFindsNoCard, BillingSkips, ReplayEnqueues, ReplayDeletes, CheckoutPaid,
     CustomerCancels, MerchantReactivates, PlanUpdated, PlanDeleted, queues, books
<1>4. CASE Crash
  BY <1>4 DEF Crash, TypeOK, books
<1>5. CASE BreakerChanges \/ UNCHANGED vars
  BY <1>5 DEF BreakerChanges, vars, queues, books
<1>. QED
  BY <1>1, <1>2, <1>3, <1>4, <1>5 DEF Next

LEMMA TurnsTakenStep ==
    ASSUME TypeOK, TurnsTaken, [Next]_vars
    PROVE  TurnsTaken'
<1>. USE ConstantsAssumption
<1>1. \A j \in DunningJobs : dunning'[j] = "retry" => j \in spent'
  BY TurnFrame DEF TurnsTaken
<1>2. ASSUME NEW s \in Subs, NEW n \in Retries, n >= 1, n + 1 \in Retries,
             dunning'[<<s, n + 1>>] # "none", dunning[<<s, n + 1>>] = "none"
      PROVE  dunning[<<s, n>>] = "retry"
  <2>. DEFINE id == <<s, n + 1>>
  <2>1. id \in DunningJobs /\ <<s, n>> \in DunningJobs
    BY <1>2 DEF DunningJobs
  <2>2. ASSUME NEW i \in DunningJobs,
               DunningMoves(i) \/ DunningGivesUp(i) \/ DunningExhausts(i)
        PROVE  FALSE
    BY <1>2, <2>1, <2>2 DEF DunningMoves, DunningGivesUp, DunningExhausts, DunningGoto, TypeOK
  <2>3. ASSUME NEW i \in DunningJobs, DunningRetries(i)
        PROVE  dunning[<<s, n>>] = "retry"
    <3>1. i[1] \in Subs /\ i[2] \in Retries /\ i = <<i[1], i[2]>> /\ dunning[i] = "retry"
      BY <2>3, JobIsPair DEF DunningRetries
    <3>2. id = <<i[1], i[2] + 1>>
      BY <1>2, <2>1, <2>3, <3>1 DEF DunningRetries, Added, TypeOK
    <3>3. i = <<s, n>>
      BY <3>1, <3>2, <1>2 DEF Retries
    <3>. QED  BY <3>1, <3>3
  <2>4. ASSUME NEW t \in Subs, NEW m \in {0, 1}, EnqueueDunning(t, m)
        PROVE  FALSE
    <3>1. id # <<t, m>>
      BY <1>2 DEF Retries
    <3>. QED  BY <1>2, <2>1, <2>4, <3>1 DEF EnqueueDunning, Added, TypeOK
  <2>5. CASE Crash
    BY <1>2, <2>1, <2>5 DEF Crash, ActiveRetries
  <2>. QED
    BY <1>2, <2>2, <2>3, <2>4, <2>5, DunningFrame
<1>3. ASSUME NEW s \in Subs, NEW n \in Retries, n >= 1, n + 1 \in Retries,
             dunning'[<<s, n + 1>>] # "none"
      PROVE  <<s, n>> \in spent'
  <2>1. <<s, n>> \in DunningJobs /\ spent \subseteq spent'
    BY TurnFrame DEF DunningJobs
  <2>. QED
    BY <1>2, <1>3, <2>1 DEF TurnsTaken
<1>. QED
  BY <1>1, <1>3 DEF TurnsTaken

LEMMA InitTurns == Init => TurnsTaken
BY DEF Init, TurnsTaken, DunningJobs

LEMMA GivenUpStep ==
    ASSUME TypeOK, RetriesCountUp, TurnsTaken, [Next]_vars,
           NEW j \in DunningJobs, dunning[j] # "exhausted", dunning'[j] = "exhausted"
    PROVE  \/ ~Exists(j[1])
           \/ /\ j[2] >= limit'[j]
              /\ \A n \in 1..limit'[j] : <<j[1], n>> \in spent
<1>. USE ConstantsAssumption
<1>1. DunningGivesUp(j) \/ DunningExhausts(j)
  <2>1. ~UNCHANGED dunning
    OBVIOUS
  <2>2. ASSUME NEW i \in DunningJobs, DunningMoves(i) PROVE FALSE
    BY <2>2 DEF TypeOK, DunningMoves, DunningGoto
  <2>3. ASSUME NEW i \in DunningJobs, DunningGivesUp(i) \/ DunningExhausts(i)
        PROVE  i = j
    BY <2>3 DEF TypeOK, DunningGivesUp, DunningExhausts, DunningGoto
  <2>4. ASSUME NEW i \in DunningJobs, DunningRetries(i) PROVE FALSE
    BY <2>4 DEF TypeOK, DunningRetries, Added
  <2>5. ASSUME NEW s \in Subs, NEW n \in {0, 1}, EnqueueDunning(s, n) PROVE FALSE
    BY <2>5 DEF TypeOK, EnqueueDunning, Added
  <2>6. CASE Crash
    BY <2>6 DEF TypeOK, Crash, ActiveRetries
  <2>. QED
    BY <2>1, <2>2, <2>3, <2>4, <2>5, <2>6, DunningFrame
<1>2. j[1] \in Subs /\ j[2] \in Retries /\ j = <<j[1], j[2]>>
  BY JobIsPair
\* Every retry before j has been followed by another one.
<1>3. ASSUME NEW n \in Nat, n >= 1, n < j[2], dunning[j] # "none"
      PROVE  <<j[1], n>> \in spent
  <2>1. n \in Retries /\ n + 1 \in Retries /\ n + 1 \in 1..j[2]
    BY <1>2, <1>3 DEF Retries
  <2>2. dunning[<<j[1], n + 1>>] # "none"
    BY <1>2, <1>3, <2>1 DEF RetriesCountUp
  <2>. QED
    BY <1>2, <1>3, <2>1, <2>2 DEF TurnsTaken
<1>4. CASE DunningGivesUp(j)
  <2>1. grace[j[1]] \in 0..MaxGrace /\ limit'[j] = grace[j[1]] /\ dunning[j] # "none"
    BY <1>2, <1>4 DEF DunningGivesUp, ReadsTerms, TypeOK
  <2>2. ~Exists(j[1]) \/ j[2] > limit'[j]
    BY <1>4, <2>1 DEF DunningGivesUp
  <2>. QED
    BY <1>2, <1>3, <2>1, <2>2 DEF Retries
<1>5. CASE DunningExhausts(j)
  <2>1. limit[j] \in 0..MaxGrace /\ limit' = limit /\ dunning[j] = "retry" /\ j[2] + 1 > limit[j]
    BY <1>5 DEF DunningExhausts, TypeOK
  <2>2. j \in spent
    BY <2>1 DEF TurnsTaken
  <2>3. ASSUME NEW n \in 1..limit'[j]
        PROVE  <<j[1], n>> \in spent
    <3>1. n \in Nat /\ n >= 1 /\ n <= j[2]
      BY <1>2, <2>1 DEF Retries
    <3>2. CASE n = j[2]
      BY <1>2, <2>2, <3>2
    <3>3. CASE n < j[2]
      BY <1>3, <2>1, <3>1, <3>3
    <3>. QED  BY <1>2, <3>1, <3>2, <3>3 DEF Retries
  <2>. QED
    BY <1>2, <2>1, <2>3 DEF Retries
<1>. QED
  BY <1>1, <1>4, <1>5

\* A subscription whose plan exists is never given up before every retry within
\* the grace period that the worker read (gracePeriodDays, line 265) has been sent
\* and failed, or been refused by the open breaker: for every grace period, and
\* however the merchant changes it while retries are under way.
THEOREM GivenUpSpent == Spec => GivenUpOnlyWhenSpent
<1>1. Init => TypeOK /\ RetriesCountUp /\ TurnsTaken
  BY InitType, InitRetries, InitTurns
<1>2. TypeOK /\ RetriesCountUp /\ TurnsTaken /\ [Next]_vars
        => (TypeOK /\ RetriesCountUp /\ TurnsTaken)'
  BY NextType, RetriesCountUpStep, TurnsTakenStep
<1>3. TypeOK /\ RetriesCountUp /\ TurnsTaken /\ [Next]_vars =>
        [\A j \in DunningJobs :
          dunning[j] # "exhausted" /\ dunning'[j] = "exhausted" =>
            \/ ~Exists(j[1])
            \/ /\ j[2] >= limit'[j]
               /\ \A n \in 1..limit'[j] : <<j[1], n>> \in spent]_vars
  BY GivenUpStep
<1>. QED
  BY <1>1, <1>2, <1>3, PTL DEF Spec, GivenUpOnlyWhenSpent

----------------------------------------------------------------------------
(* Money.                                                                  *)

\* Every job past its request has collected in this period; a job whose key
\* was debited before is either over, or has collected in this period and
\* will find its key used if it runs again.
CollectedWorks(j) ==
    /\ dunning[j] # "none"
    /\ dunning[j] # "ended" =>
        /\ j[1] \in paid
        /\ dunning[j] = "delayed" => j \in stalled.dunning

MoneyTaken ==
    /\ \A j \in ChargeJobs : charge[j] = "paid" => j[1] \in paid
    /\ \A j \in DunningJobs : dunning[j] = "paid" => j \in collected
    /\ \A j \in collected : CollectedWorks(j)

LEMMA ChargeMoney ==
    ASSUME TypeOK, MoneyTaken, NEW j \in ChargeJobs, ChargeStep(j)
    PROVE  MoneyTaken'
<1>. \A i \in ChargeJobs : i[1] \in Subs
  BY DEF ChargeJobs
<1>. \A i \in DunningJobs : i[1] \in Subs
  BY DEF DunningJobs
<1>1. CASE ChargeReads(j)
  BY <1>1 DEF ChargeReads, TypeOK, MoneyTaken, CollectedWorks, ChargeGoto, books
<1>2. CASE ChargeDeferred(j)
  BY <1>2 DEF ChargeDeferred, TypeOK, MoneyTaken, CollectedWorks, ChargeGoto, books, EnqueueDunning, Added
<1>3. CASE ChargeSends(j)
  BY <1>3 DEF ChargeSends, TypeOK, MoneyTaken, CollectedWorks, ChargeGoto, books
<1>4. CASE ChargeAccepted(j)
  BY <1>4 DEF ChargeAccepted, TypeOK, MoneyTaken, CollectedWorks, ChargeGoto, books, Debit
<1>5. CASE ChargeFails(j)
  BY <1>5 DEF ChargeFails, TypeOK, MoneyTaken, CollectedWorks, ChargeGoto, books, Debit
<1>6. CASE ChargeAdvances(j)
  BY <1>6 DEF ChargeAdvances, TypeOK, MoneyTaken, CollectedWorks, ChargeGoto, books
<1>7. CASE ChargeAdvanceFails(j)
  BY <1>7 DEF ChargeAdvanceFails, TypeOK, MoneyTaken, CollectedWorks, ChargeGoto, books
<1>8. CASE ChargeRetries(j)
  BY <1>8 DEF ChargeRetries, TypeOK, MoneyTaken, CollectedWorks, ChargeGoto, books, EnqueueDunning, Added
<1>9. CASE ChargeHandsOver(j)
  BY <1>9 DEF ChargeHandsOver, TypeOK, MoneyTaken, CollectedWorks, ChargeGoto, books, EnqueueDunning, Added
<1>10. CASE ChargeMarks(j)
  BY <1>10 DEF ChargeMarks, TypeOK, MoneyTaken, CollectedWorks, ChargeGoto, books
<1>11. CASE ChargeThrows(j)
  BY <1>11 DEF ChargeThrows, TypeOK, MoneyTaken, CollectedWorks, ChargeGoto, books
<1>12. CASE ChargeCompletes(j)
  BY <1>12 DEF ChargeCompletes, TypeOK, MoneyTaken, CollectedWorks, ChargeGoto, books
<1>. QED
  BY <1>1, <1>2, <1>3, <1>4, <1>5, <1>6, <1>7, <1>8, <1>9, <1>10, <1>11, <1>12 DEF ChargeStep

LEMMA DunningMoney ==
    ASSUME TypeOK, MoneyTaken, NEW j \in DunningJobs, DunningStep(j)
    PROVE  MoneyTaken'
<1>. \A i \in ChargeJobs : i[1] \in Subs
  BY DEF ChargeJobs
<1>. \A i \in DunningJobs : i[1] \in Subs
  BY DEF DunningJobs
<1>1. CASE DunningDiscards(j)
  BY <1>1 DEF DunningDiscards, TypeOK, MoneyTaken, CollectedWorks, DunningGoto, queues, books
<1>2. CASE DunningHeld(j)
  BY <1>2 DEF DunningHeld, TypeOK, MoneyTaken, CollectedWorks, DunningGoto, ForgetsStall, queues, books
<1>3. CASE DunningChecks(j)
  BY <1>3 DEF DunningChecks, TypeOK, MoneyTaken, CollectedWorks, DunningGoto, queues, books
<1>4. CASE DunningGivesUp(j)
  BY <1>4 DEF DunningGivesUp, TypeOK, MoneyTaken, CollectedWorks, DunningGoto, queues, books
<1>5. CASE DunningSends(j) \/ DunningRefused(j)
  BY <1>5 DEF DunningSends, DunningRefused, TypeOK, MoneyTaken, CollectedWorks, DunningGoto, queues, books
<1>6. CASE DunningAccepted(j)
  BY <1>6 DEF DunningAccepted, TypeOK, MoneyTaken, CollectedWorks, DunningGoto, queues, books, DebitOnce, Debit
<1>7. CASE DunningFails(j)
  BY <1>7 DEF DunningFails, TypeOK, MoneyTaken, CollectedWorks, DunningGoto, queues, books, DebitOnce, Debit
<1>8. CASE DunningAdvances(j)
  BY <1>8 DEF DunningAdvances, TypeOK, MoneyTaken, CollectedWorks, DunningGoto, queues, books
<1>9. CASE DunningAdvanceFails(j)
  BY <1>9 DEF DunningAdvanceFails, TypeOK, MoneyTaken, CollectedWorks, DunningGoto, queues, books
<1>10. CASE DunningRetries(j)
  BY <1>10 DEF DunningRetries, TypeOK, MoneyTaken, CollectedWorks, DunningGoto, queues, books, Added
<1>11. CASE DunningExhausts(j)
  BY <1>11 DEF DunningExhausts, TypeOK, MoneyTaken, CollectedWorks, DunningGoto, queues, books
<1>12. CASE DunningCancels(j)
  BY <1>12 DEF DunningCancels, TypeOK, MoneyTaken, CollectedWorks, DunningGoto, queues, books
<1>13. CASE DunningRecords(j)
  BY <1>13 DEF DunningRecords, TypeOK, MoneyTaken, CollectedWorks, DunningGoto, queues, books
<1>14. CASE DunningThrows(j)
  BY <1>14 DEF DunningThrows, TypeOK, MoneyTaken, CollectedWorks, DunningGoto, ForgetsStall, queues, books
<1>15. CASE DunningCompletes(j)
  BY <1>15 DEF DunningCompletes, TypeOK, MoneyTaken, CollectedWorks, DunningGoto, ForgetsStall, queues, books
<1>. QED
  BY <1>1, <1>2, <1>3, <1>4, <1>5, <1>6, <1>7, <1>8, <1>9, <1>10, <1>11, <1>12, <1>13, <1>14, <1>15 DEF DunningStep

LEMMA OtherMoney ==
    ASSUME TypeOK, MoneyTaken, NEW s \in Subs, OtherStep(s)
    PROVE  MoneyTaken'
<1>. \A i \in ChargeJobs : i[1] \in Subs
  BY DEF ChargeJobs
<1>. \A i \in DunningJobs : i[1] \in Subs
  BY DEF DunningJobs
<1>1. CASE FallsDue(s)
  BY <1>1 DEF FallsDue, TypeOK, MoneyTaken, CollectedWorks, queues, books, ChargeJobs, DunningJobs
<1>2. CASE BillingPicks(s)
  BY <1>2 DEF BillingPicks, TypeOK, MoneyTaken, CollectedWorks, queues, books
<1>3. CASE BillingEnqueues(s)
  BY <1>3 DEF BillingEnqueues, TypeOK, MoneyTaken, CollectedWorks, queues, books, EnqueueCharge, ChargeGoto
<1>4. CASE BillingFindsNoCard(s)
  BY <1>4 DEF BillingFindsNoCard, TypeOK, MoneyTaken, CollectedWorks, queues, books
<1>5. ASSUME NEW l \in LettersOf(s), ReplayEnqueues(l)
      PROVE  MoneyTaken'
  BY <1>5 DEF ReplayEnqueues, TypeOK, MoneyTaken, CollectedWorks, queues, books, EnqueueCharge, ChargeGoto
<1>6. ASSUME NEW l \in LettersOf(s), ReplayDeletes(l)
      PROVE  MoneyTaken'
  BY <1>6 DEF ReplayDeletes, TypeOK, MoneyTaken, CollectedWorks, queues, books
<1>7. CASE CheckoutPaid(s)
  BY <1>7 DEF CheckoutPaid, TypeOK, MoneyTaken, CollectedWorks, queues, books
<1>8. CASE CustomerCancels(s)
  BY <1>8 DEF CustomerCancels, TypeOK, MoneyTaken, CollectedWorks, queues, books
<1>9. CASE MerchantReactivates(s)
  BY <1>9 DEF MerchantReactivates, TypeOK, MoneyTaken, CollectedWorks, queues, books
<1>10. CASE BillingSkips(s)
  BY <1>10 DEF BillingSkips, TypeOK, MoneyTaken, CollectedWorks, queues, books
<1>11. CASE PlanDeleted(s) \/ PlanUpdated(s)
  BY <1>11 DEF PlanUpdated, PlanDeleted, TypeOK, MoneyTaken, CollectedWorks, queues, books
<1>. QED
  BY <1>1, <1>2, <1>3, <1>4, <1>5, <1>6, <1>7, <1>8, <1>9, <1>10, <1>11 DEF OtherStep

LEMMA CrashMoney ==
    ASSUME TypeOK, MoneyTaken, Crash
    PROVE  MoneyTaken'
BY DEF TypeOK, MoneyTaken, CollectedWorks, Crash, ActiveCharges, ActiveRetries, books

LEMMA NextMoney ==
    ASSUME TypeOK, MoneyTaken, [Next]_vars
    PROVE  MoneyTaken'
<1>1. CASE \E j \in ChargeJobs : ChargeStep(j)
  BY <1>1, ChargeMoney
<1>2. CASE \E j \in DunningJobs : DunningStep(j)
  BY <1>2, DunningMoney
<1>3. CASE \E s \in Subs : OtherStep(s)
  BY <1>3, OtherMoney
<1>4. CASE BreakerChanges \/ UNCHANGED vars
  BY <1>4 DEF MoneyTaken, CollectedWorks, BreakerChanges, vars, queues, books
<1>5. CASE Crash
  BY <1>5, CrashMoney
<1>. QED
  BY <1>1, <1>2, <1>3, <1>4, <1>5 DEF Next

LEMMA InitMoney == Init => MoneyTaken
BY DEF Init, MoneyTaken

\* What may have happened when s rolls into its next period.
Earned(s) ==
    \/ s \in paid
    \/ checkout'[s] # checkout[s]
    \/ status[s] = "canceled"

LEMMA RolledIsEarned ==
    ASSUME TypeOK, MoneyTaken, [Next]_vars, NEW s \in Subs, Rolled(s)
    PROVE  Earned(s)
<1>1. ASSUME NEW j \in ChargeJobs, ChargeStep(j)
      PROVE  Earned(s)
  <2>1. ChargeAdvances(j)
    BY <1>1 DEF Rolled, ChargeStep, ChargeReads, ChargeDeferred,
       ChargeSends, ChargeAccepted, ChargeFails, ChargeAdvanceFails, ChargeRetries,
       ChargeHandsOver, ChargeMarks, ChargeThrows, ChargeCompletes
  <2>2. j[1] = s
    BY <2>1 DEF TypeOK, Rolled, ChargeAdvances, Advance
  <2>. QED
    BY <2>1, <2>2 DEF MoneyTaken, ChargeAdvances, Earned
<1>2. ASSUME NEW j \in DunningJobs, DunningStep(j)
      PROVE  Earned(s)
  <2>1. DunningAdvances(j)
    BY <1>2 DEF Rolled, DunningStep, DunningDiscards, DunningHeld, DunningChecks,
       DunningGivesUp, DunningSends, DunningRefused, DunningAccepted, DunningFails,
       DunningAdvanceFails, DunningRetries, DunningExhausts, DunningCancels,
       DunningRecords, DunningThrows, DunningCompletes
  <2>2. j[1] = s
    BY <2>1 DEF TypeOK, Rolled, DunningAdvances, Advance
  <2>. QED
    BY <2>1, <2>2 DEF MoneyTaken, CollectedWorks, DunningAdvances, Earned
<1>3. ASSUME NEW t \in Subs, OtherStep(t)
      PROVE  Earned(s)
  <2>1. FallsDue(t) \/ CheckoutPaid(t) \/ MerchantReactivates(t) \/ PlanDeleted(t)
    BY <1>3 DEF Rolled, OtherStep, BillingPicks, BillingEnqueues, BillingFindsNoCard,
       BillingSkips, ReplayEnqueues, ReplayDeletes, CustomerCancels, PlanUpdated
  <2>2. CASE FallsDue(t)
    BY <2>2 DEF TypeOK, Rolled, FallsDue
  <2>3. CASE CheckoutPaid(t)
    BY <2>3 DEF TypeOK, Rolled, CheckoutPaid, Advance, Earned
  <2>4. CASE MerchantReactivates(t)
    BY <2>4 DEF TypeOK, Rolled, MerchantReactivates, Advance, Earned
  <2>5. CASE PlanDeleted(t)
    BY <2>5 DEF TypeOK, Rolled, PlanDeleted
  <2>. QED
    BY <2>1, <2>2, <2>3, <2>4, <2>5
<1>4. CASE BreakerChanges \/ Crash \/ UNCHANGED vars
  BY <1>4 DEF Rolled, BreakerChanges, Crash, vars
<1>. QED
  BY <1>1, <1>2, <1>3, <1>4 DEF Next

\* No worker rolls a subscription into its next period for nothing: a card
\* collection of the period stands behind it, whatever crashed, was delivered
\* again or hit a key the gateway had already seen.
THEOREM PeriodsAreEarned == Spec => NoFreePeriod
<1>1. Init => TypeOK /\ MoneyTaken
  BY InitType, InitMoney
<1>2. TypeOK /\ MoneyTaken /\ [Next]_vars
        => (TypeOK /\ MoneyTaken)'
  BY NextType, NextMoney
<1>3. TypeOK /\ MoneyTaken /\ [Next]_vars =>
        [\A s \in Subs :
          Rolled(s) =>
            \/ s \in paid
            \/ checkout'[s] # checkout[s]
            \/ status[s] = "canceled"]_vars
  BY RolledIsEarned DEF Earned
<1>. QED
  BY <1>1, <1>2, <1>3, PTL DEF Spec, NoFreePeriod

----------------------------------------------------------------------------
(* Cards.                                                                  *)

\* Something is to be collected from s, or could not be.
Work(s) ==
    \/ \E k \in Slots : charge[<<s, k>>] # "free"
    \/ \E n \in Retries : dunning[<<s, n>>] # "none"
    \/ LettersOf(s) \cap dlq # {}

\* A step may bring work into being for s, and for no other subscription.
WorkGrowsAt(s) ==
    /\ \A j \in ChargeJobs : charge'[j] # "free" => charge[j] # "free" \/ j[1] = s
    /\ \A j \in DunningJobs : dunning'[j] # "none" => dunning[j] # "none" \/ j[1] = s
    /\ \A l \in dlq' : l \in dlq \/ l[1] = s

LEMMA WorkGrows ==
    ASSUME NEW s \in Subs, WorkGrowsAt(s), NEW t \in Subs, Work(t)'
    PROVE  Work(t) \/ t = s
<1>1. ASSUME NEW k \in Slots PROVE <<t, k>> \in ChargeJobs /\ <<t, k>>[1] = t
  BY DEF ChargeJobs
<1>2. ASSUME NEW n \in Retries PROVE <<t, n>> \in DunningJobs /\ <<t, n>>[1] = t
  BY DEF DunningJobs
<1>. QED
  BY <1>1, <1>2 DEF Work, WorkGrowsAt, LettersOf

LEMMA ChargeWork ==
    ASSUME TypeOK, NEW j \in ChargeJobs, ChargeStep(j)
    PROVE  Work(j[1]) /\ WorkGrowsAt(j[1]) /\ UNCHANGED card
<1>1. j[1] \in Subs /\ j[2] \in Slots /\ j = <<j[1], j[2]>>
  BY DEF ChargeJobs
<1>2. charge[j] # "free" /\ UNCHANGED card
  BY DEF ChargeStep, ChargeReads, ChargeDeferred, ChargeSends, ChargeAccepted,
     ChargeFails, ChargeAdvances, ChargeAdvanceFails, ChargeRetries,
     ChargeHandsOver, ChargeMarks, ChargeThrows, ChargeCompletes
<1>3. \A i \in ChargeJobs : i # j => charge'[i] = charge[i]
  BY DEF TypeOK, ChargeGoto, ChargeStep, ChargeReads, ChargeDeferred, ChargeSends,
     ChargeAccepted, ChargeFails, ChargeAdvances, ChargeAdvanceFails, ChargeRetries,
     ChargeHandsOver, ChargeMarks, ChargeThrows, ChargeCompletes
<1>4. UNCHANGED dunning \/ EnqueueDunning(j[1], 0) \/ EnqueueDunning(j[1], 1)
  BY DEF ChargeStep, ChargeReads, ChargeDeferred, ChargeSends, ChargeAccepted,
     ChargeFails, ChargeAdvances, ChargeAdvanceFails, ChargeRetries,
     ChargeHandsOver, ChargeMarks, ChargeThrows, ChargeCompletes
<1>5. UNCHANGED dlq \/ SendToDlq(j[1])
  BY DEF ChargeStep, ChargeReads, ChargeDeferred, ChargeSends, ChargeAccepted,
     ChargeFails, ChargeAdvances, ChargeAdvanceFails, ChargeRetries,
     ChargeHandsOver, ChargeMarks, ChargeThrows, ChargeCompletes
<1>6. \A i \in DunningJobs : dunning'[i] # "none" => dunning[i] # "none" \/ i[1] = j[1]
  BY <1>4 DEF TypeOK, EnqueueDunning, Added
<1>7. \A l \in dlq' : l \in dlq \/ l[1] = j[1]
  BY <1>5 DEF SendToDlq, LettersOf
<1>8. Work(j[1])
  BY <1>1, <1>2 DEF Work
<1>. QED
  BY <1>2, <1>3, <1>6, <1>7, <1>8 DEF WorkGrowsAt

LEMMA DunningWork ==
    ASSUME TypeOK, NEW j \in DunningJobs, DunningStep(j)
    PROVE  Work(j[1]) /\ WorkGrowsAt(j[1]) /\ UNCHANGED card
<1>1. j[1] \in Subs /\ j[2] \in Retries /\ j = <<j[1], j[2]>>
  BY DEF DunningJobs
<1>2. dunning[j] # "none" /\ UNCHANGED <<charge, card>>
  BY DEF DunningStep, DunningDiscards, DunningHeld, DunningChecks, DunningGivesUp,
     DunningSends, DunningRefused, DunningAccepted, DunningFails, DunningAdvances,
     DunningAdvanceFails, DunningRetries, DunningExhausts, DunningCancels,
     DunningRecords, DunningThrows, DunningCompletes, queues
<1>3. DunningMoves(j) \/ DunningGivesUp(j) \/ DunningExhausts(j) \/ DunningRetries(j)
  BY DEF DunningMoves, DunningState, DunningStep, DunningDiscards, DunningHeld,
     DunningChecks, DunningSends, DunningRefused, DunningAccepted, DunningFails, DunningAdvances,
     DunningAdvanceFails, DunningCancels, DunningRecords, DunningThrows,
     DunningCompletes
<1>4. UNCHANGED dlq \/ SendToDlq(j[1])
  BY DEF DunningStep, DunningDiscards, DunningHeld, DunningChecks, DunningGivesUp,
     DunningSends, DunningRefused, DunningAccepted, DunningFails, DunningAdvances,
     DunningAdvanceFails, DunningRetries, DunningExhausts, DunningCancels,
     DunningRecords, DunningThrows, DunningCompletes
<1>5. \A i \in DunningJobs : dunning'[i] # "none" => dunning[i] # "none" \/ i[1] = j[1]
  BY <1>1, <1>3 DEF TypeOK, DunningMoves, DunningGivesUp, DunningExhausts,
     DunningRetries, DunningGoto, Added
<1>6. \A l \in dlq' : l \in dlq \/ l[1] = j[1]
  BY <1>4 DEF SendToDlq, LettersOf
<1>7. Work(j[1])
  BY <1>1, <1>2 DEF Work
<1>. QED
  BY <1>2, <1>5, <1>6, <1>7 DEF WorkGrowsAt

LEMMA EnqueueChargeWork ==
    ASSUME TypeOK, NEW s \in Subs, EnqueueCharge(s)
    PROVE  \A j \in ChargeJobs : charge'[j] # "free" => charge[j] # "free" \/ j[1] = s
BY DEF TypeOK, EnqueueCharge, ChargeGoto

LEMMA OtherWork ==
    ASSUME TypeOK, NEW s \in Subs, OtherStep(s)
    PROVE  /\ WorkGrowsAt(s)
           /\ Work(s)' => Work(s) \/ card[s]
           /\ \A t \in Subs : card[t] => card'[t]
<1>1. CASE BillingEnqueues(s)
  <2>1. EnqueueCharge(s) /\ UNCHANGED <<dunning, dlq, card>> /\ card[s]
    BY <1>1 DEF BillingEnqueues
  <2>. QED
    BY <2>1, EnqueueChargeWork DEF WorkGrowsAt, Work
<1>2. ASSUME NEW l \in LettersOf(s), ReplayEnqueues(l)
      PROVE  /\ WorkGrowsAt(s)
             /\ Work(s)' => Work(s) \/ card[s]
             /\ \A t \in Subs : card[t] => card'[t]
  <2>1. EnqueueCharge(s) /\ UNCHANGED <<dunning, dlq, card>> /\ l \in LettersOf(s) \cap dlq
    BY <1>2 DEF ReplayEnqueues, LettersOf
  <2>. QED
    BY <2>1, EnqueueChargeWork DEF WorkGrowsAt, Work
<1>3. ASSUME NEW l \in LettersOf(s), ReplayDeletes(l)
      PROVE  /\ WorkGrowsAt(s)
             /\ Work(s)' => Work(s) \/ card[s]
             /\ \A t \in Subs : card[t] => card'[t]
  BY <1>3 DEF ReplayDeletes, WorkGrowsAt, Work, queues
<1>4. CASE CheckoutPaid(s)
  BY <1>4 DEF TypeOK, CheckoutPaid, WorkGrowsAt, Work, queues
<1>5. CASE \/ FallsDue(s) \/ BillingPicks(s) \/ BillingFindsNoCard(s) \/ BillingSkips(s)
           \/ CustomerCancels(s) \/ MerchantReactivates(s) \/ PlanUpdated(s) \/ PlanDeleted(s)
  <2>1. UNCHANGED <<charge, dunning, dlq, card>>
    BY <1>5 DEF FallsDue, BillingPicks, BillingFindsNoCard, BillingSkips,
       CustomerCancels, MerchantReactivates, PlanUpdated, PlanDeleted, queues
  <2>. QED
    BY <2>1 DEF WorkGrowsAt, Work
<1>. QED
  BY <1>1, <1>2, <1>3, <1>4, <1>5 DEF OtherStep

LEMMA WorkHasCardStep ==
    ASSUME TypeOK, WorkHasCard, [Next]_vars
    PROVE  WorkHasCard'
<1>. SUFFICES ASSUME NEW t \in Subs, Work(t)'
              PROVE  card'[t]
  BY DEF WorkHasCard, Work
<1>1. Work(t) => card[t]
  BY DEF WorkHasCard, Work
<1>2. ASSUME NEW j \in ChargeJobs, ChargeStep(j) PROVE card'[t]
  BY <1>1, <1>2, ChargeWork, WorkGrows DEF ChargeJobs
<1>3. ASSUME NEW j \in DunningJobs, DunningStep(j) PROVE card'[t]
  BY <1>1, <1>3, DunningWork, WorkGrows DEF DunningJobs
<1>4. ASSUME NEW s \in Subs, OtherStep(s) PROVE card'[t]
  BY <1>1, <1>4, OtherWork, WorkGrows
<1>5. CASE Crash
  <2>1. /\ \A j \in ChargeJobs : charge'[j] # "free" => charge[j] # "free"
        /\ \A j \in DunningJobs : dunning'[j] # "none" => dunning[j] # "none"
        /\ UNCHANGED <<dlq, card>>
    BY <1>5 DEF TypeOK, Crash, ActiveCharges, ActiveRetries
  <2>2. WorkGrowsAt(t) /\ (Work(t)' => Work(t))
    BY <2>1 DEF WorkGrowsAt, Work, ChargeJobs, DunningJobs
  <2>. QED
    BY <1>1, <2>1, <2>2
<1>6. CASE BreakerChanges \/ UNCHANGED vars
  BY <1>1, <1>6 DEF BreakerChanges, vars, queues, Work
<1>. QED
  BY <1>2, <1>3, <1>4, <1>5, <1>6 DEF Next

\* No charge, retry or dead letter ever stands for a customer without a card,
\* so a worker never finds the token of its job missing: the cron checks it,
\* nothing clears it, and every later job descends from one the cron queued.
THEOREM WorkIsChargeable == Spec => []WorkHasCard
<1>1. Init => TypeOK /\ WorkHasCard
  <2>1. ASSUME Init, NEW s \in Subs PROVE ~Work(s)
    <3>1. ASSUME NEW k \in Slots PROVE charge[<<s, k>>] = "free"
      BY <2>1 DEF Init, ChargeJobs
    <3>2. ASSUME NEW n \in Retries PROVE dunning[<<s, n>>] = "none"
      BY <2>1 DEF Init, DunningJobs
    <3>3. LettersOf(s) \cap dlq = {}
      BY <2>1 DEF Init
    <3>. QED
      BY <3>1, <3>2, <3>3 DEF Work
  <2>. QED
    BY <2>1, InitType DEF WorkHasCard, Work
<1>2. TypeOK /\ WorkHasCard /\ [Next]_vars
        => (TypeOK /\ WorkHasCard)'
  BY NextType, WorkHasCardStep
<1>. QED
  BY <1>1, <1>2, PTL DEF Spec

----------------------------------------------------------------------------
(* One retry at a time, as long as the process lives and the breaker stays *)
(* closed.  (A crash between the hand-over to the next retry and the       *)
(* completion of the last brings both to work; so does a charge deferred   *)
(* by the breaker beside one that failed.)                                 *)

\* A retry whose successor has been enqueued is over; none is deferred.
Chained ==
    \A s \in Subs : \A m, n \in Retries :
        dunning[<<s, n>>] # "none" => n # 0 /\ (m < n => ~Live(<<s, m>>))

\* A retry at work moves on, or any retry comes to rest.
DunningRuns(j) ==
    /\ dunning[j] # "none"
    /\ \E place \in DunningState \ {"none"} :
        /\ DunningGoto(j, place)
        /\ Live(j) \/ place \in {"done", "ended"}

\* All a step can do to the dunning queue with the breaker closed.
LEMMA CalmFrame ==
    ASSUME [Next]_vars, ~open, ~Crash
    PROVE  \/ UNCHANGED dunning
           \/ \E j \in DunningJobs : DunningRuns(j)
           \/ \E j \in DunningJobs : DunningRetries(j)
           \/ \E s \in Subs : EnqueueDunning(s, 1)
<1>1. ASSUME NEW j \in ChargeJobs, ChargeStep(j)
      PROVE  UNCHANGED dunning \/ EnqueueDunning(j[1], 1)
  BY <1>1 DEF ChargeStep, ChargeReads, ChargeDeferred, ChargeSends,
     ChargeAccepted, ChargeFails, ChargeAdvances, ChargeAdvanceFails, ChargeRetries,
     ChargeHandsOver, ChargeMarks, ChargeThrows, ChargeCompletes
<1>2. ASSUME NEW j \in DunningJobs, DunningStep(j)
      PROVE  DunningRuns(j) \/ DunningRetries(j)
  BY <1>2 DEF DunningRuns, Live, DunningState, DunningStep, DunningDiscards, DunningHeld,
     DunningChecks, DunningGivesUp, DunningSends, DunningRefused, DunningAccepted, DunningFails,
     DunningAdvances, DunningAdvanceFails, DunningExhausts, DunningCancels, DunningRecords,
     DunningThrows, DunningCompletes
<1>3. ASSUME NEW s \in Subs, OtherStep(s)
      PROVE  UNCHANGED dunning
  BY <1>3 DEF OtherStep, FallsDue, BillingPicks, BillingEnqueues,
     BillingFindsNoCard, BillingSkips, ReplayEnqueues, ReplayDeletes, CheckoutPaid,
     CustomerCancels, MerchantReactivates, PlanUpdated, PlanDeleted, queues
<1>4. \A j \in ChargeJobs : j[1] \in Subs
  BY DEF ChargeJobs
<1>5. CASE BreakerChanges \/ UNCHANGED vars
  BY <1>5 DEF BreakerChanges, vars, queues
<1>. QED
  BY <1>1, <1>2, <1>3, <1>4, <1>5 DEF Next

LEMMA ChainedStep ==
    ASSUME TypeOK, RetriesCountUp, Chained, ~open, ~Crash, [Next]_vars
    PROVE  Chained'
<1>. USE ConstantsAssumption
<1>1. \A s \in Subs, n \in Retries : <<s, n>> \in DunningJobs
  BY DEF DunningJobs
<1>2. CASE UNCHANGED dunning
  BY <1>2 DEF Chained, Live
<1>3. ASSUME NEW j \in DunningJobs, DunningRuns(j)
      PROVE  Chained'
  <2>1. /\ \A i \in DunningJobs : dunning'[i] # "none" => dunning[i] # "none"
        /\ \A i \in DunningJobs : Live(i)' => Live(i)
    BY <1>3 DEF DunningRuns, DunningGoto, TypeOK, Live
  <2>. QED  BY <1>1, <2>1 DEF Chained
<1>4. ASSUME NEW s \in Subs, EnqueueDunning(s, 1)
      PROVE  Chained'
  <2>. DEFINE id == <<s, 1>>
  <2>1. 1 \in Retries /\ 0 \in Retries
    BY DEF Retries
  <2>2. CASE dunning[id] # "none"
    <3>1. dunning' = dunning
      BY <1>1, <1>4, <2>1, <2>2 DEF EnqueueDunning, Added, TypeOK
    <3>. QED  BY <1>2, <3>1
  <2>3. CASE dunning[id] = "none"
    <3>1. \A i \in DunningJobs : dunning'[i] = IF i = id THEN "delayed" ELSE dunning[i]
      BY <1>4, <2>3 DEF EnqueueDunning, Added, TypeOK
    <3>2. \A n \in Retries : dunning[<<s, n>>] = "none"
      <4>. SUFFICES ASSUME NEW n \in Retries, dunning[<<s, n>>] # "none"
                    PROVE  FALSE
        OBVIOUS
      <4>1. n # 0 /\ \A m \in 1..n : dunning[<<s, m>>] # "none"
        BY DEF Chained, RetriesCountUp
      <4>2. 1 \in 1..n
        BY <4>1 DEF Retries
      <4>. QED  BY <2>3, <4>1, <4>2
    <3>3. ASSUME NEW t \in Subs, NEW m \in Retries, NEW n \in Retries, dunning'[<<t, n>>] # "none"
          PROVE  n # 0 /\ (m < n => ~Live(<<t, m>>)')
      <4>1. CASE t = s
        <5>1. n = 1
          BY <1>1, <3>1, <3>2, <3>3, <4>1
        <5>2. m < n => dunning'[<<t, m>>] = "none"
          BY <1>1, <3>1, <3>2, <4>1, <5>1
        <5>. QED  BY <5>1, <5>2 DEF Live
      <4>2. CASE t # s
        <5>1. dunning'[<<t, n>>] = dunning[<<t, n>>] /\ dunning'[<<t, m>>] = dunning[<<t, m>>]
          BY <1>1, <3>1, <4>2
        <5>. QED  BY <3>3, <5>1 DEF Chained, Live
      <4>. QED  BY <4>1, <4>2
    <3>. QED  BY <3>3 DEF Chained
  <2>. QED  BY <2>2, <2>3
<1>5. ASSUME NEW j \in DunningJobs, DunningRetries(j)
      PROVE  Chained'
  <2>. DEFINE s == j[1]
              k == j[2] + 1
              id == <<s, k>>
  <2>1. s \in Subs /\ j[2] \in Retries /\ k \in Retries /\ j = <<s, j[2]>> /\ dunning[j] = "retry"
    BY <1>5, JobIsPair DEF TypeOK, DunningRetries, Retries
  <2>2. id \in DunningJobs /\ id # j
    BY <2>1 DEF DunningJobs, Retries
  <2>3. \A n \in Retries : dunning[<<s, n>>] # "none" => n <= j[2]
    <3>1. Live(<<s, j[2]>>)
      BY <2>1 DEF Live
    <3>. QED  BY <2>1, <3>1 DEF Chained, Retries
  <2>4. dunning[id] = "none"
    BY <2>1, <2>3 DEF Retries
  <2>5. \A i \in DunningJobs :
            dunning'[i] = IF i = j THEN "done" ELSE IF i = id THEN "delayed" ELSE dunning[i]
    BY <1>5, <2>2, <2>4 DEF DunningRetries, Added, TypeOK
  <2>6. ASSUME NEW t \in Subs, NEW m \in Retries, NEW n \in Retries, dunning'[<<t, n>>] # "none"
        PROVE  n # 0 /\ (m < n => ~Live(<<t, m>>)')
    <3>1. CASE t = s /\ n = k
      <4>1. m < n /\ m # j[2] => m < j[2] /\ ~Live(<<s, m>>)
        BY <2>1, <3>1 DEF Chained, Retries
      <4>2. m < n /\ m # j[2] => dunning'[<<t, m>>] = dunning[<<s, m>>]
        BY <1>1, <2>1, <2>5, <3>1 DEF Retries
      <4>3. m = j[2] => dunning'[<<t, m>>] = "done"
        BY <2>1, <2>5, <3>1
      <4>4. n # 0
        BY <2>1, <3>1 DEF Retries
      <4>. QED  BY <4>1, <4>2, <4>3, <4>4 DEF Live
    <3>2. CASE ~(t = s /\ n = k)
      <4>1. dunning[<<t, n>>] # "none"
        BY <1>1, <2>1, <2>5, <2>6, <3>2
      <4>2. m < n => <<t, m>> # id
        BY <2>3, <3>2, <4>1, <2>1 DEF Retries
      <4>3. m < n => dunning'[<<t, m>>] \in {"done", dunning[<<t, m>>]}
        BY <1>1, <2>5, <4>2
      <4>. QED  BY <4>1, <4>3 DEF Chained, Live
    <3>. QED  BY <3>1, <3>2
  <2>. QED  BY <2>6 DEF Chained
<1>. QED
  BY <1>2, <1>3, <1>4, <1>5, CalmFrame

\* The invariant of a calm system.
CalmInv == TypeOK /\ RetriesCountUp /\ Chained /\ ~open

LEMMA CalmInit == Init => CalmInv
BY InitType, InitRetries DEF Init, CalmInv, Chained, DunningJobs

LEMMA CalmStep ==
    ASSUME "outage" \notin Faults, MaxCrashes = 0, CalmInv, [Next]_vars
    PROVE  CalmInv' /\ ~Crash
<1>1. ~Crash
  BY DEF CalmInv, TypeOK, Crash
<1>2. (~open)'
  <2>1. ASSUME NEW j \in ChargeJobs, ChargeStep(j)
        PROVE  UNCHANGED open
    BY <2>1 DEF ChargeStep, ChargeReads, ChargeDeferred, ChargeSends,
       ChargeAccepted, ChargeFails, ChargeAdvances, ChargeAdvanceFails, ChargeRetries,
       ChargeHandsOver, ChargeMarks, ChargeThrows, ChargeCompletes
  <2>2. ASSUME NEW j \in DunningJobs, DunningStep(j)
        PROVE  UNCHANGED open
    BY <2>2 DEF DunningStep, DunningDiscards, DunningHeld,
       DunningChecks, DunningGivesUp, DunningSends, DunningRefused, DunningAccepted, DunningFails,
       DunningAdvances, DunningAdvanceFails, DunningRetries, DunningExhausts,
       DunningCancels, DunningRecords, DunningThrows, DunningCompletes
  <2>3. ASSUME NEW s \in Subs, OtherStep(s)
        PROVE  UNCHANGED open
    BY <2>3 DEF OtherStep, FallsDue, BillingPicks, BillingEnqueues,
       BillingFindsNoCard, BillingSkips, ReplayEnqueues, ReplayDeletes, CheckoutPaid,
       CustomerCancels, MerchantReactivates, PlanUpdated, PlanDeleted
  <2>4. ~BreakerChanges
    BY DEF BreakerChanges
  <2>. QED  BY <1>1, <2>1, <2>2, <2>3, <2>4 DEF CalmInv, Next, vars
<1>. QED
  BY <1>1, <1>2, NextType, RetriesCountUpStep, ChainedStep DEF CalmInv

\* Without crashes and outages at most one retry of a subscription is at work,
\* for any number of charge jobs and any grace period.
THEOREM OneRetryInCalm ==
    ASSUME "outage" \notin Faults, MaxCrashes = 0
    PROVE  Spec => []OneRetryAtATime
<1>1. CalmInv /\ [Next]_vars => CalmInv'
  BY CalmStep
<1>2. CalmInv => OneRetryAtATime
  <2>. SUFFICES ASSUME CalmInv, NEW s \in Subs, NEW m \in Retries, NEW n \in Retries,
                       Live(<<s, m>>), Live(<<s, n>>)
                PROVE  m = n
    BY DEF OneRetryAtATime
  <2>1. dunning[<<s, m>>] # "none" /\ dunning[<<s, n>>] # "none"
    BY DEF Live
  <2>2. ~(m < n) /\ ~(n < m)
    BY <2>1 DEF CalmInv, Chained
  <2>. QED  BY <2>2, ConstantsAssumption DEF Retries
<1>. QED
  BY CalmInit, <1>1, <1>2, PTL DEF Spec

----------------------------------------------------------------------------
(* A retry presses on.                                                     *)

\* How far the retry with id j has come: 0 before it is enqueued, and once it
\* cannot decide anything any more.
Reached(j) ==
    CASE dunning[j] = "delayed"   -> 1
      [] dunning[j] = "checked"   -> 2
      [] dunning[j] = "sent"      -> 3
      [] dunning[j] = "paid"      -> 4
      [] dunning[j] = "retry"     -> 5
      [] dunning[j] = "exhausted" -> 6
      [] OTHER                    -> 0

\* While a subscription is past_due its retry gets on, or hands over to the
\* next one.  Nothing sends it back, drops it, or skips a number.
RetriesPressOn ==
    [][\A s \in Subs, n \in Retries :
        /\ status[s] = "past_due" /\ status'[s] = "past_due"
        /\ Reached(<<s, n>>) > 0
        => \/ Reached(<<s, n>>)' >= Reached(<<s, n>>)
           \/ /\ n < limit[<<s, n>>]
              /\ dunning'[<<s, n + 1>>] = "delayed"]_vars

LEMMA PressOnStep ==
    ASSUME Faults \cap {"outage", "database"} = {}, CalmInv, ~Crash, [Next]_vars,
           NEW s \in Subs, NEW n \in Retries,
           status[s] = "past_due", status'[s] = "past_due", Reached(<<s, n>>) > 0
    PROVE  \/ Reached(<<s, n>>)' >= Reached(<<s, n>>)
           \/ n < limit[<<s, n>>] /\ dunning'[<<s, n + 1>>] = "delayed"
<1>. DEFINE j == <<s, n>>
<1>. USE ConstantsAssumption
<1>1. j \in DunningJobs /\ j[1] = s /\ j[2] = n
  BY DEF DunningJobs
<1>2. TypeOK /\ ~open /\ Exists(s) /\ dunning[j] # "none"
  BY DEF CalmInv, Exists, Reached
<1>. HIDE DEF j
<1>3. ASSUME dunning'[j] = dunning[j]
      PROVE  Reached(j)' >= Reached(j)
  BY <1>3 DEF Reached
<1>4. ASSUME NEW i \in ChargeJobs, ChargeStep(i)
      PROVE  dunning'[j] = dunning[j]
  <2>1. UNCHANGED dunning \/ \E m \in {0, 1} : EnqueueDunning(i[1], m)
    BY <1>4 DEF ChargeStep, ChargeReads, ChargeDeferred, ChargeSends,
       ChargeAccepted, ChargeFails, ChargeAdvances, ChargeAdvanceFails, ChargeRetries,
       ChargeHandsOver, ChargeMarks, ChargeThrows, ChargeCompletes
  <2>. QED  BY <1>1, <1>2, <2>1 DEF EnqueueDunning, Added, TypeOK
<1>5. ASSUME NEW i \in DunningJobs, DunningStep(i), i # j
      PROVE  dunning'[j] = dunning[j]
  <2>1. \/ \E place : DunningGoto(i, place)
        \/ \E id : dunning' = [Added(dunning, id) EXCEPT ![i] = "done"]
    BY <1>5 DEF DunningStep, DunningDiscards, DunningHeld, DunningChecks,
       DunningGivesUp, DunningSends, DunningRefused, DunningAccepted, DunningFails, DunningAdvances,
       DunningAdvanceFails, DunningRetries, DunningExhausts, DunningCancels,
       DunningRecords, DunningThrows, DunningCompletes, DunningGoto
  <2>. QED  BY <1>1, <1>2, <1>5, <2>1 DEF DunningGoto, Added, TypeOK
<1>6. ASSUME DunningStep(j), ~DunningRetries(j)
      PROVE  Reached(j)' >= Reached(j)
  <2>1. ASSUME NEW place \in DunningState, DunningGoto(j, place)
        PROVE  dunning'[j] = place
    BY <1>1, <1>2, <2>1 DEF DunningGoto, TypeOK
  <2>2. ~DunningDiscards(j) /\ ~DunningHeld(j) /\ ~DunningAdvanceFails(j)
    BY <1>1, <1>2 DEF DunningDiscards, DunningHeld, DunningAdvanceFails
  <2>3. ~DunningAdvances(j) /\ ~DunningCancels(j)
    BY <1>1, <1>2 DEF DunningAdvances, DunningCancels, Advance, SetStatus, TypeOK
  <2>4. ~DunningRecords(j) /\ ~DunningThrows(j) /\ ~DunningCompletes(j)
    BY <1>1, <1>2 DEF DunningRecords, DunningThrows, DunningCompletes, Reached, j
  <2>5. CASE DunningChecks(j) \/ DunningGivesUp(j) \/ DunningAccepted(j) \/ DunningFails(j)
             \/ DunningExhausts(j)
    BY <2>1, <2>5 DEF DunningChecks, DunningGivesUp, DunningAccepted, DunningFails,
       DunningExhausts, DunningState, Reached
  <2>6. CASE DunningSends(j) \/ DunningRefused(j)
    BY <2>1, <2>6 DEF DunningSends, DunningRefused, DunningState, Reached
  <2>. QED  BY <1>6, <2>2, <2>3, <2>4, <2>5, <2>6 DEF DunningStep
<1>7. ASSUME DunningRetries(j)
      PROVE  n < limit[<<s, n>>] /\ dunning'[<<s, n + 1>>] = "delayed"
  <2>. DEFINE id == <<s, n + 1>>
  <2>1. n < limit[<<s, n>>] /\ n + 1 \in Retries /\ n < n + 1
    BY <1>1, <1>2, <1>7 DEF TypeOK, DunningRetries, Retries, j
  <2>2. id \in DunningJobs /\ id # j
    BY <2>1 DEF DunningJobs, j, Retries
  <2>3. Live(<<s, n>>)
    BY <1>7 DEF DunningRetries, Live, j
  <2>4. dunning[id] = "none"
    BY <2>1, <2>3 DEF CalmInv, Chained
  <2>5. dunning' = [Added(dunning, id) EXCEPT ![j] = "done"]
    BY <1>1, <1>7 DEF DunningRetries
  <2>. QED  BY <1>2, <2>1, <2>2, <2>4, <2>5 DEF Added, TypeOK
<1>8. ASSUME \/ UNCHANGED dunning
             \/ \E t \in Subs : OtherStep(t)
             \/ BreakerChanges \/ UNCHANGED vars
      PROVE  dunning' = dunning
  BY <1>8 DEF OtherStep, FallsDue, BillingPicks, BillingEnqueues,
     BillingFindsNoCard, BillingSkips, ReplayEnqueues, ReplayDeletes, CheckoutPaid,
     CustomerCancels, MerchantReactivates, PlanUpdated, PlanDeleted, BreakerChanges, vars, queues
<1>9. \/ Reached(j)' >= Reached(j)
      \/ n < limit[<<s, n>>] /\ dunning'[<<s, n + 1>>] = "delayed"
  BY <1>3, <1>4, <1>5, <1>6, <1>7, <1>8 DEF Next
<1>. QED  BY <1>9 DEF j

\* While no query fails, no outage and no crash comes, the retries of a past_due
\* subscription are never given up halfway: each gets on (processDunning) until
\* the money is collected, the next takes over, or the last one cancels.  This
\* is the safety part of DunningResolves, for every grace period and every change.
THEOREM RetriesAreNotDropped ==
    ASSUME Faults \cap {"outage", "database"} = {}, MaxCrashes = 0
    PROVE  Spec => RetriesPressOn
<1>1. CalmInv /\ [Next]_vars => CalmInv'
  BY CalmStep
<1>2. CalmInv /\ [Next]_vars =>
        [\A s \in Subs, n \in Retries :
            /\ status[s] = "past_due" /\ status'[s] = "past_due"
            /\ Reached(<<s, n>>) > 0
            => \/ Reached(<<s, n>>)' >= Reached(<<s, n>>)
               \/ /\ n < limit[<<s, n>>]
                  /\ dunning'[<<s, n + 1>>] = "delayed"]_vars
  BY CalmStep, PressOnStep
<1>. QED
  BY CalmInit, <1>1, <1>2, PTL DEF Spec, RetriesPressOn

----------------------------------------------------------------------------
(* A canceled subscription is left in peace.                               *)

\* Somebody has s in hand and may write its row: the tick, a charge job, or a
\* retry that has found it past_due.
InHand(s) ==
    \/ picked[s]
    \/ \E k \in Slots : charge[<<s, k>>] # "free"
    \/ \E n \in Retries :
        dunning[<<s, n>>] \in {"checked", "sent", "paid", "retry", "exhausted"}

AtPeace(s) == status[s] \in {"canceled", "gone"} /\ ~InHand(s)

\* Its customer paid, or its merchant reactivated it or replayed a dead letter.
Asked(s) ==
    CheckoutPaid(s) \/ MerchantReactivates(s) \/ \E l \in LettersOf(s) : ReplayEnqueues(l)

CanceledInPeace == [][\A s \in Subs : AtPeace(s) /\ ~Asked(s) => AtPeace(s)']_vars

LEMMA PeaceStep ==
    ASSUME TypeOK, [Next]_vars, NEW s \in Subs, AtPeace(s), ~Asked(s)
    PROVE  AtPeace(s)'
<1>. USE ConstantsAssumption
<1>1. /\ \A k \in Slots : <<s, k>> \in ChargeJobs /\ charge[<<s, k>>] = "free"
      /\ \A n \in Retries :
            /\ <<s, n>> \in DunningJobs
            /\ dunning[<<s, n>>] \in
                 {"none", "delayed", "canceled", "done", "ended"}
      /\ status[s] \in {"canceled", "gone"} /\ picked[s] = FALSE
  BY DEF AtPeace, InHand, TypeOK, ChargeJobs, DunningJobs, DunningState
\* It is enough that the step leaves the row alone and its jobs where they
\* cannot write.
<1>2. ASSUME status'[s] \in {"canceled", "gone"}, picked'[s] = FALSE,
             \A k \in Slots : charge'[<<s, k>>] = "free",
             \A n \in Retries : dunning'[<<s, n>>] \in
                 {"none", "delayed", "canceled", "done", "ended"}
      PROVE  AtPeace(s)'
  BY <1>2 DEF AtPeace, InHand
<1>3. ASSUME NEW j \in ChargeJobs, ChargeStep(j)
      PROVE  AtPeace(s)'
  <2>1. charge[j] # "free"
    BY <1>3 DEF ChargeStep, ChargeReads, ChargeDeferred, ChargeSends,
       ChargeAccepted, ChargeFails, ChargeAdvances, ChargeAdvanceFails, ChargeRetries,
       ChargeHandsOver, ChargeMarks, ChargeThrows, ChargeCompletes
  <2>2. j[1] \in Subs /\ j[1] # s
    BY <1>1, <2>1 DEF ChargeJobs
  <2>3. status'[s] = status[s] /\ picked' = picked
    BY <1>3, <2>2 DEF TypeOK, ChargeStep, ChargeReads, ChargeDeferred, ChargeSends,
       ChargeAccepted, ChargeFails, ChargeAdvances, ChargeAdvanceFails, ChargeRetries,
       ChargeHandsOver, ChargeMarks, ChargeThrows, ChargeCompletes, Advance, SetStatus
  <2>4. \A k \in Slots : charge'[<<s, k>>] = "free"
    <3>1. \E place : charge' = [charge EXCEPT ![j] = place]
      BY <1>3 DEF ChargeStep, ChargeReads, ChargeDeferred, ChargeSends,
         ChargeAccepted, ChargeFails, ChargeAdvances, ChargeAdvanceFails, ChargeRetries,
         ChargeHandsOver, ChargeMarks, ChargeThrows, ChargeCompletes, ChargeGoto
    <3>. QED  BY <1>1, <2>2, <3>1 DEF TypeOK
  <2>5. \A n \in Retries : dunning'[<<s, n>>] = dunning[<<s, n>>]
    <3>1. UNCHANGED dunning \/ \E m \in {0, 1} : EnqueueDunning(j[1], m)
      BY <1>3 DEF ChargeStep, ChargeReads, ChargeDeferred, ChargeSends,
         ChargeAccepted, ChargeFails, ChargeAdvances, ChargeAdvanceFails, ChargeRetries,
         ChargeHandsOver, ChargeMarks, ChargeThrows, ChargeCompletes
    <3>. QED  BY <1>1, <2>2, <3>1 DEF TypeOK, EnqueueDunning, Added
  <2>. QED  BY <1>1, <1>2, <2>3, <2>4, <2>5
<1>4. ASSUME NEW j \in DunningJobs, DunningStep(j)
      PROVE  AtPeace(s)'
  <2>1. j[1] \in Subs /\ j[2] \in Retries /\ j = <<j[1], j[2]>>
    BY JobIsPair
  <2>2. UNCHANGED <<charge, picked>>
    BY <1>4 DEF DunningStep, DunningDiscards, DunningHeld, DunningChecks,
       DunningGivesUp, DunningSends, DunningRefused, DunningAccepted, DunningFails, DunningAdvances,
       DunningAdvanceFails, DunningRetries, DunningExhausts, DunningCancels,
       DunningRecords, DunningThrows, DunningCompletes
  <2>3. CASE j[1] = s
    <3>1. dunning[j] \in {"none", "delayed", "canceled", "done", "ended"}
          /\ status[j[1]] # "past_due"
      BY <1>1, <2>1, <2>3
    <3>2. DunningDiscards(j) \/ DunningRecords(j) \/ DunningThrows(j) \/ DunningCompletes(j)
      BY <1>4, <3>1 DEF DunningStep, DunningHeld, DunningChecks,
         DunningGivesUp, DunningSends, DunningRefused, DunningAccepted, DunningFails, DunningAdvances,
         DunningAdvanceFails, DunningRetries, DunningExhausts, DunningCancels
    <3>3. /\ status' = status
          /\ \E place \in {"done", "ended"} : DunningGoto(j, place)
      BY <3>2 DEF DunningDiscards, DunningRecords, DunningThrows, DunningCompletes
    <3>. QED  BY <1>1, <1>2, <2>2, <3>3 DEF TypeOK, DunningGoto
  <2>4. CASE j[1] # s
    <3>1. status'[s] = status[s]
      BY <1>4, <2>1, <2>4 DEF TypeOK, DunningStep, DunningDiscards, DunningHeld, DunningChecks,
         DunningGivesUp, DunningSends, DunningRefused, DunningAccepted, DunningFails, DunningAdvances,
         DunningAdvanceFails, DunningRetries, DunningExhausts, DunningCancels,
         DunningRecords, DunningThrows, DunningCompletes, Advance, SetStatus
    <3>2. \/ \E place : DunningGoto(j, place)
          \/ \E m : dunning' = [Added(dunning, <<j[1], m>>) EXCEPT ![j] = "done"]
      BY <1>4 DEF DunningStep, DunningDiscards, DunningHeld, DunningChecks,
         DunningGivesUp, DunningSends, DunningRefused, DunningAccepted, DunningFails, DunningAdvances,
         DunningAdvanceFails, DunningRetries, DunningExhausts, DunningCancels,
         DunningRecords, DunningThrows, DunningCompletes, DunningGoto
    <3>3. \A n \in Retries : <<s, n>> # j /\ \A m : <<s, n>> # <<j[1], m>>
      BY <2>1, <2>4
    <3>4. \A n \in Retries : dunning'[<<s, n>>] = dunning[<<s, n>>]
      <4>1. CASE \E place : DunningGoto(j, place)
        BY <1>1, <3>3, <4>1 DEF TypeOK, DunningGoto
      <4>2. ASSUME NEW m, dunning' = [Added(dunning, <<j[1], m>>) EXCEPT ![j] = "done"]
            PROVE  \A n \in Retries : dunning'[<<s, n>>] = dunning[<<s, n>>]
        BY <1>1, <3>3, <4>2 DEF TypeOK, Added
      <4>. QED  BY <3>2, <4>1, <4>2
    <3>. QED  BY <1>1, <1>2, <2>2, <3>1, <3>4
  <2>. QED  BY <2>3, <2>4
<1>5. ASSUME NEW t \in Subs, OtherStep(t)
      PROVE  AtPeace(s)'
  <2>1. CASE t = s
    <3>1. \/ FallsDue(s) \/ PlanUpdated(s) \/ PlanDeleted(s)
          \/ \E l \in LettersOf(s) : ReplayDeletes(l)
      BY <1>1, <1>5, <2>1 DEF OtherStep, BillingPicks, BillingEnqueues, BillingFindsNoCard,
         BillingSkips, CustomerCancels, Asked
    <3>2. status'[s] \in {"canceled", "gone"} /\ UNCHANGED <<picked, charge, dunning>>
      BY <1>1, <3>1 DEF TypeOK, FallsDue, ReplayDeletes, PlanUpdated, PlanDeleted, queues
    <3>. QED  BY <1>1, <1>2, <3>2
  <2>2. CASE t # s
    <3>1. status'[s] = status[s] /\ picked'[s] = picked[s] /\ UNCHANGED dunning
      BY <1>1, <1>5, <2>2 DEF TypeOK, OtherStep, FallsDue, BillingPicks, BillingEnqueues,
         BillingFindsNoCard, BillingSkips, ReplayEnqueues, ReplayDeletes, CheckoutPaid,
         CustomerCancels, MerchantReactivates, PlanUpdated, PlanDeleted, Advance, SetStatus, queues
    <3>2. \A k \in Slots : charge'[<<s, k>>] = charge[<<s, k>>]
      <4>1. UNCHANGED charge \/ EnqueueCharge(t)
        BY <1>5 DEF OtherStep, LettersOf, FallsDue, BillingPicks, BillingEnqueues,
           BillingFindsNoCard, BillingSkips, ReplayEnqueues, ReplayDeletes, CheckoutPaid,
           CustomerCancels, MerchantReactivates, PlanUpdated, PlanDeleted, queues
      <4>. QED  BY <1>1, <2>2, <4>1 DEF TypeOK, EnqueueCharge, ChargeGoto
    <3>. QED  BY <1>1, <1>2, <3>1, <3>2
  <2>. QED  BY <2>1, <2>2
<1>6. CASE Crash
  <2>1. /\ \A k \in Slots : <<s, k>> \notin ActiveCharges
        /\ status' = status /\ picked'[s] = FALSE
    BY <1>1, <1>6 DEF Crash, ActiveCharges
  <2>2. \A k \in Slots : charge'[<<s, k>>] = "free"
    BY <1>1, <1>6, <2>1 DEF Crash
  <2>3. \A n \in Retries : dunning'[<<s, n>>] \in
                 {"none", "delayed", "canceled", "done", "ended"}
    BY <1>1, <1>6 DEF Crash, ActiveRetries
  <2>. QED  BY <1>1, <1>2, <2>1, <2>2, <2>3
<1>7. CASE BreakerChanges \/ UNCHANGED vars
  BY <1>1, <1>2, <1>7 DEF BreakerChanges, vars, queues
<1>. QED  BY <1>3, <1>4, <1>5, <1>6, <1>7 DEF Next

\* A canceled subscription that nobody has in hand is not brought back by the
\* workers: scheduled retries, redeliveries after a crash, the tick and late
\* results leave it canceled until its customer or its merchant asks, for any
\* faults.  What SubscriptionLifecycle promises of all writers, of these.
THEOREM CanceledLeftInPeace == Spec => CanceledInPeace
<1>1. TypeOK /\ [Next]_vars =>
        [\A s \in Subs : AtPeace(s) /\ ~Asked(s) => AtPeace(s)']_vars
  BY PeaceStep
<1>. QED
  BY <1>1, TypeCorrect, PTL DEF Spec, CanceledInPeace
=============================================================================
