------------------------- MODULE BillingCycleProofs -------------------------
(***************************************************************************)
(* Theorems about the two halves of billing: the tick (BillingCycle), for  *)
(* any number of ticks at a time, failing ticks and charge jobs; and the   *)
(* periods it looks for and what they cost (Cycles), for any calendar and  *)
(* any number of renewals and plan changes.                                *)
(***************************************************************************)
EXTENDS BillingCycle, Cycles, FiniteSetTheorems, TLAPS

----------------------------------------------------------------------------
(* Type correctness.                                                       *)

LEMMA SetStatusType ==
    ASSUME TypeOK, NEW s \in Subs,
           NEW value \in {"trialing", "active", "past_due", "canceled", "gone"},
           SetStatus(s, value)
    PROVE  /\ status' \in [Subs -> {"trialing", "active", "past_due", "canceled", "gone"}]
           /\ trial' \in [Subs -> {"null", "ahead", "passed"}]
BY DEF TypeOK, SetStatus

\* The variables of a tick's loop, once their ranges are known.
LoopType ==
    /\ phase \in [Ticks -> {"off", "charges", "trials"}]
    /\ pc \in [Ticks -> Places]
    /\ page \in [Ticks -> SUBSET Subs]
    /\ full \in [Ticks -> BOOLEAN]
    /\ cursor \in [Ticks -> Subs \cup {0}]
    /\ horizon \in [Ticks -> SUBSET Subs]
    /\ asked \in [Ticks -> [Subs -> 0..2]]
    /\ \A t \in Ticks : phase[t] = "off" => page[t] = {}

LEMMA StartPhaseType ==
    ASSUME TypeOK, NEW t \in Ticks, NEW p \in {"charges", "trials"}, StartPhase(t, p)
    PROVE  LoopType'
BY DEF TypeOK, LoopType, StartPhase, Places, Due, ExpiredTrials

LEMMA StopType ==
    ASSUME TypeOK, NEW t \in Ticks, Stop(t)
    PROVE  LoopType'
BY DEF TypeOK, LoopType, Stop, Places

LEMMA NextPhaseType ==
    ASSUME TypeOK, NEW t \in Ticks, NextPhase(t)
    PROVE  LoopType'
BY StartPhaseType, StopType DEF NextPhase

LEMMA PassRowType ==
    ASSUME TypeOK, NEW t \in Ticks, NEW s \in Subs, PassRow(t, s)
    PROVE  /\ page' \in [Ticks -> SUBSET Subs]
           /\ cursor' \in [Ticks -> Subs \cup {0}]
           /\ \A u \in Ticks : phase'[u] = "off" => page'[u] = {}
           /\ UNCHANGED <<phase, full, horizon>>
BY DEF TypeOK, PassRow

LEMMA AddJobType ==
    ASSUME TypeOK, NEW t \in Ticks, NEW s \in Subs \cup {0}, AddJob(t, s)
    PROVE  /\ queue' \in [Subs -> 0..MaxJobs]
           /\ asked' \in [Ticks -> [Subs -> 0..2]]
<1>1. CASE s \notin Subs
  BY <1>1 DEF TypeOK, AddJob
<1>2. CASE s \in Subs
  <2>1. queue' \in [Subs -> 0..MaxJobs]
    BY <1>2, ConstantsAssumption DEF TypeOK, AddJob
  <2> DEFINE more == IF asked[t][s] < 2 THEN asked[t][s] + 1 ELSE asked[t][s]
  <2>2. asked' = [asked EXCEPT ![t] = [asked[t] EXCEPT ![s] = more]]
    BY DEF AddJob
  <2>3. asked[t] \in [Subs -> 0..2] /\ asked[t][s] \in 0..2
    BY <1>2 DEF TypeOK
  <2>4. more \in 0..2
    BY <2>3
  <2> HIDE DEF more
  <2>. QED
    BY <2>1, <2>2, <2>3, <2>4 DEF TypeOK
<1>. QED
  BY <1>1, <1>2

LEMMA InitType == Init => TypeOK
  BY ConstantsAssumption DEF Init, TypeOK, Places

LEMMA StepType ==
    ASSUME TypeOK, [Next]_vars
    PROVE  TypeOK'
<1>1. ASSUME NEW t \in Ticks, TickStarts(t)
      PROVE  TypeOK'
  BY <1>1, StartPhaseType DEF TickStarts, TypeOK, LoopType, rows
<1>2. ASSUME NEW t \in Ticks, FetchPage(t)
      PROVE  TypeOK'
  <2>1. PICK P \in SUBSET Matching(t) :
            /\ \/ Cardinality(Matching(t)) < PageSize /\ P = Matching(t)
               \/ Cardinality(P) = PageSize
            /\ page' = [page EXCEPT ![t] = P]
    BY <1>2, Zenon DEF FetchPage
  <2>2. P \subseteq Subs
    BY DEF Matching, Due, ExpiredTrials
  <2>. QED
    BY <1>2, <2>1, <2>2 DEF FetchPage, TypeOK, Places, rows
<1>3. ASSUME NEW t \in Ticks, FindsNone(t)
      PROVE  TypeOK'
  BY <1>3, NextPhaseType DEF FindsNone, TypeOK, LoopType, rows
<1>4. ASSUME NEW t \in Ticks, NEW s \in Subs, ChargeRow(t, s)
      PROVE  TypeOK'
  BY <1>4, PassRowType, AddJobType DEF ChargeRow, TypeOK, rows
<1>5. ASSUME NEW t \in Ticks, NEW s \in Subs, ChargeRowNoCard(t, s) \/ TrialRowNoCard(t, s)
      PROVE  TypeOK'
  BY <1>5, PassRowType, SetStatusType DEF ChargeRowNoCard, TrialRowNoCard, TypeOK
<1>6. ASSUME NEW t \in Ticks, NEW s \in Subs, TrialRow(t, s)
      PROVE  TypeOK'
  BY <1>6, PassRowType, SetStatusType DEF TrialRow, TypeOK, Places
<1>7. ASSUME NEW t \in Ticks, NEW s \in Subs, RowSkipped(t, s)
      PROVE  TypeOK'
  BY <1>7, PassRowType DEF RowSkipped, TypeOK, rows
<1>8. ASSUME NEW t \in Ticks, TrialCharge(t)
      PROVE  TypeOK'
  <2>1. cursor[t] \in Subs \cup {0}
    BY DEF TypeOK
  <2>. QED
    BY <1>8, <2>1, AddJobType DEF TrialCharge, TypeOK, Places, rows
<1>9. ASSUME NEW t \in Ticks, EndPage(t)
      PROVE  TypeOK'
  <2>1. CASE full[t]
    BY <1>9, <2>1 DEF EndPage, TypeOK, Places, rows
  <2>2. CASE ~full[t]
    BY <1>9, <2>2, NextPhaseType DEF EndPage, TypeOK, LoopType, rows
  <2>. QED
    BY <2>1, <2>2
<1>10. ASSUME NEW t \in Ticks, TickFails(t)
       PROVE  TypeOK'
  BY <1>10, StopType, ConstantsAssumption DEF TickFails, TypeOK, LoopType, rows
<1>11. ASSUME NEW s \in Subs, ChargeRuns(s)
       PROVE  TypeOK'
  <2>1. queue' \in [Subs -> 0..MaxJobs] /\ period' \in [Subs -> {"null", "ahead", "passed"}]
    BY <1>11, ConstantsAssumption DEF ChargeRuns, TypeOK
  <2>2. /\ status' \in [Subs -> {"trialing", "active", "past_due", "canceled", "gone"}]
        /\ trial' \in [Subs -> {"null", "ahead", "passed"}]
    <3>1. CASE SetStatus(s, "active") \/ SetStatus(s, "past_due")
      BY <3>1, SetStatusType
    <3>2. CASE UNCHANGED <<status, trial>>
      BY <3>2 DEF TypeOK
    <3>. QED
      BY <1>11, <3>1, <3>2 DEF ChargeRuns
  <2>3. UNCHANGED <<card, loop, asked, failures>>
    BY <1>11 DEF ChargeRuns
  <2>. QED
    BY <2>1, <2>2, <2>3 DEF TypeOK, loop
<1>12. ASSUME NEW s \in Subs, CheckoutPaid(s)
       PROVE  TypeOK'
  BY <1>12 DEF CheckoutPaid, SetStatus, TypeOK, loop
<1>13. ASSUME NEW s \in Subs, CustomerCancels(s) \/ PlanDeleted(s)
       PROVE  TypeOK'
  <2>1. CASE CustomerCancels(s)
    BY <2>1, SetStatusType DEF CustomerCancels, TypeOK, loop
  <2>2. CASE PlanDeleted(s)
    BY <2>2, SetStatusType DEF PlanDeleted, TypeOK, loop
  <2>. QED
    BY <1>13, <2>1, <2>2
<1>14. ASSUME NEW s \in Subs, PeriodEnds(s)
       PROVE  TypeOK'
  BY <1>14 DEF PeriodEnds, TypeOK
<1>15. ASSUME NEW s \in Subs, TrialEnds(s)
       PROVE  TypeOK'
  BY <1>15 DEF TrialEnds, TypeOK, loop
<1>16. CASE UNCHANGED vars
  BY <1>16 DEF vars, rows, loop, TypeOK
<1>. QED
  BY <1>1, <1>2, <1>3, <1>4, <1>5, <1>6, <1>7, <1>8, <1>9, <1>10, <1>11, <1>12, <1>13,
     <1>14, <1>15, <1>16 DEF Next, TickStep

\* Every variable keeps its range, however many ticks overlap or fail.
THEOREM TypeCorrect == Spec => []TypeOK
  BY InitType, StepType, PTL DEF Spec

----------------------------------------------------------------------------
(* While the due subscriptions fit a page, a tick asks for each at most    *)
(* one charge.                                                             *)

FewSubs == Cardinality(Subs) < PageSize

\* Every page is the last of its phase.
PagesShort == \A t \in Ticks : ~full[t]

\* Nothing was asked for before the first page, for a row still to come, or
\* for a trial, and a row just promoted is behind and asked for nothing yet.
AskedInOrder ==
    \A t \in Ticks :
        /\ phase[t] = "off" => pc[t] = "query"
        /\ phase[t] # "trials" /\ pc[t] = "query" => \A s \in Subs : asked[t][s] = 0
        /\ \A s \in page[t] : asked[t][s] = 0 /\ (phase[t] = "charges" => status[s] # "trialing")
        /\ \A s \in Subs : status[s] = "trialing" => asked[t][s] = 0
        /\ pc[t] = "promoted" => /\ phase[t] = "trials"
                                 /\ cursor[t] \in Subs \ page[t]
                                 /\ asked[t][cursor[t]] = 0
                                 /\ status[cursor[t]] # "trialing"

IInv == TypeOK /\ PagesShort /\ AskedInOrder /\ OncePerTick

LEMMA InitInv == Init => IInv
  BY InitType DEF Init, IInv, PagesShort, AskedInOrder, OncePerTick

LEMMA MatchingIsShort ==
    ASSUME FewSubs, NEW t \in Ticks
    PROVE  /\ Cardinality(Matching(t)) < PageSize
           /\ \A P \in SUBSET Matching(t) : Cardinality(P) < PageSize
<1>1. \A S \in SUBSET Subs : Cardinality(S) <= Cardinality(Subs) /\ Cardinality(S) \in Nat
  BY ConstantsAssumption, FS_Subset, FS_CardinalityType
<1>2. Matching(t) \subseteq Subs
  BY DEF Matching, Due, ExpiredTrials
<1>3. Cardinality(Subs) \in Nat
  BY ConstantsAssumption, FS_CardinalityType
<1>. QED
  BY <1>1, <1>2, <1>3, ConstantsAssumption DEF FewSubs

\* A step that leaves the ticks alone and makes nothing a trial.
LEMMA RowsMove ==
    ASSUME IInv, UNCHANGED <<phase, pc, page, full, cursor, asked>>,
           \A s \in Subs : status'[s] = "trialing" => status[s] = "trialing"
    PROVE  PagesShort' /\ AskedInOrder' /\ OncePerTick'
BY DEF IInv, TypeOK, PagesShort, AskedInOrder, OncePerTick

\* A tick that starts over, or a phase that starts.
LEMMA LoopStarts ==
    ASSUME IInv, NEW t \in Ticks, UNCHANGED status,
           \/ phase[t] = "off" /\ StartPhase(t, "charges")
           \/ StartPhase(t, "trials")
           \/ Stop(t)
    PROVE  PagesShort' /\ AskedInOrder' /\ OncePerTick'
<1>1. CASE Stop(t)
  BY <1>1 DEF IInv, TypeOK, Stop, PagesShort, AskedInOrder, OncePerTick
<1>2. CASE phase[t] = "off" /\ StartPhase(t, "charges")
  BY <1>2 DEF IInv, TypeOK, StartPhase, PagesShort, AskedInOrder, OncePerTick
<1>3. CASE StartPhase(t, "trials")
  BY <1>3 DEF IInv, TypeOK, StartPhase, PagesShort, AskedInOrder, OncePerTick
<1>. QED
  BY <1>1, <1>2, <1>3

LEMMA NextPhaseStarts ==
    ASSUME IInv, NEW t \in Ticks, UNCHANGED status, NextPhase(t)
    PROVE  PagesShort' /\ AskedInOrder' /\ OncePerTick'
BY LoopStarts DEF NextPhase

\* A tick passes row s, asking for nothing.
LEMMA RowPassed ==
    ASSUME IInv, NEW t \in Ticks, NEW s \in Subs, s \in page[t], pc[t] = "rows",
           PassRow(t, s), UNCHANGED <<pc, asked>>,
           \A r \in Subs : status'[r] = "trialing" => status[r] = "trialing"
    PROVE  PagesShort' /\ AskedInOrder' /\ OncePerTick'
BY DEF IInv, TypeOK, PassRow, PagesShort, AskedInOrder, OncePerTick

LEMMA StepInv ==
    ASSUME FewSubs, IInv, [Next]_vars
    PROVE  IInv'
<1>t. TypeOK /\ TypeOK'
  BY StepType DEF IInv
<1>1. ASSUME NEW t \in Ticks, TickStarts(t)
      PROVE  PagesShort' /\ AskedInOrder' /\ OncePerTick'
  BY <1>1, LoopStarts DEF TickStarts, rows
<1>2. ASSUME NEW t \in Ticks, FetchPage(t)
      PROVE  PagesShort' /\ AskedInOrder' /\ OncePerTick'
  <2>1. /\ Cardinality(Matching(t)) < PageSize
        /\ \A P \in SUBSET Matching(t) : Cardinality(P) < PageSize
    BY MatchingIsShort
  <2>2. Cardinality(Matching(t)) \in Nat
    <3>1. Matching(t) \subseteq Subs
      BY DEF Matching, Due, ExpiredTrials
    <3>. QED
      BY <3>1, ConstantsAssumption, FS_Subset, FS_CardinalityType
  <2>3. full' = [full EXCEPT ![t] = FALSE]
    <3>1. ~(Cardinality(Matching(t)) >= PageSize)
      BY <2>1, <2>2, ConstantsAssumption
    <3>2. full' = [full EXCEPT ![t] = Cardinality(Matching(t)) >= PageSize]
      BY <1>2, Zenon DEF FetchPage
    <3>3. (Cardinality(Matching(t)) >= PageSize) = FALSE
      BY <3>1
    <3>. QED
      BY <3>2, <3>3, Zenon
  <2>4. page' = [page EXCEPT ![t] = Matching(t)]
    <3>1. PICK P \in SUBSET Matching(t) :
              /\ \/ Cardinality(Matching(t)) < PageSize /\ P = Matching(t)
                 \/ Cardinality(P) = PageSize
              /\ page' = [page EXCEPT ![t] = P]
      BY <1>2, Zenon DEF FetchPage
    <3>2. Cardinality(P) # PageSize
      <4>1. Cardinality(P) < PageSize
        BY <2>1
      <4>2. P \subseteq Subs
        BY DEF Matching, Due, ExpiredTrials
      <4>3. Cardinality(P) \in Nat
        BY <4>2, ConstantsAssumption, FS_Subset, FS_CardinalityType
      <4>. QED
        BY <4>1, <4>3, ConstantsAssumption
    <3>. QED
      BY <3>1, <3>2
  <2>5. \A s \in Matching(t) :
            /\ s \in Subs
            /\ phase[t] = "charges" => status[s] # "trialing"
            /\ phase[t] # "charges" => status[s] = "trialing"
    BY DEF Matching, Due, ExpiredTrials
  <2>6. /\ phase[t] # "off" /\ pc[t] = "query" /\ pc' = [pc EXCEPT ![t] = "rows"]
        /\ UNCHANGED <<status, phase, cursor, asked>>
    BY <1>2 DEF FetchPage, rows
  <2>7. \A s \in Matching(t) : asked[t][s] = 0
    <3>1. SUFFICES ASSUME NEW s \in Matching(t)
                   PROVE  asked[t][s] = 0
      OBVIOUS
    <3>2. \/ status[s] = "trialing"
          \/ phase[t] # "trials" /\ pc[t] = "query"
      BY <2>5, <2>6, <1>t DEF TypeOK
    <3>3. s \in Subs
      BY <2>5
    <3>. QED
      BY <3>2, <3>3 DEF IInv, AskedInOrder
  <2> DEFINE M == Matching(t)
  <2>8. /\ M \subseteq Subs /\ page' = [page EXCEPT ![t] = M]
        /\ \A s \in M : asked[t][s] = 0 /\ (phase[t] = "charges" => status[s] # "trialing")
    BY <2>4, <2>5, <2>7
  <2> HIDE DEF M
  <2>9. PagesShort' /\ OncePerTick'
    BY <2>3, <2>6 DEF IInv, TypeOK, PagesShort, OncePerTick
  <2>10. AskedInOrder'
    BY <2>6, <2>8 DEF IInv, TypeOK, AskedInOrder
  <2>. QED
    BY <2>9, <2>10
<1>3. ASSUME NEW t \in Ticks, FindsNone(t)
      PROVE  PagesShort' /\ AskedInOrder' /\ OncePerTick'
  BY <1>3, NextPhaseStarts DEF FindsNone, rows
<1>4. ASSUME NEW t \in Ticks, NEW s \in Subs, ChargeRow(t, s)
      PROVE  PagesShort' /\ AskedInOrder' /\ OncePerTick'
  <2>1. /\ s \in page[t] /\ phase[t] = "charges" /\ pc[t] = "rows"
        /\ UNCHANGED <<status, phase, pc, full>>
        /\ page' = [page EXCEPT ![t] = @ \ {s}]
        /\ cursor' = [cursor EXCEPT ![t] = s]
    BY <1>4 DEF ChargeRow, Visits, PassRow, rows
  <2>2. asked[t][s] = 0 /\ status[s] # "trialing"
    BY <2>1 DEF IInv, AskedInOrder
  <2>3. \A u \in Ticks, r \in Subs :
            asked'[u][r] = IF u = t /\ r = s THEN 1 ELSE asked[u][r]
    BY <1>4, <2>2, <1>t DEF ChargeRow, AddJob, TypeOK
  <2>4. PagesShort' /\ OncePerTick'
    BY <2>1, <2>3 DEF IInv, PagesShort, OncePerTick
  <2>5. \A u \in Ticks :
            /\ page'[u] = (IF u = t THEN page[t] \ {s} ELSE page[u])
            /\ cursor'[u] = (IF u = t THEN s ELSE cursor[u])
    BY <2>1, <1>t DEF TypeOK
  <2>6. AskedInOrder'
    BY <2>1, <2>2, <2>3, <2>5, <1>t DEF IInv, TypeOK, AskedInOrder
  <2>. QED
    BY <2>4, <2>6
<1>5. ASSUME NEW t \in Ticks, NEW s \in Subs,
             ChargeRowNoCard(t, s) \/ TrialRowNoCard(t, s) \/ RowSkipped(t, s)
      PROVE  PagesShort' /\ AskedInOrder' /\ OncePerTick'
  <2>1. /\ s \in page[t] /\ pc[t] = "rows" /\ PassRow(t, s) /\ UNCHANGED <<pc, asked>>
    BY <1>5 DEF ChargeRowNoCard, TrialRowNoCard, RowSkipped, Visits
  <2>2. \A r \in Subs : status'[r] = "trialing" => status[r] = "trialing"
    BY <1>5, <1>t DEF ChargeRowNoCard, TrialRowNoCard, RowSkipped, SetStatus, TypeOK, rows
  <2>. QED
    BY <2>1, <2>2, RowPassed
<1>6. ASSUME NEW t \in Ticks, NEW s \in Subs, TrialRow(t, s)
      PROVE  PagesShort' /\ AskedInOrder' /\ OncePerTick'
  <2>1. /\ s \in page[t] /\ phase[t] = "trials" /\ pc[t] = "rows"
        /\ UNCHANGED <<phase, full, asked>>
        /\ status' = [status EXCEPT ![s] = "active"]
        /\ pc' = [pc EXCEPT ![t] = "promoted"]
        /\ page' = [page EXCEPT ![t] = @ \ {s}]
        /\ cursor' = [cursor EXCEPT ![t] = s]
    BY <1>6 DEF TrialRow, Visits, PassRow, SetStatus
  <2>2. asked[t][s] = 0
    BY <2>1 DEF IInv, AskedInOrder
  <2>3. PagesShort' /\ OncePerTick'
    BY <2>1 DEF IInv, PagesShort, OncePerTick
  <2>4. AskedInOrder'
    BY <2>1, <2>2 DEF IInv, TypeOK, AskedInOrder
  <2>. QED
    BY <2>3, <2>4
<1>7. ASSUME NEW t \in Ticks, TrialCharge(t)
      PROVE  PagesShort' /\ AskedInOrder' /\ OncePerTick'
  <2>1. /\ pc[t] = "promoted" /\ pc' = [pc EXCEPT ![t] = "rows"]
        /\ UNCHANGED <<status, phase, page, full, cursor>>
    BY <1>7 DEF TrialCharge, rows
  <2>2. /\ phase[t] = "trials" /\ cursor[t] \in Subs \ page[t]
        /\ asked[t][cursor[t]] = 0 /\ status[cursor[t]] # "trialing"
    BY <2>1 DEF IInv, AskedInOrder
  <2>3. \A u \in Ticks, r \in Subs :
            asked'[u][r] = IF u = t /\ r = cursor[t] THEN 1 ELSE asked[u][r]
    BY <1>7, <2>2, <1>t DEF TrialCharge, AddJob, TypeOK
  <2>. QED
    BY <2>1, <2>2, <2>3 DEF IInv, TypeOK, PagesShort, AskedInOrder, OncePerTick
<1>8. ASSUME NEW t \in Ticks, EndPage(t)
      PROVE  PagesShort' /\ AskedInOrder' /\ OncePerTick'
  BY <1>8, NextPhaseStarts DEF EndPage, IInv, PagesShort, rows
<1>9. ASSUME NEW t \in Ticks, TickFails(t)
      PROVE  PagesShort' /\ AskedInOrder' /\ OncePerTick'
  BY <1>9, LoopStarts DEF TickFails, rows
<1>10. ASSUME NEW s \in Subs,
              \/ ChargeRuns(s) \/ CheckoutPaid(s) \/ CustomerCancels(s)
              \/ PlanDeleted(s) \/ PeriodEnds(s) \/ TrialEnds(s)
       PROVE  PagesShort' /\ AskedInOrder' /\ OncePerTick'
  <2>1. UNCHANGED <<phase, pc, page, full, cursor, asked>>
    BY <1>10 DEF ChargeRuns, CheckoutPaid, CustomerCancels, PlanDeleted, PeriodEnds,
                 TrialEnds, loop
  <2>2. \A r \in Subs : status'[r] = "trialing" => status[r] = "trialing"
    BY <1>10, <1>t DEF ChargeRuns, CheckoutPaid, CustomerCancels, PlanDeleted, PeriodEnds,
                       TrialEnds, SetStatus, TypeOK
  <2>. QED
    BY <2>1, <2>2, RowsMove
<1>11. CASE UNCHANGED vars
  <2>1. UNCHANGED <<phase, pc, page, full, cursor, asked>> /\ UNCHANGED status
    BY <1>11 DEF vars, rows, loop
  <2>. QED
    BY <2>1, RowsMove, <1>t DEF IInv
<1>. QED
  BY <1>t, <1>1, <1>2, <1>3, <1>4, <1>5, <1>6, <1>7, <1>8, <1>9, <1>10, <1>11
     DEF IInv, Next, TickStep

\* While all subscriptions fit a page, no tick adds two charge jobs of one
\* (processActiveSubscriptions, processExpiredTrials), whatever the charge
\* worker, customers, the clock and other ticks do meanwhile.
THEOREM OneJobPerTick == FewSubs => (Spec => []OncePerTick)
<1>. SUFFICES ASSUME FewSubs
              PROVE  Spec => []OncePerTick
  OBVIOUS
<1>1. IInv /\ [Next]_vars => IInv'
  BY StepInv
<1>2. IInv => OncePerTick
  BY DEF IInv
<1>. QED
  BY InitInv, <1>1, <1>2, PTL DEF Spec

----------------------------------------------------------------------------
(* A tick that gets to the end of its charges passes over no due row, as   *)
(* long as there is a page for all and no other tick that promotes trials  *)
(* behind its back.                                                        *)

OneTick == \A t, u \in Ticks : t = u

\* While a tick pages through the charges it is before its only query, or
\* has every row that is still due asked for or in hand.
InHand ==
    \A t \in Ticks :
        phase[t] = "charges" =>
            /\ pc[t] = "query" => cursor[t] = 0
            /\ pc[t] = "rows" => \A s \in horizon[t] \cap Due : asked[t][s] > 0 \/ s \in page[t]

CoverInv == IInv /\ InHand

LEMMA InitCover == Init => CoverInv
  BY InitInv DEF Init, CoverInv, InHand

\* Nothing but a tick's promotion of a trial makes a row due to a tick that
\* had not found it so.
LEMMA NoneFallsDue ==
    ASSUME TypeOK, NEW s \in Subs,
           \/ ChargeRuns(s) \/ CheckoutPaid(s) \/ CustomerCancels(s)
           \/ PlanDeleted(s) \/ PeriodEnds(s) \/ TrialEnds(s)
    PROVE  /\ UNCHANGED <<phase, pc, page, cursor, asked>>
           /\ \A t \in Ticks : phase[t] = "charges" =>
                  (horizon[t] \cap Due)' \subseteq horizon[t] \cap Due
<1>1. CASE ChargeRuns(s)
  <2>1. UNCHANGED <<phase, pc, page, cursor, asked, horizon>>
    BY <1>1 DEF ChargeRuns, loop
  <2>2. CASE SetStatus(s, "active") /\ period' = [period EXCEPT ![s] = "ahead"]
    BY <2>1, <2>2 DEF TypeOK, SetStatus, Due
  <2>3. CASE SetStatus(s, "past_due") /\ UNCHANGED period
    BY <2>1, <2>3 DEF TypeOK, SetStatus, Due
  <2>4. CASE UNCHANGED <<status, period, trial>>
    BY <2>1, <2>4 DEF Due
  <2>. QED
    BY <1>1, <2>1, <2>2, <2>3, <2>4 DEF ChargeRuns
<1>2. CASE CheckoutPaid(s) \/ CustomerCancels(s) \/ PlanDeleted(s)
  BY <1>2 DEF CheckoutPaid, CustomerCancels, PlanDeleted, SetStatus, TypeOK, Due, loop
<1>3. CASE PeriodEnds(s)
  BY <1>3 DEF PeriodEnds, TypeOK, Due
<1>4. CASE TrialEnds(s)
  BY <1>4 DEF TrialEnds, TypeOK, Due, loop
<1>. QED
  BY <1>1, <1>2, <1>3, <1>4

LEMMA StepCover ==
    ASSUME FewSubs, OneTick, CoverInv, [Next]_vars
    PROVE  CoverInv'
<1>i. IInv /\ IInv' /\ TypeOK /\ TypeOK' /\ InHand
  BY StepInv DEF CoverInv, IInv
<1>1. ASSUME NEW t \in Ticks, TickStarts(t)
      PROVE  InHand'
  BY <1>1, <1>i DEF TickStarts, StartPhase, InHand, OneTick, TypeOK
<1>2. ASSUME NEW t \in Ticks, FetchPage(t)
      PROVE  InHand'
  <2>1. PICK P \in SUBSET Matching(t) :
            /\ \/ Cardinality(Matching(t)) < PageSize /\ P = Matching(t)
               \/ Cardinality(P) = PageSize
            /\ page' = [page EXCEPT ![t] = P]
    BY <1>2, Zenon DEF FetchPage
  <2>2. Cardinality(P) # PageSize
    <3>1. Cardinality(P) < PageSize
      BY MatchingIsShort
    <3>2. P \subseteq Subs
      BY DEF Matching, Due, ExpiredTrials
    <3>3. Cardinality(P) \in Nat
      BY <3>2, ConstantsAssumption, FS_Subset, FS_CardinalityType
    <3>. QED
      BY <3>1, <3>3, ConstantsAssumption
  <2>3. /\ page' = [page EXCEPT ![t] = Matching(t)]
        /\ pc[t] = "query" /\ pc' = [pc EXCEPT ![t] = "rows"]
        /\ UNCHANGED <<status, period, phase, cursor, horizon, asked>>
    BY <1>2, <2>1, <2>2 DEF FetchPage, rows
  <2>4. phase[t] = "charges" => Matching(t) = horizon[t] \cap Due
    <3>1. phase[t] = "charges" => cursor[t] = 0
      BY <1>i, <2>3 DEF InHand
    <3>. QED
      BY <3>1 DEF Matching
  <2>5. page'[t] = Matching(t) /\ pc'[t] = "rows"
    BY <1>i, <2>3 DEF TypeOK
  <2>6. (horizon[t] \cap Due)' = horizon[t] \cap Due
    BY <2>3 DEF Due
  <2>. QED
    BY <2>3, <2>4, <2>5, <2>6 DEF InHand, OneTick
<1>3. ASSUME NEW t \in Ticks, FindsNone(t) \/ EndPage(t)
      PROVE  InHand'
  <2>1. NextPhase(t)
    BY <1>3, <1>i DEF FindsNone, EndPage, IInv, PagesShort
  <2>2. phase'[t] # "charges"
    BY <2>1, <1>i DEF NextPhase, StartPhase, Stop, TypeOK
  <2>. QED
    BY <2>2 DEF InHand, OneTick
<1>4. ASSUME NEW t \in Ticks, NEW s \in Subs,
             ChargeRow(t, s) \/ ChargeRowNoCard(t, s) \/ RowSkipped(t, s)
      PROVE  InHand'
  <2>1. /\ UNCHANGED <<pc, phase, horizon>> /\ pc[t] = "rows"
        /\ page'[t] = page[t] \ {s}
        /\ \A r \in Subs : asked[t][r] > 0 => asked'[t][r] > 0
        /\ asked'[t][s] > 0 \/ s \notin Due'
        /\ Due' \subseteq Due
    <3>1. CASE ChargeRow(t, s)
      <4>1. \A r \in Subs : asked[t][r] \in 0..2
        BY <1>i DEF TypeOK
      <4>. QED
        BY <3>1, <4>1, <1>i DEF ChargeRow, AddJob, PassRow, Visits, TypeOK, Due, rows
    <3>2. CASE ChargeRowNoCard(t, s)
      BY <3>2, <1>i DEF ChargeRowNoCard, SetStatus, PassRow, Visits, TypeOK, Due
    <3>3. CASE RowSkipped(t, s)
      BY <3>3, <1>i DEF RowSkipped, PassRow, TypeOK, Due, rows
    <3>. QED
      BY <1>4, <3>1, <3>2, <3>3
  <2>2. Due \subseteq Subs
    BY DEF Due
  <2>. QED
    BY <2>1, <2>2, <1>i DEF InHand, OneTick
<1>5. ASSUME NEW t \in Ticks, NEW s \in Subs, TrialRow(t, s) \/ TrialRowNoCard(t, s)
      PROVE  InHand'
  <2>1. phase[t] = "trials" /\ UNCHANGED phase
    BY <1>5 DEF TrialRow, TrialRowNoCard, Visits, PassRow
  <2>. QED
    BY <2>1 DEF InHand, OneTick
<1>6. ASSUME NEW t \in Ticks, TrialCharge(t)
      PROVE  InHand'
  <2>1. phase[t] = "trials" /\ UNCHANGED phase
    BY <1>6, <1>i DEF TrialCharge, IInv, AskedInOrder
  <2>. QED
    BY <2>1 DEF InHand, OneTick
<1>7. ASSUME NEW t \in Ticks, TickFails(t)
      PROVE  InHand'
  <2>1. phase'[t] # "charges"
    BY <1>7, <1>i DEF TickFails, Stop, TypeOK
  <2>. QED
    BY <2>1 DEF InHand, OneTick
<1>8. ASSUME NEW s \in Subs,
             \/ ChargeRuns(s) \/ CheckoutPaid(s) \/ CustomerCancels(s)
             \/ PlanDeleted(s) \/ PeriodEnds(s) \/ TrialEnds(s)
      PROVE  InHand'
  BY <1>8, <1>i, NoneFallsDue DEF InHand
<1>9. CASE UNCHANGED vars
  <2>1. UNCHANGED <<status, period, phase, pc, page, cursor, horizon, asked>>
    BY <1>9 DEF vars, rows, loop
  <2>2. Due' = Due
    BY <2>1 DEF Due
  <2>. QED
    BY <2>1, <2>2, <1>i DEF InHand, CoverInv
<1>. QED
  BY <1>i, <1>1, <1>2, <1>3, <1>4, <1>5, <1>6, <1>7, <1>8, <1>9
     DEF CoverInv, Next, TickStep

\* A tick leaves the charges at the end of its page or when it has none.
LEMMA LeavesCovered ==
    ASSUME OneTick, CoverInv, [Next]_vars, NEW t \in Ticks,
           phase[t] = "charges", phase'[t] = "trials"
    PROVE  \A s \in horizon[t] \cap Due : asked[t][s] > 0
<1>t. TypeOK /\ PagesShort /\ InHand
  BY DEF CoverInv, IInv
<1>1. CASE FindsNone(t)
  BY <1>1, <1>t DEF FindsNone, Matching, InHand
<1>2. CASE EndPage(t)
  BY <1>2, <1>t DEF EndPage, InHand
<1>3. CASE TickStarts(t) \/ TickFails(t)
  BY <1>3, <1>t DEF TickStarts, TickFails, Stop, TypeOK
<1>4. CASE UNCHANGED phase
  BY <1>4
<1>5. \/ FindsNone(t) \/ EndPage(t) \/ TickStarts(t) \/ TickFails(t) \/ UNCHANGED phase
  <2>1. \A u \in Ticks : u = t
    BY DEF OneTick
  <2>2. ASSUME FetchPage(t) \/ TrialCharge(t)
        PROVE  UNCHANGED phase
    BY <2>2 DEF FetchPage, TrialCharge
  <2>3. ASSUME NEW s \in Subs,
               \/ ChargeRow(t, s) \/ ChargeRowNoCard(t, s) \/ TrialRow(t, s)
               \/ TrialRowNoCard(t, s) \/ RowSkipped(t, s)
        PROVE  UNCHANGED phase
    BY <2>3 DEF ChargeRow, ChargeRowNoCard, TrialRow, TrialRowNoCard, RowSkipped, PassRow
  <2>4. ASSUME NEW s \in Subs,
               \/ ChargeRuns(s) \/ CheckoutPaid(s) \/ CustomerCancels(s)
               \/ PlanDeleted(s) \/ PeriodEnds(s) \/ TrialEnds(s)
        PROVE  UNCHANGED phase
    BY <2>4, <1>t, NoneFallsDue
  <2>5. CASE UNCHANGED vars
    BY <2>5 DEF vars, loop
  <2>. QED
    BY <2>1, <2>2, <2>3, <2>4, <2>5 DEF Next, TickStep
<1>. QED
  BY <1>1, <1>2, <1>3, <1>4, <1>5

\* While ticks do not overlap and all subscriptions fit a page, a tick that
\* comes to the end of processActiveSubscriptions has added a job for every
\* row that was due when it began and still is, whatever the charge worker,
\* customers and the clock have done to the rows since its query.
THEOREM NobodyPassedOver == FewSubs /\ OneTick => (Spec => TickCovers)
<1>. SUFFICES ASSUME FewSubs, OneTick
              PROVE  Spec => TickCovers
  OBVIOUS
<1> DEFINE Covers == \A t \in Ticks :
                         phase[t] = "charges" /\ phase'[t] = "trials" =>
                             \A s \in horizon[t] \cap Due : asked[t][s] > 0
<1>1. CoverInv /\ [Next]_vars => CoverInv'
  BY StepCover
<1>2. CoverInv /\ [Next]_vars => [Covers]_vars
  BY LeavesCovered
<1>. QED
  BY InitCover, <1>1, <1>2, PTL DEF Spec, TickCovers

----------------------------------------------------------------------------
(* The same of the trials, where overlapping ticks do no harm: nothing     *)
(* makes a subscription an expired trial to a phase that did not see it.   *)

\* While t pages through the trials it is before its only query, or holds
\* every row of its horizon that is still an expired trial.
HoldsTrials(t) ==
    phase[t] = "trials" =>
        /\ pc[t] = "query" => cursor[t] = 0
        /\ pc[t] # "query" => horizon[t] \cap ExpiredTrials \subseteq page[t]
        /\ \A s \in horizon[t] : status[s] = "trialing" => trial[s] = "passed"

TrialsInv == IInv /\ \A t \in Ticks : HoldsTrials(t)

\* t stands where it stood.
Waits(t) ==
    /\ phase'[t] = phase[t] /\ pc'[t] = pc[t] /\ page'[t] = page[t] /\ cursor'[t] = cursor[t]
    /\ phase[t] = "trials" => horizon'[t] = horizon[t]

\* No subscription becomes a trial, and the end of one does not move.
TrialsOnlyEnd ==
    \A s \in Subs :
        status'[s] = "trialing" =>
            /\ status[s] = "trialing"
            /\ trial[s] = "passed" => trial'[s] = "passed"

LEMMA NoNewTrials ==
    ASSUME TypeOK, [Next]_vars
    PROVE  TrialsOnlyEnd
<1>1. ASSUME NEW s \in Subs, NEW v \in {"active", "past_due", "canceled", "gone"}, SetStatus(s, v)
      PROVE  TrialsOnlyEnd
  BY <1>1 DEF SetStatus, TypeOK, TrialsOnlyEnd
<1>2. CASE UNCHANGED <<status, trial>>
  BY <1>2 DEF TrialsOnlyEnd
<1>3. ASSUME NEW t \in Ticks, TickStep(t) \/ TickFails(t)
      PROVE  TrialsOnlyEnd
  <2>1. CASE \/ TickStarts(t) \/ FetchPage(t) \/ FindsNone(t)
             \/ TrialCharge(t) \/ EndPage(t) \/ TickFails(t)
    BY <1>2, <2>1 DEF TickStarts, FetchPage, FindsNone, TrialCharge, EndPage, TickFails, rows
  <2>2. ASSUME NEW s \in Subs, ChargeRow(t, s) \/ RowSkipped(t, s)
        PROVE  TrialsOnlyEnd
    BY <1>2, <2>2 DEF ChargeRow, RowSkipped, rows
  <2>3. ASSUME NEW s \in Subs, ChargeRowNoCard(t, s) \/ TrialRow(t, s) \/ TrialRowNoCard(t, s)
        PROVE  TrialsOnlyEnd
    BY <1>1, <2>3 DEF ChargeRowNoCard, TrialRow, TrialRowNoCard
  <2>. QED
    BY <1>3, <2>1, <2>2, <2>3 DEF TickStep
<1>4. ASSUME NEW s \in Subs,
             ChargeRuns(s) \/ CheckoutPaid(s) \/ CustomerCancels(s) \/ PlanDeleted(s)
      PROVE  TrialsOnlyEnd
  BY <1>1, <1>2, <1>4 DEF ChargeRuns, CheckoutPaid, CustomerCancels, PlanDeleted
<1>5. ASSUME NEW s \in Subs, PeriodEnds(s)
      PROVE  TrialsOnlyEnd
  BY <1>2, <1>5 DEF PeriodEnds
<1>6. ASSUME NEW s \in Subs, TrialEnds(s)
      PROVE  TrialsOnlyEnd
  BY <1>6 DEF TrialEnds, TypeOK, TrialsOnlyEnd
<1>7. CASE UNCHANGED vars
  BY <1>2, <1>7 DEF vars, rows
<1>. QED
  BY <1>3, <1>4, <1>5, <1>6, <1>7 DEF Next

\* A tick's step is its own.
LEMMA OthersWait ==
    ASSUME TypeOK, NEW t \in Ticks, NEW u \in Ticks, u # t, TickStep(u) \/ TickFails(u)
    PROVE  Waits(t)
<1>1. ASSUME NEW p, StartPhase(u, p) \/ Stop(u)
      PROVE  Waits(t)
  BY <1>1 DEF StartPhase, Stop, TypeOK, Waits
<1>2. CASE TickStarts(u) \/ FindsNone(u) \/ TickFails(u)
  BY <1>1, <1>2 DEF TickStarts, FindsNone, TickFails, NextPhase
<1>3. CASE EndPage(u)
  <2>1. CASE full[u]
    BY <1>3, <2>1 DEF EndPage, TypeOK, Waits
  <2>2. CASE ~full[u]
    BY <1>1, <1>3, <2>2 DEF EndPage, NextPhase
  <2>. QED
    BY <2>1, <2>2
<1>4. CASE FetchPage(u)
  <2>1. PICK P \in SUBSET Matching(u) : page' = [page EXCEPT ![u] = P]
    BY <1>4, Zenon DEF FetchPage
  <2>. QED
    BY <1>4, <2>1 DEF FetchPage, TypeOK, Waits
<1>5. CASE TrialCharge(u)
  BY <1>5 DEF TrialCharge, TypeOK, Waits
<1>6. ASSUME NEW s \in Subs,
             \/ ChargeRow(u, s) \/ ChargeRowNoCard(u, s) \/ TrialRow(u, s)
             \/ TrialRowNoCard(u, s) \/ RowSkipped(u, s)
      PROVE  Waits(t)
  BY <1>6 DEF ChargeRow, ChargeRowNoCard, TrialRow, TrialRowNoCard, RowSkipped, PassRow,
              TypeOK, Waits
<1>. QED
  BY <1>2, <1>3, <1>4, <1>5, <1>6 DEF TickStep

\* What a waiting tick holds only shrinks.
LEMMA WaitingHolds ==
    ASSUME NEW t \in Ticks, TypeOK, HoldsTrials(t), Waits(t), TrialsOnlyEnd
    PROVE  HoldsTrials(t)'
<1>. SUFFICES ASSUME phase'[t] = "trials"
              PROVE  HoldsTrials(t)'
  BY DEF HoldsTrials
<1>1. horizon[t] \subseteq Subs
  BY DEF TypeOK
<1>2. \A s \in horizon[t] \cap ExpiredTrials' : s \in ExpiredTrials
  BY <1>1 DEF HoldsTrials, Waits, TrialsOnlyEnd, ExpiredTrials
<1>3. \A s \in horizon[t] : status'[s] = "trialing" => trial'[s] = "passed"
  BY <1>1 DEF HoldsTrials, Waits, TrialsOnlyEnd
<1>. QED
  BY <1>2, <1>3 DEF HoldsTrials, Waits

\* What t does with its page.
LEMMA TickHolds ==
    ASSUME FewSubs, IInv, NEW t \in Ticks, HoldsTrials(t),
           TickStep(t) \/ TickFails(t), TrialsOnlyEnd
    PROVE  HoldsTrials(t)'
<1>t. TypeOK /\ PagesShort /\ AskedInOrder /\ horizon[t] \subseteq Subs
  BY DEF IInv, TypeOK
<1>1. CASE TickStarts(t) \/ TickFails(t)
  <2>1. phase'[t] # "trials"
    BY <1>1, <1>t DEF TickStarts, TickFails, StartPhase, Stop, TypeOK
  <2>. QED
    BY <2>1 DEF HoldsTrials
<1>2. CASE FindsNone(t) \/ EndPage(t)
  <2>1. NextPhase(t) /\ UNCHANGED rows
    BY <1>2, <1>t DEF FindsNone, EndPage, PagesShort
  <2>2. CASE StartPhase(t, "trials")
    BY <2>1, <2>2, <1>t DEF StartPhase, TypeOK, HoldsTrials, ExpiredTrials, rows
  <2>3. CASE Stop(t)
    BY <2>3, <1>t DEF Stop, TypeOK, HoldsTrials
  <2>. QED
    BY <2>1, <2>2, <2>3 DEF NextPhase
<1>3. CASE FetchPage(t)
  <2>1. PICK P \in SUBSET Matching(t) :
            /\ \/ Cardinality(Matching(t)) < PageSize /\ P = Matching(t)
               \/ Cardinality(P) = PageSize
            /\ page' = [page EXCEPT ![t] = P]
    BY <1>3, Zenon DEF FetchPage
  <2>2. Cardinality(P) # PageSize
    <3>1. Cardinality(P) < PageSize
      BY MatchingIsShort
    <3>2. P \subseteq Subs
      BY DEF Matching, Due, ExpiredTrials
    <3>3. Cardinality(P) \in Nat
      BY <3>2, ConstantsAssumption, FS_Subset, FS_CardinalityType
    <3>. QED
      BY <3>1, <3>3, ConstantsAssumption
  <2>3. /\ page'[t] = Matching(t) /\ pc[t] = "query" /\ pc'[t] = "rows"
        /\ UNCHANGED <<status, trial, phase, cursor, horizon>>
    BY <1>3, <1>t, <2>1, <2>2 DEF FetchPage, rows, TypeOK
  <2>4. phase[t] = "trials" => Matching(t) = horizon[t] \cap ExpiredTrials
    BY <2>3 DEF HoldsTrials, Matching
  <2>. QED
    BY <2>3, <2>4 DEF HoldsTrials, ExpiredTrials
<1>4. ASSUME NEW s \in Subs, ChargeRow(t, s) \/ ChargeRowNoCard(t, s)
      PROVE  HoldsTrials(t)'
  BY <1>4 DEF ChargeRow, ChargeRowNoCard, Visits, PassRow, HoldsTrials
<1>5. ASSUME NEW s \in Subs, TrialRow(t, s) \/ TrialRowNoCard(t, s) \/ RowSkipped(t, s)
      PROVE  HoldsTrials(t)'
  <2>1. /\ UNCHANGED <<phase, horizon>> /\ pc[t] = "rows" /\ pc'[t] # "query"
        /\ page'[t] = page[t] \ {s}
        /\ status'[s] # "trialing"
    <3>1. CASE TrialRow(t, s)
      BY <3>1, <1>t DEF TrialRow, SetStatus, PassRow, Visits, TypeOK
    <3>2. CASE TrialRowNoCard(t, s)
      BY <3>2, <1>t DEF TrialRowNoCard, SetStatus, PassRow, Visits, TypeOK
    <3>3. CASE RowSkipped(t, s)
      BY <3>3, <1>t DEF RowSkipped, PassRow, TypeOK, rows
    <3>. QED
      BY <1>5, <3>1, <3>2, <3>3
  <2>2. phase[t] = "trials" =>
            \A r \in horizon[t] \cap ExpiredTrials' : r \in ExpiredTrials /\ r # s
    BY <1>t, <2>1 DEF HoldsTrials, TrialsOnlyEnd, ExpiredTrials
  <2>3. phase[t] = "trials" =>
            \A r \in horizon[t] : status'[r] = "trialing" => trial'[r] = "passed"
    BY <1>t DEF HoldsTrials, TrialsOnlyEnd
  <2>. QED
    BY <2>1, <2>2, <2>3 DEF HoldsTrials
<1>6. CASE TrialCharge(t)
  <2>1. /\ UNCHANGED <<status, trial, phase, page, horizon>>
        /\ pc[t] = "promoted" /\ pc'[t] = "rows"
    BY <1>6, <1>t DEF TrialCharge, TypeOK, rows
  <2>. QED
    BY <2>1 DEF HoldsTrials, ExpiredTrials
<1>. QED
  BY <1>1, <1>2, <1>3, <1>4, <1>5, <1>6 DEF TickStep

LEMMA StepHolds ==
    ASSUME FewSubs, TrialsInv, [Next]_vars
    PROVE  TrialsInv'
<1>i. IInv /\ IInv' /\ TypeOK /\ TrialsOnlyEnd
  BY StepInv, NoNewTrials DEF TrialsInv, IInv
<1>. SUFFICES ASSUME NEW t \in Ticks
              PROVE  HoldsTrials(t)'
  BY <1>i DEF TrialsInv
<1>h. HoldsTrials(t)
  BY DEF TrialsInv
<1>1. CASE TickStep(t) \/ TickFails(t)
  BY <1>i, <1>h, <1>1, TickHolds
<1>2. CASE Waits(t)
  BY <1>i, <1>h, <1>2, WaitingHolds
<1>3. ASSUME NEW u \in Ticks, u # t, TickStep(u) \/ TickFails(u)
      PROVE  Waits(t)
  BY <1>i, <1>3, OthersWait
<1>4. ASSUME NEW s \in Subs,
             \/ ChargeRuns(s) \/ CheckoutPaid(s) \/ CustomerCancels(s)
             \/ PlanDeleted(s) \/ PeriodEnds(s) \/ TrialEnds(s)
      PROVE  Waits(t)
  BY <1>4 DEF ChargeRuns, CheckoutPaid, CustomerCancels, PlanDeleted, PeriodEnds, TrialEnds,
              loop, Waits
<1>5. CASE UNCHANGED vars
  BY <1>2, <1>5 DEF vars, loop, Waits
<1>. QED
  BY <1>1, <1>2, <1>3, <1>4, <1>5 DEF Next

\* t gets through its trials: it ends them, and not by failing.
GetsThrough(t) == phase[t] = "trials" /\ phase'[t] = "off" /\ failures' = failures

LEMMA LeavesNoTrial ==
    ASSUME TrialsInv, [Next]_vars, NEW t \in Ticks, GetsThrough(t)
    PROVE  horizon[t] \cap ExpiredTrials = {}
<1>t. TypeOK /\ PagesShort /\ HoldsTrials(t) /\ phase[t] = "trials" /\ ~Waits(t)
  BY DEF TrialsInv, IInv, GetsThrough, Waits
<1>1. CASE FindsNone(t)
  BY <1>1, <1>t DEF FindsNone, Matching, HoldsTrials
<1>2. CASE EndPage(t)
  BY <1>2, <1>t DEF EndPage, HoldsTrials
<1>3. CASE TickFails(t)
  <2>1. failures \in Nat /\ failures' = failures + 1
    BY <1>3, <1>t, ConstantsAssumption DEF TickFails, TypeOK
  <2>. QED
    BY <2>1 DEF GetsThrough
<1>4. CASE TickStep(t) /\ ~FindsNone(t) /\ ~EndPage(t)
  <2>1. ~TickStarts(t)
    BY <1>t DEF TickStarts
  <2>2. ASSUME FetchPage(t) \/ TrialCharge(t)
        PROVE  UNCHANGED phase
    BY <2>2 DEF FetchPage, TrialCharge
  <2>3. ASSUME NEW s \in Subs,
               \/ ChargeRow(t, s) \/ ChargeRowNoCard(t, s) \/ TrialRow(t, s)
               \/ TrialRowNoCard(t, s) \/ RowSkipped(t, s)
        PROVE  UNCHANGED phase
    BY <2>3 DEF ChargeRow, ChargeRowNoCard, TrialRow, TrialRowNoCard, RowSkipped, PassRow
  <2>. QED
    BY <1>4, <2>1, <2>2, <2>3 DEF TickStep, GetsThrough
<1>5. TickStep(t) \/ TickFails(t)
  <2>1. ASSUME NEW u \in Ticks, u # t, TickStep(u) \/ TickFails(u)
        PROVE  FALSE
    BY <1>t, <2>1, OthersWait
  <2>2. ASSUME NEW s \in Subs,
               \/ ChargeRuns(s) \/ CheckoutPaid(s) \/ CustomerCancels(s)
               \/ PlanDeleted(s) \/ PeriodEnds(s) \/ TrialEnds(s)
        PROVE  FALSE
    BY <1>t, <2>2 DEF ChargeRuns, CheckoutPaid, CustomerCancels, PlanDeleted, PeriodEnds,
                      TrialEnds, loop, Waits
  <2>3. CASE UNCHANGED vars
    BY <1>t, <2>3 DEF vars, loop, Waits
  <2>. QED
    BY <2>1, <2>2, <2>3 DEF Next
<1>. QED
  BY <1>1, <1>2, <1>3, <1>4, <1>5

\* The safety part of TrialsResolve.  A tick that gets through
\* processExpiredTrials leaves none of the trials it began with expired, as
\* long as all subscriptions fit a page: whatever other ticks, the charge
\* worker, customers and deletePlan do to the rows of its page meanwhile.
THEOREM TrialsAllTaken ==
    FewSubs =>
        (Spec => [][\A t \in Ticks : GetsThrough(t) => horizon[t] \cap ExpiredTrials = {}]_vars)
<1>. SUFFICES ASSUME FewSubs
              PROVE  Spec => [][\A t \in Ticks :
                                   GetsThrough(t) => horizon[t] \cap ExpiredTrials = {}]_vars
  OBVIOUS
<1>1. Init => TrialsInv
  BY InitInv DEF Init, TrialsInv, HoldsTrials
<1>2. TrialsInv /\ [Next]_vars => TrialsInv'
  BY StepHolds
<1>3. TrialsInv /\ [Next]_vars =>
          [\A t \in Ticks : GetsThrough(t) => horizon[t] \cap ExpiredTrials = {}]_vars
  BY LeavesNoTrial
<1>. QED
  BY <1>1, <1>2, <1>3, PTL DEF Spec
----------------------------------------------------------------------------
(* The calendar.  YearStart(y) and InYear(y, k) take a month apart.        *)

YearStart(y) == 365 * y + LeapsBefore(FirstYear + y) - LeapsBefore(FirstYear)

InYear(y, k) == DaysBefore[k + 1] + (IF k > 1 /\ Leap(FirstYear + y) THEN 1 ELSE 0)

LEMMA Tables ==
    /\ DaysBefore[1] = 0 /\ DaysBefore[2] = 31 /\ DaysBefore[3] = 59 /\ DaysBefore[4] = 90
    /\ DaysBefore[5] = 120 /\ DaysBefore[6] = 151 /\ DaysBefore[7] = 181
    /\ DaysBefore[8] = 212 /\ DaysBefore[9] = 243 /\ DaysBefore[10] = 273
    /\ DaysBefore[11] = 304 /\ DaysBefore[12] = 334
BY DEF DaysBefore

LEMMA MonthParts ==
    ASSUME NEW m \in Nat
    PROVE  /\ m \div 12 \in Nat /\ m % 12 \in 0..11 /\ m = 12 * (m \div 12) + (m % 12)
           /\ MonthStart(m) = YearStart(m \div 12) + InYear(m \div 12, m % 12)
<1> DEFINE y == m \div 12   k == m % 12
<1>1. y \in Nat /\ k \in 0..11 /\ m = 12 * y + k
  OBVIOUS
<1>2. MonthStart(m) = 365 * y + LeapsBefore(FirstYear + y) - LeapsBefore(FirstYear)
                        + DaysBefore[k + 1] + (IF k > 1 /\ Leap(FirstYear + y) THEN 1 ELSE 0)
  BY DEF MonthStart
<1>3. LeapsBefore(FirstYear + y) \in Int /\ LeapsBefore(FirstYear) \in Int
  BY <1>1, CyclesAssumption DEF LeapsBefore
<1>4. DaysBefore[k + 1] \in Int
  BY <1>1, Tables
<1> HIDE DEF y, k
<1>5. MonthStart(m) = YearStart(y) + InYear(y, k)
  BY <1>1, <1>2, <1>3, <1>4 DEF YearStart, InYear
<1>. QED
  BY <1>1, <1>5 DEF y, k

\* A year has 365 days or 366.
LEMMA YearLength ==
    ASSUME NEW y \in Nat
    PROVE  /\ YearStart(y) \in Int
           /\ YearStart(y + 1) = YearStart(y) + 365 + (IF Leap(FirstYear + y) THEN 1 ELSE 0)
<1>1. LeapsBefore(FirstYear + y + 1) - LeapsBefore(FirstYear + y) \in {0, 1}
  BY CyclesAssumption DEF LeapsBefore
<1>2. LeapsBefore(FirstYear + y) \in Int /\ LeapsBefore(FirstYear) \in Int
  BY CyclesAssumption DEF LeapsBefore
<1>3. FirstYear + (y + 1) = FirstYear + y + 1
  BY CyclesAssumption
<1>4. YearStart(y + 1) = YearStart(y) + 365
                           + (LeapsBefore(FirstYear + y + 1) - LeapsBefore(FirstYear + y))
  <2>1. YearStart(y + 1) = 365 * (y + 1) + LeapsBefore(FirstYear + y + 1) - LeapsBefore(FirstYear)
    BY <1>3 DEF YearStart
  <2>2. LeapsBefore(FirstYear + y + 1) \in Int
    BY CyclesAssumption DEF LeapsBefore
  <2>. QED
    BY <1>2, <2>1, <2>2 DEF YearStart
<1>5. YearStart(y) \in Int
  BY <1>2 DEF YearStart
<1>6. LeapsBefore(FirstYear + y + 1) - LeapsBefore(FirstYear + y)
        = IF Leap(FirstYear + y) THEN 1 ELSE 0
  <2>1. LeapsBefore(FirstYear + y + 1) \in Int
    BY CyclesAssumption DEF LeapsBefore
  <2>. QED
    BY <1>1, <1>2, <2>1 DEF Leap
<1>. QED
  BY <1>4, <1>5, <1>6

LEMMA YearsSpan ==
    ASSUME NEW y \in Nat, NEW z \in Nat, y <= z
    PROVE  /\ 365 * (z - y) <= YearStart(z) - YearStart(y)
           /\ YearStart(z) - YearStart(y) <= 366 * (z - y)
BY CyclesAssumption DEF YearStart, LeapsBefore

\* Months have 28 to 31 days, from any to any month of a year ...
LEMMA InYearSpan ==
    ASSUME NEW y \in Nat, NEW k \in 0..11, NEW l \in 0..11, k <= l
    PROVE  /\ InYear(y, k) \in Nat
           /\ 28 * (l - k) <= InYear(y, l) - InYear(y, k)
           /\ InYear(y, l) - InYear(y, k) <= 31 * (l - k)
<1> DEFINE leap(j) == IF j > 1 /\ Leap(FirstYear + y) THEN 1 ELSE 0
<1>1. /\ leap(k) \in {0, 1} /\ leap(l) \in {0, 1} /\ leap(k) <= leap(l)
      /\ k = l => leap(k) = leap(l)
      /\ k > 1 => leap(k) = leap(l)
      /\ l <= 1 => leap(l) = 0
  OBVIOUS
<1>2. InYear(y, k) = DaysBefore[k + 1] + leap(k) /\ InYear(y, l) = DaysBefore[l + 1] + leap(l)
  BY DEF InYear
<1> HIDE DEF leap
<1>3. \A i, j \in 0..11 : i <= j =>
          /\ DaysBefore[i + 1] \in Nat
          /\ 28 * (j - i) <= DaysBefore[j + 1] - DaysBefore[i + 1]
          /\ DaysBefore[j + 1] - DaysBefore[i + 1] + (IF i <= 1 /\ j > 1 THEN 1 ELSE 0) <= 31 * (j - i)
  BY Tables, SMTT(60)
<1>. QED
  BY <1>1, <1>2, <1>3

\* ... and to its end.
LEMMA RestOfYear ==
    ASSUME NEW y \in Nat, NEW k \in 0..11
    PROVE  /\ 28 * (12 - k) <= YearStart(y + 1) - YearStart(y) - InYear(y, k)
           /\ YearStart(y + 1) - YearStart(y) - InYear(y, k) <= 31 * (12 - k)
           /\ InYear(y, k) <= YearStart(y + 1) - YearStart(y)
           /\ 28 * k <= InYear(y, k) /\ InYear(y, k) <= 31 * k
BY Tables, YearLength DEF InYear

LEMMA MonthsSpan ==
    ASSUME NEW m \in Nat, NEW n \in Nat, m <= n
    PROVE  /\ MonthStart(m) \in Int /\ MonthStart(n) \in Int
           /\ 28 * (n - m) <= MonthStart(n) - MonthStart(m)
           /\ MonthStart(n) - MonthStart(m) <= 31 * (n - m)
<1> DEFINE y == m \div 12   z == n \div 12   k == m % 12   l == n % 12
<1>1. /\ y \in Nat /\ k \in 0..11 /\ m = 12 * y + k
      /\ MonthStart(m) = YearStart(y) + InYear(y, k)
  BY MonthParts
<1>2. /\ z \in Nat /\ l \in 0..11 /\ n = 12 * z + l
      /\ MonthStart(n) = YearStart(z) + InYear(z, l)
  BY MonthParts
<1>3. /\ YearStart(y) \in Int /\ YearStart(z) \in Int /\ YearStart(y + 1) \in Int
      /\ InYear(y, k) \in Nat /\ InYear(z, l) \in Nat
  <2> HIDE DEF y, z, k, l
  <2>1. y + 1 \in Nat
    BY <1>1
  <2>2. YearStart(y) \in Int /\ YearStart(z) \in Int /\ YearStart(y + 1) \in Int
    BY <2>1, <1>1, <1>2, YearLength
  <2>3. InYear(y, k) \in Nat /\ InYear(z, l) \in Nat
    <3>1. \A i \in 0..11 : i <= i
      OBVIOUS
    <3>. QED
      BY <1>1, <1>2, <3>1, InYearSpan
  <2>. QED
    BY <2>2, <2>3
<1> HIDE DEF y, z, k, l
<1>4. CASE y = z
  <2>1. k <= l
    BY <1>1, <1>2, <1>4
  <2>2. /\ 28 * (l - k) <= InYear(y, l) - InYear(y, k)
        /\ InYear(y, l) - InYear(y, k) <= 31 * (l - k)
    BY <1>1, <1>2, <2>1, InYearSpan
  <2>. QED
    BY <1>1, <1>2, <1>3, <1>4, <2>2
<1>5. CASE y < z
  <2>1. /\ 365 * (z - (y + 1)) <= YearStart(z) - YearStart(y + 1)
        /\ YearStart(z) - YearStart(y + 1) <= 366 * (z - (y + 1))
    <3>1. y + 1 \in Nat /\ y + 1 <= z
      BY <1>1, <1>2, <1>5
    <3>. QED
      BY <3>1, <1>2, YearsSpan
  <2>2. /\ 28 * (12 - k) <= YearStart(y + 1) - YearStart(y) - InYear(y, k)
        /\ YearStart(y + 1) - YearStart(y) - InYear(y, k) <= 31 * (12 - k)
    BY <1>1, RestOfYear
  <2>3. 28 * l <= InYear(z, l) /\ InYear(z, l) <= 31 * l
    BY <1>2, RestOfYear
  <2>. QED
    BY <1>1, <1>2, <1>3, <1>5, <2>1, <2>2, <2>3
<1>. QED
  BY <1>1, <1>2, <1>4, <1>5

LEMMA CalendarStarts == MonthStart(0) = 0
<1>1. 0 \div 12 = 0 /\ 0 % 12 = 0
  OBVIOUS
<1>. QED
  BY <1>1, MonthParts, Tables, CyclesAssumption DEF YearStart, InYear, LeapsBefore

\* Every day is in a month: its year is found by proportion, but for one.
LEMMA DayHasMonth ==
    ASSUME NEW day \in Nat
    PROVE  \E m \in Nat : MonthStart(m) <= day /\ day < MonthStart(m + 1)
<1> DEFINE q == (400 * day) \div 146097
<1>1. \E y \in Nat : YearStart(y) <= day /\ day < YearStart(y + 1)
  <2>1. q \in Nat
    OBVIOUS
  <2>2. day < YearStart(q + 2)
    BY CyclesAssumption DEF YearStart, LeapsBefore
  <2>3. q = 0 \/ YearStart(q - 1) <= day
    BY CyclesAssumption DEF YearStart, LeapsBefore
  <2>4. YearStart(0) = 0
    BY CyclesAssumption DEF YearStart, LeapsBefore
  <2>5. YearStart(q) \in Int /\ YearStart(q + 1) \in Int
    BY <2>1, YearLength
  <2> HIDE DEF q
  <2>6. CASE YearStart(q) > day
    BY <2>1, <2>3, <2>4, <2>5, <2>6
  <2>7. CASE YearStart(q) <= day /\ day < YearStart(q + 1)
    BY <2>1, <2>7
  <2>8. CASE YearStart(q + 1) <= day
    <3>1. q + 1 \in Nat /\ (q + 1) + 1 = q + 2
      BY <2>1
    <3>. QED
      BY <3>1, <2>2, <2>8
  <2>. QED
    BY <2>5, <2>6, <2>7, <2>8
<1>2. PICK y \in Nat : YearStart(y) <= day /\ day < YearStart(y + 1)
  BY <1>1
<1>3. \A k \in 0..11 : /\ 12 * y + k \in Nat
                       /\ (12 * y + k) \div 12 = y /\ (12 * y + k) % 12 = k
  OBVIOUS
<1>4. \A k \in 0..11 : MonthStart(12 * y + k) = YearStart(y) + InYear(y, k)
  BY <1>3, MonthParts
<1>5. /\ InYear(y, 0) = 0
      /\ \A k \in 0..11 : InYear(y, k) \in Nat
  BY Tables DEF InYear
<1>6. MonthStart(12 * y + 12) = YearStart(y + 1)
  <2>1. 12 * y + 12 \in Nat /\ (12 * y + 12) \div 12 = y + 1 /\ (12 * y + 12) % 12 = 0
    OBVIOUS
  <2>2. InYear(y + 1, 0) = 0
    BY Tables DEF InYear
  <2>3. YearStart(y + 1) \in Int
    BY YearLength, <2>1
  <2>4. MonthStart(12 * y + 12) = YearStart(y + 1) + InYear(y + 1, 0)
    BY <2>1, MonthParts
  <2>. QED
    BY <2>2, <2>3, <2>4
<1>7. YearStart(y) \in Int
  BY YearLength
<1>8. PICK k \in 0..11 : /\ MonthStart(12 * y + k) <= day
                         /\ day < MonthStart(12 * y + k + 1)
  <2>1. \A j \in 0..12 : MonthStart(12 * y + j) \in Int
    BY MonthsSpan
  <2>2. MonthStart(12 * y + 0) <= day
    BY <1>2, <1>4, <1>5, <1>7
  <2>. QED
    BY <1>2, <1>6, <2>1, <2>2
<1>. QED
  BY <1>3, <1>8

\* ... and in one only, which MonthOf finds.
LEMMA MonthOfDay ==
    ASSUME NEW day \in Nat, NEW m \in Nat, MonthStart(m) <= day, day < MonthStart(m + 1)
    PROVE  MonthOf(day) = m
<1>1. \A n \in Nat : MonthStart(n) <= day /\ day < MonthStart(n + 1) => n = m
  <2>1. SUFFICES ASSUME NEW n \in Nat, MonthStart(n) <= day, day < MonthStart(n + 1), n # m
                 PROVE  FALSE
    OBVIOUS
  <2>2. CASE n < m
    <3>1. n + 1 \in Nat /\ n + 1 <= m /\ 28 * (m - (n + 1)) >= 0
      BY <2>2
    <3>2. /\ MonthStart(n + 1) \in Int /\ MonthStart(m) \in Int
          /\ 28 * (m - (n + 1)) <= MonthStart(m) - MonthStart(n + 1)
      BY <3>1, MonthsSpan
    <3>. QED
      BY <2>1, <3>1, <3>2
  <2>3. CASE m < n
    <3>1. m + 1 \in Nat /\ m + 1 <= n /\ 28 * (n - (m + 1)) >= 0
      BY <2>3
    <3>2. /\ MonthStart(m + 1) \in Int /\ MonthStart(n) \in Int
          /\ 28 * (n - (m + 1)) <= MonthStart(n) - MonthStart(m + 1)
      BY <3>1, MonthsSpan
    <3>. QED
      BY <2>1, <3>1, <3>2
  <2>. QED
    BY <2>1, <2>2, <2>3
<1>2. m \in (day \div 31)..(day \div 28)
  <2>1. 28 * m <= MonthStart(m)
    BY MonthsSpan, CalendarStarts
  <2>2. MonthStart(m + 1) <= 31 * (m + 1)
    BY MonthsSpan, CalendarStarts
  <2>3. MonthStart(m) \in Int /\ MonthStart(m + 1) \in Int
    BY MonthsSpan
  <2>. QED
    BY <2>1, <2>2, <2>3
<1>3. (day \div 31)..(day \div 28) \subseteq Nat
  OBVIOUS
<1>. QED
  BY <1>1, <1>2, <1>3 DEF MonthOf

LEMMA MonthOfType ==
    ASSUME NEW day \in Nat
    PROVE  /\ MonthOf(day) \in Nat
           /\ MonthStart(MonthOf(day)) <= day /\ day < MonthStart(MonthOf(day) + 1)
           /\ day = MonthStart(MonthOf(day)) + DayOfMonth(day)
           /\ DayOfMonth(day) \in 0..30
<1>1. PICK m \in Nat : MonthStart(m) <= day /\ day < MonthStart(m + 1)
  BY DayHasMonth
<1>2. MonthOf(day) = m
  BY <1>1, MonthOfDay
<1>3. MonthStart(m) \in Int /\ MonthStart(m + 1) \in Int /\ MonthStart(m + 1) - MonthStart(m) <= 31
  BY MonthsSpan
<1>. QED
  BY <1>1, <1>2, <1>3 DEF DayOfMonth

\* Whenever it is charged, a week has seven days, a month 28 to 31 and a year
\* 365 or 366 (computeNextPeriodEnd): the overflow of setMonth and setFullYear
\* never cuts a paid period short.
THEOREM PeriodLength ==
    ASSUME NEW day \in Nat, NEW i
    PROVE  /\ NextPeriodEnd(i, day) \in Nat
           /\ NextPeriodEnd(i, day) - day \in
                  CASE i = "weekly" -> {7} [] i = "yearly" -> {365, 366} [] OTHER -> 28..31
<1> DEFINE m == MonthOf(day)
<1>1. m \in Nat /\ DayOfMonth(day) \in 0..30 /\ day = MonthStart(m) + DayOfMonth(day)
  BY MonthOfType
<1> HIDE DEF m
<1>2. MonthStart(m) \in Int
  BY <1>1, MonthsSpan
<1>3. CASE i = "weekly"
  BY <1>3 DEF NextPeriodEnd
<1>4. CASE i = "yearly"
  <2> DEFINE y == m \div 12   k == m % 12
  <2>1. /\ y \in Nat /\ k \in 0..11 /\ MonthStart(m) = YearStart(y) + InYear(y, k)
    BY <1>1, MonthParts
  <2>2. /\ m + 12 \in Nat /\ (m + 12) \div 12 = y + 1 /\ (m + 12) % 12 = k
    BY <1>1
  <2>3. MonthStart(m + 12) = YearStart(y + 1) + InYear(y + 1, k)
    BY <2>2, MonthParts
  <2> HIDE DEF y, k
  <2> DEFINE leap(z) == IF Leap(FirstYear + z) THEN 1 ELSE 0
  <2>4. /\ YearStart(y) \in Int /\ YearStart(y + 1) = YearStart(y) + 365 + leap(y)
    BY <2>1, YearLength
  <2>5. /\ DaysBefore[k + 1] \in Nat
        /\ InYear(y, k) = DaysBefore[k + 1] + (IF k > 1 THEN leap(y) ELSE 0)
        /\ InYear(y + 1, k) = DaysBefore[k + 1] + (IF k > 1 THEN leap(y + 1) ELSE 0)
    BY <2>1, Tables DEF InYear
  <2>6. leap(y) \in {0, 1} /\ leap(y + 1) \in {0, 1}
    OBVIOUS
  <2> HIDE DEF leap
  <2>7. MonthStart(m + 12) - MonthStart(m) \in {365, 366} /\ MonthStart(m + 12) \in Int
    BY <2>1, <2>3, <2>4, <2>5, <2>6
  <2>8. NextPeriodEnd(i, day) = MonthStart(m + 12) + DayOfMonth(day)
    BY <1>4 DEF NextPeriodEnd, AddMonths, m
  <2>. QED
    BY <1>1, <1>2, <1>4, <2>7, <2>8
<1>5. CASE i \notin {"weekly", "yearly"}
  <2>1. NextPeriodEnd(i, day) = MonthStart(m + 1) + DayOfMonth(day)
    BY <1>5 DEF NextPeriodEnd, AddMonths, m
  <2>2. /\ m + 1 \in Nat /\ m <= m + 1 /\ 28 * ((m + 1) - m) = 28 /\ 31 * ((m + 1) - m) = 31
    BY <1>1
  <2>3. /\ MonthStart(m + 1) \in Int
        /\ 28 <= MonthStart(m + 1) - MonthStart(m) /\ MonthStart(m + 1) - MonthStart(m) <= 31
    BY <1>1, <2>2, MonthsSpan
  <2>. QED
    BY <1>1, <1>2, <1>5, <2>1, <2>3
<1>. QED
  BY <1>3, <1>4, <1>5

\* day is in month due or a later one, behind the d-th of due by no more than
\* the days it came late, counting each month in between as its shortest; in
\* due itself it is not before the d-th.
KeepsUp(day, due, d, delays) ==
    /\ due <= MonthOf(day)
    /\ 28 * (MonthOf(day) - due) + DayOfMonth(day) <= d + delays
    /\ MonthOf(day) = due => d <= DayOfMonth(day)

\* Adding months and some delay keeps up: what a short month adds by its
\* overflow, the month begun thereby takes away.
LEMMA OneMorePeriod ==
    ASSUME NEW day \in Nat, NEW due \in Nat, NEW d \in 0..30, NEW delays \in Nat,
           NEW n \in Nat, NEW delay \in Nat, KeepsUp(day, due, d, delays)
    PROVE  /\ AddMonths(day, n) + delay \in Nat
           /\ KeepsUp(AddMonths(day, n) + delay, due + n, d, delays + delay)
<1> DEFINE m == MonthOf(day) + n   v == DayOfMonth(day)   then == AddMonths(day, n) + delay
           w == MonthOf(then)
<1>1. m \in Nat /\ v \in 0..30 /\ MonthOf(day) \in Nat /\ m = MonthOf(day) + n
  BY MonthOfType
<1>2. then = MonthStart(m) + v + delay
  BY DEF AddMonths
<1>3. MonthStart(m) \in Int /\ MonthStart(m) >= 0
  <2> HIDE DEF m
  <2>1. 0 <= m /\ 0 \in Nat /\ 28 * (m - 0) >= 0
    BY <1>1
  <2>2. MonthStart(m) \in Int /\ 28 * (m - 0) <= MonthStart(m) - MonthStart(0)
    BY <1>1, <2>1, MonthsSpan
  <2>3. 28 * (m - 0) <= MonthStart(m)
    BY <2>2, CalendarStarts
  <2>. QED
    BY <1>1, <2>1, <2>2, <2>3
<1>4. then \in Nat
  BY <1>1, <1>2, <1>3
<1>5. /\ w \in Nat /\ then = MonthStart(w) + DayOfMonth(then)
      /\ MonthStart(w) <= then /\ then < MonthStart(w + 1)
      /\ DayOfMonth(then) \in 0..30
  BY <1>4, MonthOfType
<1>6. due <= MonthOf(day) /\ 28 * (MonthOf(day) - due) + v <= d + delays
      /\ (MonthOf(day) = due => d <= v)
  BY DEF KeepsUp
<1>7. MonthStart(w) \in Int /\ MonthStart(w + 1) \in Int /\ w + 1 \in Nat
  <2>1. w \in Nat /\ w + 1 \in Nat /\ w <= w + 1
    BY <1>5
  <2>. QED
    BY <2>1, MonthsSpan
<1> HIDE DEF m, v, then, w
<1>8. m <= w
  <2>1. SUFFICES ASSUME w < m PROVE FALSE
    BY <1>1, <1>5
  <2>2. w + 1 <= m /\ 28 * (m - (w + 1)) >= 0
    BY <1>1, <1>5, <2>1
  <2>3. 28 * (m - (w + 1)) <= MonthStart(m) - MonthStart(w + 1)
    BY <1>1, <1>7, <2>2, MonthsSpan
  <2>. QED
    BY <1>1, <1>2, <1>3, <1>5, <1>7, <2>2, <2>3
<1>9. 28 * (w - m) <= MonthStart(w) - MonthStart(m)
  BY <1>1, <1>5, <1>8, MonthsSpan
<1>10. KeepsUp(then, due + n, d, delays + delay)
  <2>1. due + n <= w
    BY <1>1, <1>5, <1>6, <1>8
  <2>2. 28 * (w - (due + n)) + DayOfMonth(then) <= d + (delays + delay)
    BY <1>1, <1>2, <1>3, <1>5, <1>6, <1>7, <1>9
  <2>3. w = due + n => d <= DayOfMonth(then)
    <3>1. SUFFICES ASSUME w = due + n PROVE d <= DayOfMonth(then)
      OBVIOUS
    <3>2. MonthOf(day) = due
      <4>1. MonthOf(day) + n <= due + n /\ due <= MonthOf(day) /\ MonthOf(day) \in Nat
        BY <1>1, <1>6, <1>8, <3>1
      <4>. QED
        BY <4>1
    <3>3. w = m
      BY <1>1, <3>1, <3>2
    <3>. QED
      BY <1>1, <1>2, <1>3, <1>5, <1>6, <3>2, <3>3
  <2>. QED
    BY <2>1, <2>2, <2>3 DEF KeepsUp, w
<1>. QED
  BY <1>4, <1>10 DEF then

LEMMA NearAnniversary ==
    ASSUME NEW f \in Nat, NEW k \in Nat, NEW n \in Nat, NEW day \in Nat, NEW delays \in Nat,
           KeepsUp(day, MonthOf(f) + k, DayOfMonth(f), delays)
    PROVE  /\ Anniversary(f, k + n) <= AddMonths(day, n)
           /\ AddMonths(day, n) <= Anniversary(f, k + n) + delays + 3 * ((30 + delays) \div 28)
<1> DEFINE due == MonthOf(f) + k   d == DayOfMonth(f)   v == DayOfMonth(day)
           month == MonthOf(f) + (k + n)   m == MonthOf(day) + n   j == MonthOf(day) - due
<1>1. MonthOf(f) \in Nat /\ d \in 0..30 /\ MonthOf(day) \in Nat /\ v \in 0..30
  BY MonthOfType
<1>2. /\ due \in Nat /\ month \in Nat /\ month + 1 \in Nat /\ m \in Nat
      /\ j \in Int /\ m = month + j
  BY <1>1
<1>3. j >= 0 /\ 28 * j + v <= d + delays /\ (j = 0 => d <= v)
  <2>1. /\ due <= MonthOf(day) /\ 28 * (MonthOf(day) - due) + v <= d + delays
        /\ MonthOf(day) = due => d <= v
    BY DEF KeepsUp
  <2>2. j = MonthOf(day) - due
    OBVIOUS
  <2> HIDE DEF due, d, v, j
  <2>. QED
    <3>1. j >= 0
      BY <1>1, <1>2, <2>1, <2>2
    <3>2. 28 * j + v <= d + delays
      BY <2>1, <2>2
    <3>3. j = 0 => MonthOf(day) = due
      BY <1>1, <1>2, <2>2
    <3>4. j = 0 => d <= v
      BY <2>1, <3>3
    <3>. QED
      BY <3>1, <3>2, <3>4
<1>4. AddMonths(day, n) = MonthStart(m) + v
  BY DEF AddMonths
<1>5. Anniversary(f, k + n) = IF MonthStart(month) + d < MonthStart(month + 1)
                              THEN MonthStart(month) + d ELSE MonthStart(month + 1) - 1
  BY DEF Anniversary
<1> DEFINE length == MonthStart(month + 1) - MonthStart(month)
<1>6. /\ MonthStart(month) \in Int /\ MonthStart(month + 1) \in Int
      /\ length \in 28..31
  <2> HIDE DEF month
  <2>1. month <= month + 1 /\ 28 * ((month + 1) - month) = 28 /\ 31 * ((month + 1) - month) = 31
    BY <1>2
  <2>2. /\ MonthStart(month) \in Int /\ MonthStart(month + 1) \in Int
        /\ 28 * ((month + 1) - month) <= MonthStart(month + 1) - MonthStart(month)
        /\ MonthStart(month + 1) - MonthStart(month) <= 31 * ((month + 1) - month)
    BY <1>2, <2>1, MonthsSpan
  <2>. QED
    BY <2>1, <2>2
<1>7. MonthStart(m) \in Int
  BY <1>2, MonthsSpan
<1>8. delays + 3 * j <= delays + 3 * ((30 + delays) \div 28)
      /\ delays + 3 <= delays + 3 * ((30 + delays) \div 28)
  <2>1. 28 * j <= 30 + delays
    BY <1>1, <1>2, <1>3
  <2>. QED
    BY <1>2, <2>1
<1> DEFINE bound == 3 * ((30 + delays) \div 28)
<1>9. bound \in Int
  OBVIOUS
<1>10. delays + 3 * j <= delays + bound /\ delays + 3 <= delays + bound
  BY <1>8
<1> HIDE DEF due, d, v, month, m, j, length, bound
<1>11. CASE j = 0
  <2>1. m = month /\ d <= v /\ v <= d + delays
    BY <1>1, <1>2, <1>3, <1>11
  <2>. QED
    BY <1>1, <1>4, <1>5, <1>6, <1>9, <1>10, <2>1 DEF length, bound
<1>12. CASE j > 0
  <2>1. month + 1 <= m /\ 28 * (m - (month + 1)) >= 0 /\ m - (month + 1) = j - 1
    BY <1>2, <1>12
  <2>2. /\ 0 <= MonthStart(m) - MonthStart(month + 1)
        /\ MonthStart(m) - MonthStart(month + 1) <= 31 * (j - 1)
    <3>1. /\ 28 * (m - (month + 1)) <= MonthStart(m) - MonthStart(month + 1)
          /\ MonthStart(m) - MonthStart(month + 1) <= 31 * (m - (month + 1))
      BY <1>2, <2>1, MonthsSpan
    <3>. QED
      BY <1>2, <1>6, <1>7, <2>1, <3>1
  <2>. QED
    BY <1>1, <1>2, <1>3, <1>4, <1>5, <1>6, <1>7, <1>9, <1>10, <2>2 DEF length, bound
<1>. QED
  BY <1>2, <1>3, <1>11, <1>12

----------------------------------------------------------------------------
(* Rounding.                                                               *)

LEMMA Division ==
    ASSUME NEW a \in Int, NEW b \in Nat \ {0}
    PROVE  a \div b \in Int /\ b * (a \div b) <= a /\ a < b * (a \div b) + b
OBVIOUS

LEMMA RoundIsNear ==
    ASSUME NEW n \in Int, NEW d \in Nat \ {0}
    PROVE  /\ Round(n, d) \in Int
           /\ 2 * n - d <= 2 * (d * Round(n, d)) /\ 2 * (d * Round(n, d)) <= 2 * n + d
<1> DEFINE q == (2 * n + d) \div (2 * d)
<1>1. q \in Int /\ (2 * d) * q <= 2 * n + d /\ 2 * n + d < (2 * d) * q + 2 * d
  <2>1. 2 * n + d \in Int /\ 2 * d \in Nat \ {0}
    OBVIOUS
  <2>. QED
    BY <2>1, Division
<1>2. Round(n, d) = q
  BY DEF Round
<1> HIDE DEF q
<1>3. (2 * d) * q = 2 * (d * q)
  BY <1>1
<1>. QED
  BY <1>1, <1>2, <1>3

LEMMA Multiply ==
    ASSUME NEW a \in Int, NEW b \in Int, NEW k \in Nat, a <= b
    PROVE  k * a <= k * b
OBVIOUS

\* One change of plan, in a period of total days with unused to come: what is
\* charged and what the rest of the old period was worth make up for the price
\* of the new one and the credit that is lost, to half a kobo for the rounding
\* of the credit and half a kobo for that of the charge.
LEMMA OneChange ==
    ASSUME NEW current \in Nat, NEW new \in Nat, NEW began \in Nat, NEW end \in Nat,
           NEW day \in began..end, began < end, NEW k \in Nat
    PROVE  LET scale == k * (end - began)
               credit == UnusedCredit(current, began, end, day)
               net == NetCharge(current, new, began, end, day)
               gone == IF 10 * credit > new THEN 10 * credit - new ELSE 0
               error == scale * (net - new) + current * (end - day) * k - scale * gone
           IN  /\ credit \in Int /\ net \in Int /\ gone \in Nat /\ error \in Int
               /\ -10 * scale <= error /\ error <= 10 * scale
<1> DEFINE total == end - began   unused == end - day   scale == k * total
           credit == UnusedCredit(current, began, end, day)
           net == NetCharge(current, new, began, end, day)
           gone == IF 10 * credit > new THEN 10 * credit - new ELSE 0
           worth == current * unused
<1>1. /\ total \in Nat \ {0} /\ unused \in Nat /\ unused <= total
      /\ worth \in Nat /\ scale \in Nat /\ 10 * total \in Nat \ {0}
  OBVIOUS
<1>2. CASE unused = 0
  <2>1. credit = 0 /\ net = new
    BY <1>2 DEF UnusedCredit, NetCharge
  <2>2. gone = 0
    BY <2>1
  <2>3. worth * k = 0
    BY <1>2
  <2> HIDE DEF credit, net, gone
  <2>. QED
    BY <1>1, <2>1, <2>2, <2>3 DEF credit, net, gone
<1>3. CASE unused > 0
  <2> DEFINE charge == Round(new - 10 * credit, 10)
  <2>1. credit = Round(worth, 10 * total)
    BY <1>1, <1>3 DEF UnusedCredit
  <2>2. net = IF charge > 0 THEN 10 * charge ELSE 0
    BY <1>1, <1>3 DEF NetCharge
  <2> HIDE DEF total, unused, scale, credit, net, gone, worth
  <2>3. /\ credit \in Int
        /\ 2 * worth - 10 * total <= 2 * ((10 * total) * credit)
        /\ 2 * ((10 * total) * credit) <= 2 * worth + 10 * total
    BY <1>1, <2>1, RoundIsNear
  <2>4. /\ charge \in Int
        /\ 2 * (new - 10 * credit) - 10 <= 2 * (10 * charge)
        /\ 2 * (10 * charge) <= 2 * (new - 10 * credit) + 10
    <3>1. new - 10 * credit \in Int /\ 10 \in Nat \ {0}
      BY <2>3
    <3>. QED
      BY <3>1, RoundIsNear
  <2> HIDE DEF charge
  <2> DEFINE e == net - new - gone + 10 * credit   f == worth - 10 * (total * credit)
  <2>5. gone \in Nat /\ net \in Int /\ e \in Int /\ -5 <= e /\ e <= 5
    BY <2>2, <2>3, <2>4 DEF gone
  <2>6. f \in Int /\ -5 * total <= f /\ f <= 5 * total
    <3>1. total * credit \in Int /\ (10 * total) * credit = 10 * (total * credit)
      BY <1>1, <2>3
    <3>. QED
      BY <1>1, <2>3, <3>1
  <2>7. scale * (net - new) + worth * k - scale * gone = scale * e + k * f
    BY <1>1, <2>3, <2>5 DEF scale
  <2> HIDE DEF e, f
  <2>8. /\ scale * (-5) <= scale * e /\ scale * e <= scale * 5
        /\ scale * e \in Int
    BY <1>1, <2>5, Multiply
  <2>9. /\ k * (-5 * total) <= k * f /\ k * f <= k * (5 * total)
        /\ k * f \in Int
    BY <1>1, <2>6, Multiply
  <2>10. k * (-5 * total) = scale * (-5) /\ k * (5 * total) = scale * 5
    BY <1>1 DEF scale
  <2>11. /\ scale * (net - new) + worth * k - scale * gone \in Int
         /\ -10 * scale <= scale * (net - new) + worth * k - scale * gone
         /\ scale * (net - new) + worth * k - scale * gone <= 10 * scale
    BY <1>1, <2>7, <2>8, <2>9, <2>10
  <2>. QED
    BY <2>3, <2>5, <2>11 DEF total, unused, scale, credit, net, gone, worth
<1>. QED
  BY <1>1, <1>2, <1>3

----------------------------------------------------------------------------
(* A subscription over its periods.                                        *)

\* The month in which the last charge fell due.
DueMonth == MonthOf(first) + (IF interval = "yearly" THEN 12 * renewals ELSE renewals)

OnTrack ==
    IF interval = "weekly" THEN today = first + 7 * renewals + late
    ELSE KeepsUp(today, DueMonth, DayOfMonth(first), late)

CyclesInv ==
    /\ {today, ends, first, renewals, late, changes, lost} \subseteq Nat
    /\ surplus \in Int
    /\ amount \in Amounts
    /\ ends = NextPeriodEnd(interval, today)
    /\ OnTrack
    /\ ChargesFit

\* A plan that begins is on track.
LEMMA BeginsOnTrack ==
    ASSUME first \in Nat, today = first, renewals = 0, late = 0
    PROVE  OnTrack
<1>1. MonthOf(first) \in Nat /\ DayOfMonth(first) \in 0..30
  BY MonthOfType
<1>2. DueMonth = MonthOf(first)
  BY <1>1 DEF DueMonth
<1>. QED
  BY <1>1, <1>2 DEF OnTrack, KeepsUp

LEMMA CyclesInitInv == CyclesInit => CyclesInv
<1> SUFFICES ASSUME CyclesInit PROVE CyclesInv
  OBVIOUS
<1>1. first \in Nat /\ today \in Nat /\ amount \in Amounts
  BY CyclesAssumption DEF CyclesInit
<1>2. ends \in Nat
  BY <1>1, PeriodLength DEF CyclesInit
<1>3. OnTrack
  BY <1>1, BeginsOnTrack DEF CyclesInit
<1>4. ChargesFit
  BY CyclesAssumption DEF CyclesInit, ChargesFit
<1>. QED
  BY <1>1, <1>2, <1>3, <1>4 DEF CyclesInit, CyclesInv

LEMMA RenewsInv ==
    ASSUME CyclesInv, NEW delay \in 0..MaxLate, Renews(delay)
    PROVE  CyclesInv'
<1>1. /\ {today, ends, first, renewals, late} \subseteq Nat /\ delay \in Nat
      /\ ends = NextPeriodEnd(interval, today)
  BY CyclesAssumption DEF CyclesInv
<1>2. /\ today' = ends + delay /\ ends' = NextPeriodEnd(interval, ends + delay)
      /\ renewals' = renewals + 1 /\ late' = late + delay
      /\ UNCHANGED <<interval, amount, first, changes, lost, surplus>>
  BY DEF Renews, plan, books
<1>3. today' \in Nat /\ ends' \in Nat
  <2>1. ends + delay \in Nat
    BY <1>1
  <2>. QED
    BY <1>2, <2>1, PeriodLength
<1>4. OnTrack'
  <2>1. CASE interval = "weekly"
    <3>1. today = first + 7 * renewals + late /\ ends = today + 7
      BY <1>1, <2>1 DEF CyclesInv, OnTrack, NextPeriodEnd
    <3>. QED
      BY <1>1, <1>2, <2>1, <3>1 DEF OnTrack
  <2>2. CASE interval # "weekly"
    <3> DEFINE n == IF interval = "yearly" THEN 12 ELSE 1
    <3>1. n \in Nat /\ ends = AddMonths(today, n)
      BY <1>1, <2>2 DEF NextPeriodEnd
    <3>2. MonthOf(first) \in Nat /\ DayOfMonth(first) \in 0..30
      BY <1>1, MonthOfType
    <3>3. DueMonth \in Nat /\ DueMonth' = DueMonth + n
      BY <1>1, <1>2, <3>2 DEF DueMonth
    <3>4. KeepsUp(today, DueMonth, DayOfMonth(first), late)
      BY <2>2 DEF CyclesInv, OnTrack
    <3> HIDE DEF n
    <3>5. KeepsUp(ends + delay, DueMonth + n, DayOfMonth(first), late + delay)
      BY <1>1, <3>1, <3>2, <3>3, <3>4, OneMorePeriod
    <3>6. KeepsUp(today', DueMonth', DayOfMonth(first'), late')
      BY <1>2, <3>3, <3>5
    <3>. QED
      BY <1>2, <2>2, <3>6 DEF OnTrack, KeepsUp, MonthOf, DayOfMonth
  <2>. QED
    BY <2>1, <2>2
<1>5. ChargesFit'
  BY <1>2 DEF CyclesInv, ChargesFit
<1>. QED
  BY <1>1, <1>2, <1>3, <1>4, <1>5 DEF CyclesInv

LEMMA ChangesPlanInv ==
    ASSUME CyclesInv, NEW day \in today..ends, NEW i, NEW new \in Amounts,
           ChangesPlan(day, i, new)
    PROVE  CyclesInv'
<1> DEFINE total == ends - today   k == Scale \div total
           credit == UnusedCredit(amount, today, ends, day)
           net == NetCharge(amount, new, today, ends, day)
           gone == IF 10 * credit > new THEN 10 * credit - new ELSE 0
           error == Scale * (net - new) + amount * (ends - day) * k - Scale * gone
<1>1. /\ {today, ends, first, changes, lost} \subseteq Nat /\ surplus \in Int
      /\ amount \in Nat /\ new \in Nat /\ Scale \in Nat \ {0} /\ today < ends
      /\ day \in Nat
  <2>1. today \in Nat /\ ends \in Nat /\ amount \in Nat /\ new \in Nat
    BY CyclesAssumption DEF CyclesInv
  <2>2. ends - today > 0
    BY <2>1, PeriodLength DEF CyclesInv
  <2>. QED
    BY <2>1, <2>2, CyclesAssumption DEF CyclesInv
<1>2. Scale % total = 0
  BY DEF ChangesPlan
<1>3. k \in Nat /\ Scale = k * total
  <2>1. total \in Nat \ {0}
    BY <1>1
  <2> HIDE DEF total
  <2>. QED
    BY <1>1, <1>2, <2>1
<1>4. /\ credit \in Int /\ net \in Int /\ gone \in Nat /\ error \in Int
      /\ -10 * Scale <= error /\ error <= 10 * Scale
  <2> HIDE DEF k
  <2>. QED
    BY <1>1, <1>3, OneChange
<1>5. /\ today' = day /\ first' = day /\ renewals' = 0 /\ late' = 0
      /\ ends' = NextPeriodEnd(i, day) /\ interval' = i /\ amount' = new
      /\ changes' = changes + 1
  BY DEF ChangesPlan
<1>6. lost' = lost + gone /\ surplus' = surplus + Scale * (net - new) + amount * (ends - day) * k
  BY DEF ChangesPlan
<1> HIDE DEF total, k, credit, net, gone, error
<1>7. ChargesFit'
  <2>1. ChargesFit
    BY DEF CyclesInv
  <2> DEFINE old == surplus - Scale * lost
  <2>2. old \in Int /\ -10 * Scale * changes <= old /\ old <= 10 * Scale * changes
    BY <1>1, <2>1 DEF ChargesFit
  <2>3. surplus' - Scale * lost' = old + error
    BY <1>1, <1>3, <1>4, <1>6 DEF error
  <2>4. /\ -10 * Scale * changes' = (-10 * Scale * changes) - 10 * Scale
        /\ 10 * Scale * changes' = 10 * Scale * changes + 10 * Scale
    BY <1>1, <1>5
  <2> HIDE DEF old
  <2>5. 10 * Scale * changes \in Int /\ -10 * Scale * changes \in Int
    BY <1>1
  <2>. QED
    BY <1>1, <1>4, <2>2, <2>3, <2>4, <2>5 DEF ChargesFit
<1>8. ends' \in Nat
  BY <1>1, <1>5, PeriodLength
<1>9. OnTrack'
  <2>1. (first \in Nat /\ today = first /\ renewals = 0 /\ late = 0)'
    BY <1>1, <1>5
  <2>2. (first \in Nat /\ today = first /\ renewals = 0 /\ late = 0 => OnTrack)'
    BY BeginsOnTrack, PTL
  <2>. QED
    BY <2>1, <2>2
<1>10. lost' \in Nat /\ surplus' \in Int
  BY <1>1, <1>3, <1>4, <1>6
<1>. QED
  BY <1>1, <1>5, <1>7, <1>8, <1>9, <1>10 DEF CyclesInv

LEMMA CyclesStepInv ==
    ASSUME CyclesInv, [CyclesNext]_cycles
    PROVE  CyclesInv'
<1>1. CASE \E delay \in 0..MaxLate : Renews(delay)
  BY <1>1, RenewsInv
<1>2. CASE \E day \in today..ends, i \in Intervals, new \in Amounts : ChangesPlan(day, i, new)
  BY <1>2, ChangesPlanInv
<1>3. CASE UNCHANGED cycles
  <2>1. UNCHANGED <<today, ends, interval, amount, first, renewals, late, changes, lost, surplus>>
    BY <1>3 DEF cycles, plan, counts, books
  <2>2. OnTrack'
    BY <2>1 DEF CyclesInv, OnTrack, DueMonth
  <2>3. ChargesFit'
    BY <2>1 DEF CyclesInv, ChargesFit
  <2>. QED
    BY <2>1, <2>2, <2>3 DEF CyclesInv
<1>. QED
  BY <1>1, <1>2, <1>3 DEF CyclesNext

LEMMA InvAnchors == CyclesInv => AnchorHolds
<1> SUFFICES ASSUME CyclesInv PROVE AnchorHolds
  OBVIOUS
<1>1. {today, ends, first, renewals, late} \subseteq Nat /\ ends = NextPeriodEnd(interval, today)
  BY DEF CyclesInv
<1> DEFINE slack == 3 * ((30 + late) \div 28)
<1>2. slack \in Nat /\ slack >= 0
  BY <1>1
<1>3. CASE interval = "weekly"
  <2>1. ends = first + 7 * renewals + late + 7 /\ DueDay = first + 7 * (renewals + 1)
    BY <1>1, <1>3 DEF CyclesInv, OnTrack, NextPeriodEnd, DueDay
  <2> HIDE DEF slack
  <2>. QED
    BY <1>1, <1>2, <2>1 DEF AnchorHolds, slack
<1>4. CASE interval # "weekly"
  <2> DEFINE n == IF interval = "yearly" THEN 12 ELSE 1
             k == IF interval = "yearly" THEN 12 * renewals ELSE renewals
  <2>1. n \in Nat /\ k \in Nat /\ ends = AddMonths(today, n)
    BY <1>1, <1>4 DEF NextPeriodEnd
  <2>2. KeepsUp(today, MonthOf(first) + k, DayOfMonth(first), late)
    BY <1>4 DEF CyclesInv, OnTrack, DueMonth
  <2>3. DueDay = Anniversary(first, k + n)
    <3>1. k + n = IF interval = "yearly" THEN 12 * (renewals + 1) ELSE renewals + 1
      BY <1>1
    <3>. QED
      BY <1>4, <3>1 DEF DueDay
  <2>4. today \in Nat /\ first \in Nat /\ late \in Nat
    BY <1>1
  <2> HIDE DEF n, k
  <2>5. /\ Anniversary(first, k + n) <= AddMonths(today, n)
        /\ AddMonths(today, n) <= Anniversary(first, k + n) + late + 3 * ((30 + late) \div 28)
    BY <2>1, <2>2, <2>4, NearAnniversary
  <2>. QED
    BY <2>1, <2>3, <2>5 DEF AnchorHolds
<1>. QED
  BY <1>3, <1>4

\* However often a subscription renews (computeNextPeriodEnd), however late,
\* in any years: no period ends before it is due, and none drifts away
\* from the day of the month it began on.
THEOREM DueDatesHold == CyclesSpec => []AnchorHolds
  BY CyclesInitInv, CyclesStepInv, InvAnchors, PTL DEF CyclesSpec

\* Over any number of plan changes at any amounts (calculateAdjustment), the
\* books are off by at most a kobo for each.
THEOREM BooksBalance == CyclesSpec => []ChargesFit
<1>1. CyclesInv => ChargesFit
  BY DEF CyclesInv
<1>. QED
  BY CyclesInitInv, CyclesStepInv, <1>1, PTL DEF CyclesSpec
=============================================================================
