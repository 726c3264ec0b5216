--------------------------- MODULE CheckoutProofs ---------------------------
(***************************************************************************)
(* Theorems about Checkout, for any payments, any number of webhook        *)
(* requests at a time and any number of faults.                            *)
(***************************************************************************)
EXTENDS Checkout, TLAPS

----------------------------------------------------------------------------
(* The inductive invariant.                                                *)

\* The creating request and its transaction row go together, and the gateway
\* decides nothing before the link is out.
CreationInOrder ==
    \A p \in Payments :
        /\ create[p] \in {"start", "subscribed"} => tx[p] = "none"
        /\ create[p] \in {"pending", "ordered", "caught"} => tx[p] = "pending"
        /\ create[p] = "over" => tx[p] # "success"
        /\ create[p] # "done" => order[p] \in {"none", "open"}

\* The books agree with the gateway.
BooksAgree ==
    \A p \in Payments :
        /\ tx[p] = "success" => order[p] = "paid"
        /\ tx[p] = "failed" => order[p] = "declined" \/ create[p] = "over"
        /\ period[p] => tx[p] = "success"

\* Webhook request h is at a place of its work on p.
Works(h, place, p) == handler[h] = [at |-> place, payment |-> p]

\* What a webhook request at work may rely on.
HandlerContext ==
    \A h \in Handlers, p \in Payments, place \in WebhookState :
        Works(h, place, p) =>
            /\ create[p] = "done"
            /\ tx[p] # "none"
            /\ place # "settle" => tx[p] = "success"
            /\ place = "token" => period[p]

IInv == TypeOK /\ CreationInOrder /\ BooksAgree /\ HandlerContext

\* A request at work is not idle, and two of them are equal only if they are
\* at the same place with the same payment.
LEMMA RequestNotIdle ==
    ASSUME NEW place \in WebhookState, NEW p
    PROVE  [at |-> place, payment |-> p] # Idle
<1>1. place # "idle"
  BY DEF WebhookState
<1>2. [at |-> place, payment |-> p].at = place /\ Idle.at = "idle"
  BY DEF Idle
<1>. QED
  BY <1>1, <1>2

LEMMA RequestsEqual ==
    ASSUME NEW a, NEW p, NEW b, NEW q,
           [at |-> a, payment |-> p] = [at |-> b, payment |-> q]
    PROVE  a = b /\ p = q
<1>1. [at |-> a, payment |-> p].at = [at |-> b, payment |-> q].at
  OBVIOUS
<1>2. [at |-> a, payment |-> p].payment = [at |-> b, payment |-> q].payment
  OBVIOUS
<1>. QED
  BY <1>1, <1>2

\* What is at work, in terms of the requests.
AtWorkIsWork ==
    TypeOK => \A p \in Payments :
                 AtWork(p) <=> \E h \in Handlers, place \in WebhookState : Works(h, place, p)

LEMMA AtWorkMeans == AtWorkIsWork
<1>1. SUFFICES ASSUME TypeOK, NEW p \in Payments
               PROVE  AtWork(p) <=>
                        \E h \in Handlers, place \in WebhookState : Works(h, place, p)
  BY DEF AtWorkIsWork
<1>2. ASSUME NEW h \in Handlers, handler[h] # Idle, handler[h].payment = p
      PROVE  \E place \in WebhookState : Works(h, place, p)
  <2>1. handler[h] \in [at : WebhookState, payment : Payments]
    BY <1>1, <1>2 DEF TypeOK
  <2>2. handler[h] = [at |-> handler[h].at, payment |-> p] /\ handler[h].at \in WebhookState
    BY <1>2, <2>1
  <2>. QED
    BY <2>2 DEF Works
<1>3. ASSUME NEW h \in Handlers, NEW place \in WebhookState, Works(h, place, p)
      PROVE  handler[h] # Idle /\ handler[h].payment = p
  BY <1>3, RequestNotIdle DEF Works
<1>. QED
  BY <1>2, <1>3 DEF AtWork

\* One request moves to a place of its work on p, the others stay.
LEMMA GotoEffect ==
    ASSUME TypeOK, NEW h \in Handlers, NEW p \in Payments, NEW place \in WebhookState,
           handler' = [handler EXCEPT ![h] = [at |-> place, payment |-> p]]
    PROVE  \A g \in Handlers, q \in Payments, there \in WebhookState :
               Works(g, there, q)' <=> IF g = h THEN there = place /\ q = p
                                                ELSE Works(g, there, q)
<1>1. SUFFICES ASSUME NEW g \in Handlers, NEW q \in Payments, NEW there \in WebhookState
               PROVE  Works(g, there, q)' <=> IF g = h THEN there = place /\ q = p
                                                       ELSE Works(g, there, q)
  OBVIOUS
<1>2. CASE g = h
  <2>1. handler'[g] = [at |-> place, payment |-> p]
    BY <1>2 DEF TypeOK
  <2>. QED
    BY <1>2, <2>1, RequestsEqual DEF Works
<1>3. CASE g # h
  <2>1. handler'[g] = handler[g]
    BY <1>3 DEF TypeOK
  <2>. QED
    BY <1>3, <2>1 DEF Works
<1>. QED
  BY <1>2, <1>3

\* One request ends, the others stay.
LEMMA IdleEffect ==
    ASSUME TypeOK, NEW h \in Handlers, handler' = [handler EXCEPT ![h] = Idle]
    PROVE  \A g \in Handlers, q \in Payments, there \in WebhookState :
               Works(g, there, q)' <=> g # h /\ Works(g, there, q)
<1>1. SUFFICES ASSUME NEW g \in Handlers, NEW q \in Payments, NEW there \in WebhookState
               PROVE  Works(g, there, q)' <=> g # h /\ Works(g, there, q)
  OBVIOUS
<1>2. handler'[g] = IF g = h THEN Idle ELSE handler[g]
  BY DEF TypeOK
<1>. QED
  BY <1>2, RequestNotIdle DEF Works

----------------------------------------------------------------------------
(* Type correctness.                                                       *)

LEMMA InitType == Init => TypeOK
  BY ConstantsAssumption DEF Init, TypeOK, CreateState

LEMMA CreateGotoType ==
    ASSUME TypeOK, NEW p \in Payments, NEW from, NEW to \in CreateState,
           CreateGoto(p, from, to)
    PROVE  create' \in [Payments -> CreateState]
BY DEF TypeOK, CreateGoto

LEMMA HandlerType ==
    ASSUME TypeOK, NEW h \in Handlers, NEW p \in Payments, NEW place \in WebhookState,
           handler' = [handler EXCEPT ![h] = [at |-> place, payment |-> p]]
    PROVE  handler' \in [Handlers -> {Idle} \cup [at : WebhookState, payment : Payments]]
BY DEF TypeOK

LEMMA AnswerType ==
    ASSUME TypeOK, NEW h \in Handlers, NEW p \in Payments, Answer(h, p)
    PROVE  /\ handler' \in [Handlers -> {Idle} \cup [at : WebhookState, payment : Payments]]
           /\ owed' \in SUBSET Payments
BY DEF TypeOK, Answer

LEMMA StepType ==
    ASSUME TypeOK, [Next]_vars
    PROVE  TypeOK'
<1>1. ASSUME NEW p \in Payments, CreateStep(p)
      PROVE  TypeOK'
  <2>1. CASE Subscribe(p)
    BY <2>1, CreateGotoType DEF TypeOK, Subscribe, CreateState
  <2>2. CASE TrialStarts(p)
    BY <2>2, CreateGotoType DEF TypeOK, TrialStarts, CreateState
  <2>3. CASE InsertTransaction(p)
    BY <2>3, CreateGotoType DEF TypeOK, InsertTransaction, CreateState
  <2>4. CASE OrderAccepted(p)
    BY <2>4, CreateGotoType DEF TypeOK, OrderAccepted, CreateState
  <2>5. CASE OrderFails(p)
    BY <2>5, CreateGotoType DEF TypeOK, OrderFails, CreateState
  <2>6. CASE SaveReference(p)
    BY <2>6, CreateGotoType DEF TypeOK, SaveReference, CreateState
  <2>7. CASE GiveUp(p)
    BY <2>7, CreateGotoType DEF TypeOK, GiveUp, CreateState
  <2>8. CASE CardUpdate(p)
    BY <2>8, CreateGotoType DEF TypeOK, CardUpdate, CreateState
  <2>. QED
    BY <1>1, <2>1, <2>2, <2>3, <2>4, <2>5, <2>6, <2>7, <2>8 DEF CreateStep
<1>2. ASSUME NEW p \in Payments, SaveFails(p)
      PROVE  TypeOK'
  BY <1>2, CreateGotoType, ConstantsAssumption DEF TypeOK, SaveFails, CreateState
<1>3. ASSUME NEW p \in Payments, CreateFails(p)
      PROVE  TypeOK'
  BY <1>3, ConstantsAssumption DEF TypeOK, CreateFails, CreateState
<1>4. ASSUME NEW p \in Payments, Decided(p)
      PROVE  TypeOK'
  BY <1>4 DEF TypeOK, Decided
<1>5. ASSUME NEW p \in Payments, CustomerCancels(p)
      PROVE  TypeOK'
  BY <1>5 DEF TypeOK, CustomerCancels
<1>6. ASSUME NEW p \in Payments, NEW h \in Handlers, Delivered(h, p)
      PROVE  TypeOK'
  <2>1. CASE Orphaned(h, p)
    BY <2>1, AnswerType DEF TypeOK, Orphaned
  <2>2. CASE Deduplicated(h, p)
    BY <2>2, AnswerType DEF TypeOK, Deduplicated
  <2>3. CASE Accepted(h, p)
    BY <2>3, HandlerType DEF TypeOK, Accepted, WebhookState
  <2>. QED
    BY <1>6, <2>1, <2>2, <2>3 DEF Delivered
<1>7. ASSUME NEW p \in Payments, NEW h \in Handlers, SettleSuccess(h, p)
      PROVE  TypeOK'
  BY <1>7, AnswerType, HandlerType
     DEF TypeOK, SettleSuccess, WebhookEnds, WebhookGoto, WebhookState
<1>8. ASSUME NEW p \in Payments, NEW h \in Handlers, SettleFailed(h, p)
      PROVE  TypeOK'
  BY <1>8, AnswerType DEF TypeOK, SettleFailed, WebhookEnds
<1>9. ASSUME NEW p \in Payments, NEW h \in Handlers, Advance(h, p)
      PROVE  TypeOK'
  BY <1>9, HandlerType DEF TypeOK, Advance, WebhookGoto, WebhookState
<1>10. ASSUME NEW p \in Payments, NEW h \in Handlers, StoreToken(h, p)
      PROVE  TypeOK'
  BY <1>10, AnswerType DEF TypeOK, StoreToken, WebhookEnds
<1>11. ASSUME NEW h \in Handlers, WebhookFails(h)
      PROVE  TypeOK'
  BY <1>11, ConstantsAssumption DEF TypeOK, WebhookFails
<1>12. CASE Crash
  BY <1>12, ConstantsAssumption DEF TypeOK, Crash, CreateState
<1>13. CASE UNCHANGED vars
  BY <1>13 DEF TypeOK, vars
<1>. QED
  BY <1>1, <1>2, <1>3, <1>4, <1>5, <1>6, <1>7, <1>8, <1>9, <1>10, <1>11, <1>12, <1>13
     DEF Next, WebhookStep

\* Every variable keeps its range under every interleaving of requests,
\* webhooks, the gateway and faults.
THEOREM TypeCorrect == Spec => []TypeOK
<1>1. TypeOK /\ [Next]_vars => TypeOK'
  BY StepType
<1>. QED
  BY InitType, <1>1, PTL DEF Spec

----------------------------------------------------------------------------
(* The inductive invariant is kept.                                        *)

LEMMA InitInv == Init => IInv
<1>1. ASSUME Init
      PROVE  HandlerContext
  BY <1>1, RequestNotIdle DEF Init, HandlerContext, Works
<1>. QED
  BY InitType, <1>1 DEF Init, IInv, CreationInOrder, BooksAgree

\* A request that finds the transaction pending may settle it: what the step
\* that takes up a webhook, ends one or moves one on means for the others.
LEMMA ContextKept ==
    ASSUME IInv, UNCHANGED <<create, tx, period>>,
           \A h \in Handlers, q \in Payments, place \in WebhookState :
               Works(h, place, q)' => Works(h, place, q)
    PROVE  HandlerContext'
BY DEF IInv, HandlerContext

LEMMA StepInv ==
    ASSUME IInv, [Next]_vars
    PROVE  IInv'
<1>t. TypeOK'
  BY StepType DEF IInv
<1>w. ASSUME UNCHANGED handler
      PROVE  \A h \in Handlers, q \in Payments, place \in WebhookState :
                 Works(h, place, q)' <=> Works(h, place, q)
  BY <1>w DEF Works
<1>1. ASSUME NEW p \in Payments, CreateStep(p)
      PROVE  CreationInOrder' /\ BooksAgree' /\ HandlerContext'
  <2>1. UNCHANGED handler /\ UNCHANGED period
    BY <1>1 DEF CreateStep, Subscribe, TrialStarts, InsertTransaction, OrderAccepted,
                OrderFails, SaveReference, GiveUp, CardUpdate
  <2>2. create[p] # "done"
    BY <1>1 DEF CreateStep, Subscribe, TrialStarts, InsertTransaction, OrderAccepted,
                OrderFails, SaveReference, GiveUp, CardUpdate, CreateGoto
  <2>3. \A q \in Payments : q # p => /\ create'[q] = create[q]
                                    /\ tx'[q] = tx[q]
                                    /\ order'[q] = order[q]
    BY <1>1 DEF CreateStep, Subscribe, TrialStarts, InsertTransaction, OrderAccepted,
                OrderFails, SaveReference, GiveUp, CardUpdate, CreateGoto, IInv, TypeOK
  <2>4. /\ create'[p] \in {"start", "subscribed"} => tx'[p] = "none"
        /\ create'[p] \in {"pending", "ordered", "caught"} => tx'[p] = "pending"
        /\ create'[p] = "over" => tx'[p] # "success"
        /\ order'[p] \in {"none", "open"}
        /\ tx'[p] # "success"
        /\ tx'[p] = "failed" => create'[p] = "over"
    <3>1. CASE Subscribe(p)
      BY <3>1 DEF Subscribe, CreateGoto, IInv, TypeOK, CreationInOrder
    <3>2. CASE TrialStarts(p)
      BY <3>2 DEF TrialStarts, CreateGoto, IInv, TypeOK, CreationInOrder
    <3>3. CASE InsertTransaction(p)
      BY <3>3 DEF InsertTransaction, CreateGoto, IInv, TypeOK, CreationInOrder
    <3>4. CASE OrderAccepted(p)
      BY <3>4 DEF OrderAccepted, CreateGoto, IInv, TypeOK, CreationInOrder
    <3>5. CASE OrderFails(p)
      BY <3>5 DEF OrderFails, CreateGoto, IInv, TypeOK, CreationInOrder
    <3>6. CASE SaveReference(p)
      BY <3>6 DEF SaveReference, CreateGoto, IInv, TypeOK, CreationInOrder
    <3>7. CASE GiveUp(p)
      BY <3>7 DEF GiveUp, CreateGoto, IInv, TypeOK, CreationInOrder
    <3>8. CASE CardUpdate(p)
      BY <3>8 DEF CardUpdate, CreateGoto, IInv, TypeOK, CreationInOrder
    <3>. QED
      BY <1>1, <3>1, <3>2, <3>3, <3>4, <3>5, <3>6, <3>7, <3>8 DEF CreateStep
  <2>5. CreationInOrder'
    BY <2>3, <2>4 DEF IInv, CreationInOrder
  <2>6. ~period[p]
    <3>1. tx[p] # "success"
      BY <2>2 DEF IInv, CreationInOrder, BooksAgree
    <3>. QED
      BY <3>1 DEF IInv, BooksAgree
  <2>7. BooksAgree'
    BY <2>1, <2>3, <2>4, <2>6 DEF IInv, BooksAgree
  <2>8. HandlerContext'
    <3>1. SUFFICES ASSUME NEW h \in Handlers, NEW q \in Payments, NEW place \in WebhookState,
                          Works(h, place, q)'
                   PROVE  /\ create'[q] = "done"
                          /\ tx'[q] # "none"
                          /\ place # "settle" => tx'[q] = "success"
                          /\ place = "token" => period'[q]
      BY DEF HandlerContext
    <3>2. Works(h, place, q)
      BY <2>1, <3>1, <1>w
    <3>3. q # p
      BY <2>2, <3>2 DEF IInv, HandlerContext
    <3>. QED
      BY <2>1, <2>3, <3>2, <3>3 DEF IInv, HandlerContext
  <2>. QED
    BY <2>5, <2>7, <2>8
<1>2. ASSUME NEW p \in Payments, SaveFails(p)
      PROVE  CreationInOrder' /\ BooksAgree' /\ HandlerContext'
  <2>1. CreationInOrder' /\ BooksAgree'
    BY <1>2 DEF SaveFails, CreateGoto, IInv, TypeOK, CreationInOrder, BooksAgree
  <2>2. HandlerContext'
    BY <1>2, <1>w DEF SaveFails, CreateGoto, IInv, TypeOK, HandlerContext
  <2>. QED
    BY <2>1, <2>2
<1>3. ASSUME NEW p \in Payments, CreateFails(p)
      PROVE  CreationInOrder' /\ BooksAgree' /\ HandlerContext'
  <2>1. CreationInOrder' /\ BooksAgree'
    BY <1>3 DEF CreateFails, IInv, TypeOK, CreationInOrder, BooksAgree
  <2>2. HandlerContext'
    BY <1>3, <1>w DEF CreateFails, IInv, TypeOK, HandlerContext
  <2>. QED
    BY <2>1, <2>2
<1>4. ASSUME NEW p \in Payments, Decided(p)
      PROVE  CreationInOrder' /\ BooksAgree' /\ HandlerContext'
  <2>1. CreationInOrder' /\ BooksAgree'
    BY <1>4 DEF Decided, LinkKnown, IInv, TypeOK, CreationInOrder, BooksAgree
  <2>2. HandlerContext'
    BY <1>4, <1>w, ContextKept DEF Decided
  <2>. QED
    BY <2>1, <2>2
<1>5. ASSUME NEW p \in Payments, CustomerCancels(p)
      PROVE  CreationInOrder' /\ BooksAgree' /\ HandlerContext'
  <2>1. CreationInOrder' /\ BooksAgree'
    BY <1>5 DEF CustomerCancels, IInv, CreationInOrder, BooksAgree
  <2>2. HandlerContext'
    BY <1>5, <1>w, ContextKept DEF CustomerCancels
  <2>. QED
    BY <2>1, <2>2
<1>6. ASSUME NEW p \in Payments, NEW h \in Handlers, Delivered(h, p)
      PROVE  CreationInOrder' /\ BooksAgree' /\ HandlerContext'
  <2>1. CreationInOrder' /\ BooksAgree'
    BY <1>6 DEF Delivered, Orphaned, Deduplicated, Accepted, IInv, CreationInOrder, BooksAgree
  <2>2. CASE Orphaned(h, p) \/ Deduplicated(h, p)
    <3>1. HandlerContext'
      BY <2>2, IdleEffect, ContextKept DEF Orphaned, Deduplicated, Answer, IInv
    <3>. QED
      BY <2>1, <3>1
  <2>3. CASE Accepted(h, p)
    <3>1. create[p] = "done" /\ tx[p] = "pending"
      BY <2>3 DEF Accepted, Referenced
    <3>2. "settle" \in WebhookState
      BY DEF WebhookState
    <3>3. \A g \in Handlers, q \in Payments, there \in WebhookState :
              Works(g, there, q)' <=> IF g = h THEN there = "settle" /\ q = p
                                               ELSE Works(g, there, q)
      BY <2>3, <3>2, GotoEffect DEF Accepted, IInv
    <3>4. HandlerContext'
      BY <2>3, <3>1, <3>3 DEF Accepted, IInv, HandlerContext
    <3>. QED
      BY <2>1, <3>4
  <2>. QED
    BY <1>6, <2>2, <2>3 DEF Delivered
<1>7. ASSUME NEW p \in Payments, NEW h \in Handlers, SettleSuccess(h, p)
      PROVE  CreationInOrder' /\ BooksAgree' /\ HandlerContext'
  <2>1. "settle" \in WebhookState /\ "found" \in WebhookState
    BY DEF WebhookState
  <2>2. Works(h, "settle", p)
    BY <1>7 DEF SettleSuccess, WebhookEnds, WebhookGoto, Works
  <2>3. create[p] = "done" /\ order[p] = "paid"
    BY <1>7, <2>1, <2>2 DEF SettleSuccess, IInv, HandlerContext
  <2>4. tx' = [tx EXCEPT ![p] = "success"] /\ UNCHANGED <<create, order, period>>
    BY <1>7 DEF SettleSuccess
  <2>5. CreationInOrder' /\ BooksAgree'
    BY <2>3, <2>4 DEF IInv, TypeOK, CreationInOrder, BooksAgree
  <2>6. \A g \in Handlers, q \in Payments, there \in WebhookState :
            Works(g, there, q)' => \/ Works(g, there, q)
                                   \/ g = h /\ q = p /\ there = "found"
    <3>1. CASE kind[p] = "onetime"
      BY <1>7, <3>1, IdleEffect DEF SettleSuccess, WebhookEnds, Answer, IInv
    <3>2. CASE kind[p] # "onetime"
      BY <1>7, <2>1, <3>2, GotoEffect DEF SettleSuccess, WebhookGoto, IInv
    <3>. QED
      BY <3>1, <3>2
  <2>7. HandlerContext'
    BY <2>3, <2>4, <2>6 DEF IInv, TypeOK, HandlerContext
  <2>. QED
    BY <2>5, <2>7
<1>8. ASSUME NEW p \in Payments, NEW h \in Handlers, SettleFailed(h, p)
      PROVE  CreationInOrder' /\ BooksAgree' /\ HandlerContext'
  <2>1. "settle" \in WebhookState
    BY DEF WebhookState
  <2>2. Works(h, "settle", p)
    BY <1>8 DEF SettleFailed, WebhookEnds, Works
  <2>3. create[p] = "done" /\ order[p] = "declined"
    BY <1>8, <2>1, <2>2 DEF SettleFailed, IInv, HandlerContext
  <2>4. tx' = [tx EXCEPT ![p] = "failed"] /\ UNCHANGED <<create, order, period>>
    BY <1>8 DEF SettleFailed
  <2>5. tx[p] # "success" /\ ~period[p]
    BY <2>3 DEF IInv, BooksAgree
  <2>6. CreationInOrder' /\ BooksAgree'
    BY <2>3, <2>4, <2>5 DEF IInv, TypeOK, CreationInOrder, BooksAgree
  <2>7. \A g \in Handlers, q \in Payments, there \in WebhookState :
            Works(g, there, q)' => Works(g, there, q)
    BY <1>8, IdleEffect DEF SettleFailed, WebhookEnds, Answer, IInv
  <2>8. HandlerContext'
    BY <2>3, <2>4, <2>5, <2>7 DEF IInv, TypeOK, HandlerContext
  <2>. QED
    BY <2>6, <2>8
<1>9. ASSUME NEW p \in Payments, NEW h \in Handlers, Advance(h, p)
      PROVE  CreationInOrder' /\ BooksAgree' /\ HandlerContext'
  <2>1. "found" \in WebhookState /\ "token" \in WebhookState /\ "found" # "settle"
    BY DEF WebhookState
  <2>2. Works(h, "found", p)
    BY <1>9 DEF Advance, WebhookGoto, Works
  <2>3. create[p] = "done" /\ tx[p] = "success"
    BY <2>1, <2>2 DEF IInv, HandlerContext
  <2>4. period' = [period EXCEPT ![p] = TRUE] /\ UNCHANGED <<create, order, tx>>
    BY <1>9 DEF Advance
  <2>5. CreationInOrder' /\ BooksAgree'
    BY <2>3, <2>4 DEF IInv, TypeOK, CreationInOrder, BooksAgree
  <2>6. \A g \in Handlers, q \in Payments, there \in WebhookState :
            Works(g, there, q)' => \/ Works(g, there, q)
                                   \/ g = h /\ q = p /\ there = "token"
    <3>1. handler' = [handler EXCEPT ![h] = [at |-> "token", payment |-> p]]
      BY <1>9 DEF Advance, WebhookGoto
    <3>2. \A g \in Handlers, q \in Payments, there \in WebhookState :
              Works(g, there, q)' <=> IF g = h THEN there = "token" /\ q = p
                                               ELSE Works(g, there, q)
      BY <2>1, <3>1, GotoEffect DEF IInv
    <3>. QED
      BY <3>2
  <2>7. HandlerContext'
    BY <2>3, <2>4, <2>6 DEF IInv, TypeOK, HandlerContext
  <2>. QED
    BY <2>5, <2>7
<1>10. ASSUME NEW p \in Payments, NEW h \in Handlers, StoreToken(h, p)
      PROVE  CreationInOrder' /\ BooksAgree' /\ HandlerContext'
  <2>1. CreationInOrder' /\ BooksAgree'
    BY <1>10 DEF StoreToken, IInv, CreationInOrder, BooksAgree
  <2>2. HandlerContext'
    BY <1>10, IdleEffect, ContextKept DEF StoreToken, WebhookEnds, Answer, IInv
  <2>. QED
    BY <2>1, <2>2
<1>11. ASSUME NEW h \in Handlers, WebhookFails(h)
      PROVE  CreationInOrder' /\ BooksAgree' /\ HandlerContext'
  <2>1. CreationInOrder' /\ BooksAgree'
    BY <1>11 DEF WebhookFails, IInv, CreationInOrder, BooksAgree
  <2>2. HandlerContext'
    BY <1>11, IdleEffect, ContextKept DEF WebhookFails, IInv
  <2>. QED
    BY <2>1, <2>2
<1>12. ASSUME Crash
      PROVE  CreationInOrder' /\ BooksAgree' /\ HandlerContext'
  <2>1. CreationInOrder' /\ BooksAgree'
    BY <1>12 DEF Crash, IInv, TypeOK, CreationInOrder, BooksAgree, CreateState
  <2>2. HandlerContext'
    BY <1>12, RequestNotIdle DEF Crash, HandlerContext, Works
  <2>. QED
    BY <2>1, <2>2
<1>13. CASE UNCHANGED vars
  BY <1>13, <1>w, <1>t, ContextKept DEF vars, IInv, CreationInOrder, BooksAgree
<1>. QED
  BY <1>t, <1>1, <1>2, <1>3, <1>4, <1>5, <1>6, <1>7, <1>8, <1>9, <1>10, <1>11, <1>12, <1>13
     DEF IInv, Next, WebhookStep

LEMMA Invariant == Spec => []IInv
  BY InitInv, StepInv, PTL DEF Spec

----------------------------------------------------------------------------
(* Properties of the books.                                                *)

\* At the end of its work on a subscription's payment a request has granted
\* the period and stored the card.
LEMMA WorkLeavesGranted ==
    ASSUME IInv, SettledIsGranted, [Next]_vars
    PROVE  SettledIsGranted'
<1>a. AtWorkIsWork'
  BY AtWorkMeans, PTL
<1>t. TypeOK /\ TypeOK'
  BY StepType DEF IInv
<1>1. SUFFICES ASSUME NEW p \in Payments,
                      faults' = 0, tx'[p] = "success", kind'[p] # "onetime", ~AtWork(p)'
               PROVE  period'[p] /\ card'[p]
  BY DEF SettledIsGranted
<1>3. \A h \in Handlers, place \in WebhookState : ~Works(h, place, p)'
  BY <1>1, <1>t, <1>a DEF AtWorkIsWork
<1>n. \A n \in 0..MaxFaults : n + 1 # 0
  BY ConstantsAssumption
\* A step that neither settles p nor ends the work on it.
<1>q. ASSUME tx[p] = "success", UNCHANGED <<kind, faults, card>>, period[p] => period'[p],
             \A h \in Handlers, place \in WebhookState :
                 Works(h, place, p) => Works(h, place, p)'
      PROVE  period'[p] /\ card'[p]
  BY <1>1, <1>3, <1>q, <1>t, AtWorkMeans DEF SettledIsGranted, AtWorkIsWork
\* Work of h on q # p is no work on p.
<1>o. ASSUME NEW h \in Handlers, NEW q \in Payments, NEW place \in WebhookState,
             Works(h, place, q), q # p,
             \A g \in Handlers : g # h => handler'[g] = handler[g]
      PROVE  \A g \in Handlers, there \in WebhookState :
                 Works(g, there, p) => Works(g, there, p)'
  BY <1>o, RequestsEqual DEF Works
<1>4. ASSUME NEW q \in Payments, CreateStep(q)
      PROVE  period'[p] /\ card'[p]
  <2>1. tx[p] = "success" /\ UNCHANGED <<kind, faults, period, card, handler>>
    BY <1>1, <1>4, <1>t DEF TypeOK, CreateStep, Subscribe, TrialStarts, InsertTransaction,
       OrderAccepted, OrderFails, SaveReference, GiveUp, CardUpdate
  <2>. QED
    BY <2>1, <1>q DEF Works
<1>5. ASSUME NEW q \in Payments, SaveFails(q) \/ CreateFails(q)
      PROVE  FALSE
  BY <1>1, <1>5, <1>n, <1>t DEF SaveFails, CreateFails, TypeOK
<1>6. ASSUME NEW q \in Payments, Decided(q) \/ CustomerCancels(q)
      PROVE  period'[p] /\ card'[p]
  BY <1>1, <1>6, <1>q DEF Decided, CustomerCancels, Works
<1>7. ASSUME NEW q \in Payments, NEW h \in Handlers, Delivered(h, q)
      PROVE  period'[p] /\ card'[p]
  <2>1. /\ handler[h] = Idle
        /\ \A g \in Handlers : g # h => handler'[g] = handler[g]
        /\ UNCHANGED <<kind, tx, faults, period, card>>
    BY <1>7, <1>t DEF Delivered, Orphaned, Deduplicated, Accepted, Arrives, Answer, TypeOK
  <2>2. \A g \in Handlers, place \in WebhookState : Works(g, place, p) => Works(g, place, p)'
    BY <2>1, RequestNotIdle DEF Works
  <2>. QED
    BY <1>1, <2>1, <2>2, <1>q
<1>8. ASSUME NEW q \in Payments, NEW h \in Handlers, SettleSuccess(h, q)
      PROVE  period'[p] /\ card'[p]
  <2>1. "settle" \in WebhookState /\ "found" \in WebhookState
    BY DEF WebhookState
  <2>2. CASE q = p
    <3>1. handler' = [handler EXCEPT ![h] = [at |-> "found", payment |-> p]]
      BY <1>1, <1>8, <2>2 DEF SettleSuccess, WebhookGoto
    <3>2. Works(h, "found", p)'
      BY <3>1, <2>1, <1>t, GotoEffect
    <3>. QED
      BY <3>2, <2>1, <1>3
  <2>3. CASE q # p
    <3>1. /\ Works(h, "settle", q)
          /\ \A g \in Handlers : g # h => handler'[g] = handler[g]
      BY <1>8, <1>t DEF SettleSuccess, WebhookEnds, WebhookGoto, Answer, Works, TypeOK
    <3>2. tx'[p] = tx[p] /\ UNCHANGED <<kind, faults, period, card>>
      BY <1>8, <1>t, <2>3 DEF SettleSuccess, TypeOK
    <3>. QED
      BY <1>1, <2>1, <2>3, <3>1, <3>2, <1>o, <1>q
  <2>. QED
    BY <2>2, <2>3
<1>9. ASSUME NEW q \in Payments, NEW h \in Handlers, SettleFailed(h, q)
      PROVE  period'[p] /\ card'[p]
  <2>1. "settle" \in WebhookState
    BY DEF WebhookState
  <2>2. q # p
    BY <1>1, <1>9, <1>t DEF SettleFailed, TypeOK
  <2>3. /\ Works(h, "settle", q)
        /\ \A g \in Handlers : g # h => handler'[g] = handler[g]
    BY <1>9, <1>t DEF SettleFailed, WebhookEnds, Answer, Works, TypeOK
  <2>4. tx'[p] = tx[p] /\ UNCHANGED <<kind, faults, period, card>>
    BY <1>9, <1>t, <2>2 DEF SettleFailed, TypeOK
  <2>. QED
    BY <1>1, <2>1, <2>2, <2>3, <2>4, <1>o, <1>q
<1>10. ASSUME NEW q \in Payments, NEW h \in Handlers, Advance(h, q)
       PROVE  period'[p] /\ card'[p]
  <2>1. "found" \in WebhookState /\ "token" \in WebhookState
    BY DEF WebhookState
  <2>2. CASE q = p
    <3>1. Works(h, "token", p)'
      BY <1>10, <2>1, <2>2, <1>t, GotoEffect DEF Advance, WebhookGoto
    <3>. QED
      BY <3>1, <2>1, <1>3
  <2>3. CASE q # p
    <3>1. /\ Works(h, "found", q)
          /\ \A g \in Handlers : g # h => handler'[g] = handler[g]
      BY <1>10, <1>t DEF Advance, WebhookGoto, Works, TypeOK
    <3>2. period'[p] = period[p] /\ UNCHANGED <<kind, tx, faults, card>>
      BY <1>10, <1>t, <2>3 DEF Advance, TypeOK
    <3>. QED
      BY <1>1, <2>1, <2>3, <3>1, <3>2, <1>o, <1>q
  <2>. QED
    BY <2>2, <2>3
<1>11. ASSUME NEW q \in Payments, NEW h \in Handlers, StoreToken(h, q)
       PROVE  period'[p] /\ card'[p]
  <2>1. "token" \in WebhookState
    BY DEF WebhookState
  <2>2. /\ Works(h, "token", q)
        /\ \A g \in Handlers : g # h => handler'[g] = handler[g]
    BY <1>11, <1>t DEF StoreToken, WebhookEnds, Answer, Works, TypeOK
  <2>3. CASE q = p
    <3>1. period[p]
      BY <2>1, <2>2, <2>3 DEF IInv, HandlerContext
    <3>. QED
      BY <1>11, <1>t, <2>3, <3>1 DEF StoreToken, TypeOK
  <2>4. CASE q # p
    <3>1. tx[p] = "success" /\ kind[p] # "onetime" /\ faults = 0
      BY <1>1, <1>11 DEF StoreToken
    <3>2. \A g \in Handlers, there \in WebhookState : ~Works(g, there, p)
      BY <2>1, <2>2, <2>4, <1>3, <1>o
    <3>3. period[p] /\ card[p]
      BY <3>1, <3>2, <1>t, AtWorkMeans DEF SettledIsGranted, AtWorkIsWork
    <3>. QED
      BY <1>11, <1>t, <2>4, <3>3 DEF StoreToken, TypeOK
  <2>. QED
    BY <2>3, <2>4
<1>12. ASSUME NEW h \in Handlers, WebhookFails(h)
       PROVE  FALSE
  BY <1>1, <1>12, <1>n, <1>t DEF WebhookFails, TypeOK
<1>13. ASSUME Crash
       PROVE  FALSE
  BY <1>1, <1>13, <1>n, <1>t DEF Crash, TypeOK
<1>14. CASE UNCHANGED vars
  BY <1>1, <1>14, <1>q DEF vars, Works
<1>. QED
  BY <1>4, <1>5, <1>6, <1>7, <1>8, <1>9, <1>10, <1>11, <1>12, <1>13, <1>14
     DEF Next, WebhookStep

\* Without a fault, a settled success whose webhooks are answered has granted
\* its period and stored its card (processNombaEvent, advanceSubscription).
THEOREM GrantedWhenSettled == Spec => []SettledIsGranted
<1>1. Init => SettledIsGranted
  BY DEF Init, SettledIsGranted
<1>2. IInv /\ SettledIsGranted /\ [Next]_vars => SettledIsGranted'
  BY WorkLeavesGranted
<1>. QED
  BY <1>1, <1>2, Invariant, PTL DEF Spec

LEMMA ClosedStaysClosed ==
    ASSUME IInv, NEW p \in Payments, Closed(p), [Next]_vars
    PROVE  Closed(p)'
<1>t. TypeOK /\ TypeOK'
  BY StepType DEF IInv
<1>a. AtWorkIsWork'
  BY AtWorkMeans, PTL
<1>1. /\ sub[p] = "canceled"
      /\ tx[p] \in {"success", "failed"}
      /\ \A h \in Handlers, place \in WebhookState : ~Works(h, place, p)
  BY <1>t, AtWorkMeans DEF Closed, AtWorkIsWork
\* It is enough that no step touches p and no request takes up work on it.
<1>q. ASSUME sub'[p] = sub[p], tx'[p] = tx[p],
             \A h \in Handlers, place \in WebhookState :
                 Works(h, place, p)' => Works(h, place, p)
      PROVE  Closed(p)'
  BY <1>1, <1>q, <1>t, <1>a DEF Closed, AtWorkIsWork
<1>2. ASSUME NEW q \in Payments, CreateStep(q)
      PROVE  Closed(p)'
  <2>1. create[q] \in {"start", "subscribed", "pending", "ordered", "caught"}
    BY <1>2 DEF CreateStep, Subscribe, TrialStarts, InsertTransaction, OrderAccepted,
                OrderFails, SaveReference, GiveUp, CardUpdate, CreateGoto
  <2>2. q # p
    BY <1>1, <2>1 DEF IInv, CreationInOrder
  <2>3. sub'[p] = sub[p] /\ tx'[p] = tx[p] /\ UNCHANGED handler
    BY <1>2, <1>t, <2>2 DEF TypeOK, CreateStep, Subscribe, TrialStarts, InsertTransaction,
       OrderAccepted, OrderFails, SaveReference, GiveUp, CardUpdate
  <2>. QED
    BY <2>3, <1>q DEF Works
<1>3. ASSUME NEW q \in Payments, SaveFails(q) \/ CreateFails(q) \/ Decided(q)
      PROVE  Closed(p)'
  BY <1>3, <1>q DEF SaveFails, CreateFails, Decided, Works
<1>4. ASSUME NEW q \in Payments, CustomerCancels(q)
      PROVE  Closed(p)'
  BY <1>1, <1>4, <1>t, <1>q DEF CustomerCancels, Works, TypeOK
<1>5. ASSUME NEW q \in Payments, NEW h \in Handlers, Delivered(h, q)
      PROVE  Closed(p)'
  <2>1. UNCHANGED <<sub, tx>>
    BY <1>5 DEF Delivered, Orphaned, Deduplicated, Accepted
  <2>2. CASE Orphaned(h, q) \/ Deduplicated(h, q)
    BY <2>1, <2>2, <1>t, <1>q, IdleEffect DEF Orphaned, Deduplicated, Answer
  <2>3. CASE Accepted(h, q)
    <3>1. q # p /\ "settle" \in WebhookState
      BY <1>1, <2>3 DEF Accepted, WebhookState
    <3>2. \A g \in Handlers, r \in Payments, there \in WebhookState :
              Works(g, there, r)' <=> IF g = h THEN there = "settle" /\ r = q
                                               ELSE Works(g, there, r)
      BY <2>3, <3>1, <1>t, GotoEffect DEF Accepted
    <3>. QED
      BY <2>1, <3>1, <3>2, <1>q
  <2>. QED
    BY <1>5, <2>2, <2>3 DEF Delivered
\* A request that moves or ends is at work on some other payment.
<1>6. ASSUME NEW q \in Payments, NEW h \in Handlers,
             \/ SettleSuccess(h, q) \/ SettleFailed(h, q)
             \/ Advance(h, q) \/ StoreToken(h, q)
      PROVE  Closed(p)'
  <2>1. {"settle", "found", "token"} = WebhookState
    BY DEF WebhookState
  <2>2. \E place \in WebhookState : Works(h, place, q)
    BY <1>6, <2>1 DEF SettleSuccess, SettleFailed, Advance, StoreToken,
                      WebhookEnds, WebhookGoto, Works
  <2>3. q # p
    BY <1>1, <2>2
  <2>4. sub'[p] = sub[p] /\ tx'[p] = tx[p]
    BY <1>6, <1>t, <2>3 DEF SettleSuccess, SettleFailed, Advance, StoreToken, TypeOK
  <2>5. \/ handler' = [handler EXCEPT ![h] = Idle]
        \/ handler' = [handler EXCEPT ![h] = [at |-> "found", payment |-> q]]
        \/ handler' = [handler EXCEPT ![h] = [at |-> "token", payment |-> q]]
    BY <1>6 DEF SettleSuccess, SettleFailed, Advance, StoreToken,
                WebhookEnds, WebhookGoto, Answer
  <2>6. \A g \in Handlers, there \in WebhookState : Works(g, there, p)' => Works(g, there, p)
    <3>1. CASE handler' = [handler EXCEPT ![h] = Idle]
      BY <3>1, <1>t, IdleEffect
    <3>2. ASSUME NEW place \in WebhookState,
                 handler' = [handler EXCEPT ![h] = [at |-> place, payment |-> q]]
          PROVE  \A g \in Handlers, there \in WebhookState :
                     Works(g, there, p)' => Works(g, there, p)
      <4>1. \A g \in Handlers, r \in Payments, there \in WebhookState :
                Works(g, there, r)' <=> IF g = h THEN there = place /\ r = q
                                                 ELSE Works(g, there, r)
        BY <3>2, <1>t, GotoEffect
      <4>. QED
        BY <2>3, <4>1
    <3>. QED
      BY <2>1, <2>5, <3>1, <3>2
  <2>. QED
    BY <2>4, <2>6, <1>q
<1>7. ASSUME NEW h \in Handlers, WebhookFails(h)
      PROVE  Closed(p)'
  BY <1>7, <1>t, <1>q, IdleEffect DEF WebhookFails
<1>8. ASSUME Crash
      PROVE  Closed(p)'
  BY <1>8, <1>q, RequestNotIdle DEF Crash, Works
<1>9. CASE UNCHANGED vars
  BY <1>9, <1>q DEF vars, Works
<1>. QED
  BY <1>2, <1>3, <1>4, <1>5, <1>6, <1>7, <1>8, <1>9 DEF Next, WebhookStep

\* A canceled subscription whose payment is settled and answered is not
\* brought back by the event coming again (the terminal check of
\* processNombaEvent).
THEOREM RepetitionsIgnored == Spec => OldNewsIgnored
<1>1. IInv /\ [Next]_vars => [\A p \in Payments : Closed(p) => Closed(p)']_vars
  BY ClosedStaysClosed
<1>. QED
  BY <1>1, Invariant, PTL DEF Spec, OldNewsIgnored

----------------------------------------------------------------------------
(* Refinement.                                                             *)

LEMMA InitLedger == Init => Ledger!Init
  BY DEF Init, Ledger!Init, Verdicts, Books

LEMMA StepLedger ==
    ASSUME IInv, [Next]_vars
    PROVE  [Ledger!Next]_(Ledger!vars)
<1>t. TypeOK
  BY DEF IInv
<1>u. ASSUME UNCHANGED <<order, tx, period>>
      PROVE  UNCHANGED Ledger!vars
  BY <1>u DEF Ledger!vars, Verdicts, Books
<1>1. ASSUME NEW p \in Payments, GiveUp(p)
      PROVE  Ledger!Abandon(p)
  <2>1. tx[p] = "pending" /\ order[p] \in {"none", "open"}
    BY <1>1 DEF GiveUp, CreateGoto, IInv, CreationInOrder
  <2>2. Books' = [Books EXCEPT ![p] = "failed"] /\ UNCHANGED <<Verdicts, period>>
    BY <1>1, <1>t DEF GiveUp, Books, Verdicts, TypeOK
  <2>. QED
    BY <2>1, <2>2 DEF Ledger!Abandon, Books, Verdicts
<1>2. ASSUME NEW p \in Payments, CreateStep(p), ~GiveUp(p)
      PROVE  UNCHANGED Ledger!vars
  <2>1. UNCHANGED period
    BY <1>2 DEF CreateStep, Subscribe, TrialStarts, InsertTransaction, OrderAccepted,
                OrderFails, SaveReference, CardUpdate
  <2>2. UNCHANGED Verdicts
    <3>1. order[p] \in {"none", "open"}
      BY <1>2 DEF CreateStep, Subscribe, TrialStarts, InsertTransaction, OrderAccepted,
                  OrderFails, SaveReference, CardUpdate, CreateGoto, IInv, CreationInOrder
    <3>2. order' = order \/ \E o \in {"none", "open"} : order' = [order EXCEPT ![p] = o]
      BY <1>2 DEF CreateStep, Subscribe, TrialStarts, InsertTransaction, OrderAccepted,
                  OrderFails, SaveReference, CardUpdate
    <3>. QED
      BY <3>1, <3>2, <1>t DEF Verdicts, TypeOK
  <2>3. UNCHANGED Books
    <3>1. CASE InsertTransaction(p)
      <4>1. tx[p] = "none" /\ tx' = [tx EXCEPT ![p] = "pending"]
        BY <3>1 DEF InsertTransaction, CreateGoto, IInv, CreationInOrder
      <4>. QED
        BY <4>1, <1>t DEF Books, TypeOK
    <3>2. CASE ~InsertTransaction(p)
      BY <1>2, <3>2 DEF CreateStep, Subscribe, TrialStarts, OrderAccepted, OrderFails,
                        SaveReference, CardUpdate, Books
    <3>. QED
      BY <3>1, <3>2
  <2>. QED
    BY <2>1, <2>2, <2>3 DEF Ledger!vars
<1>3. ASSUME NEW p \in Payments, Decided(p)
      PROVE  Ledger!Next
  <2>1. PICK verdict \in {"paid", "declined"} : order' = [order EXCEPT ![p] = verdict]
    BY <1>3 DEF Decided
  <2>2. order[p] = "open" /\ tx[p] \notin {"success", "failed"}
    BY <1>3 DEF Decided, LinkKnown, IInv, BooksAgree
  <2>3. Verdicts' = [Verdicts EXCEPT ![p] = verdict] /\ UNCHANGED <<Books, period>>
    BY <1>3, <2>1, <1>t DEF Decided, Verdicts, Books, TypeOK
  <2>4. Ledger!Decide(p, verdict)
    BY <2>2, <2>3 DEF Ledger!Decide, Verdicts, Books
  <2>. QED
    BY <2>4 DEF Ledger!Next
<1>4. ASSUME NEW p \in Payments, NEW h \in Handlers, SettleSuccess(h, p) \/ SettleFailed(h, p)
      PROVE  Ledger!Settle(p) \/ UNCHANGED Ledger!vars
  <2>1. "settle" \in WebhookState
    BY DEF WebhookState
  <2>2. Works(h, "settle", p)
    BY <1>4 DEF SettleSuccess, SettleFailed, WebhookEnds, WebhookGoto, Works
  <2>3. create[p] = "done" /\ tx[p] # "none"
    BY <2>1, <2>2 DEF IInv, HandlerContext
  <2>4. PICK verdict \in {"success", "failed"} :
            /\ tx' = [tx EXCEPT ![p] = verdict]
            /\ order[p] = IF verdict = "success" THEN "paid" ELSE "declined"
    BY <1>4 DEF SettleSuccess, SettleFailed
  <2>5. UNCHANGED <<order, period>>
    BY <1>4 DEF SettleSuccess, SettleFailed
  <2>6. tx[p] \in {"pending", verdict}
    BY <2>3, <2>4, <1>t DEF IInv, BooksAgree, TypeOK
  <2>7. CASE tx[p] = verdict
    <3>1. tx' = tx
      BY <2>4, <2>7, <1>t DEF TypeOK
    <3>. QED
      BY <3>1, <2>5, <1>u
  <2>8. CASE tx[p] = "pending"
    <3>1. Books' = [Books EXCEPT ![p] = verdict] /\ UNCHANGED <<Verdicts, period>>
      BY <2>4, <2>5, <1>t DEF Books, Verdicts, TypeOK
    <3>2. Books[p] = "open" /\ Verdicts[p] = IF verdict = "success" THEN "paid" ELSE "declined"
      BY <2>4, <2>8 DEF Books, Verdicts
    <3>. QED
      BY <3>1, <3>2 DEF Ledger!Settle
  <2>. QED
    BY <2>6, <2>7, <2>8
<1>5. ASSUME NEW p \in Payments, NEW h \in Handlers, Advance(h, p)
      PROVE  Ledger!Grant(p)
  <2>1. "found" \in WebhookState /\ "found" # "settle"
    BY DEF WebhookState
  <2>2. Works(h, "found", p)
    BY <1>5 DEF Advance, WebhookGoto, Works
  <2>3. tx[p] = "success"
    BY <2>1, <2>2 DEF IInv, HandlerContext
  <2>. QED
    BY <1>5, <2>3 DEF Advance, Ledger!Grant, Books, Verdicts
<1>6. ASSUME NEW p \in Payments, NEW h \in Handlers, Delivered(h, p) \/ StoreToken(h, p)
      PROVE  UNCHANGED Ledger!vars
  BY <1>6, <1>u DEF Delivered, Orphaned, Deduplicated, Accepted, StoreToken
<1>7. ASSUME NEW p \in Payments, SaveFails(p) \/ CreateFails(p) \/ CustomerCancels(p)
      PROVE  UNCHANGED Ledger!vars
  BY <1>7, <1>u DEF SaveFails, CreateFails, CustomerCancels
<1>8. ASSUME Crash \/ UNCHANGED vars \/ \E h \in Handlers : WebhookFails(h)
      PROVE  UNCHANGED Ledger!vars
  BY <1>8, <1>u DEF Crash, vars, WebhookFails
<1>9. ASSUME NEW p \in Payments, Ledger!Abandon(p) \/ Ledger!Settle(p) \/ Ledger!Grant(p)
      PROVE  Ledger!Next
  BY <1>9 DEF Ledger!Next
<1>. QED
  BY <1>1, <1>2, <1>3, <1>4, <1>5, <1>6, <1>7, <1>8, <1>9 DEF Next, WebhookStep, CreateStep

\* CheckoutService and WebhookService together implement the abstract ledger.
THEOREM ImplementsLedger == Spec => LedgerKept
<1>1. IInv /\ [Next]_vars => [Ledger!Next]_(Ledger!vars)
  BY StepLedger
<1>. QED
  BY InitLedger, <1>1, Invariant, PTL DEF Spec, LedgerKept, Ledger!Spec

----------------------------------------------------------------------------
(* What the ledger is good for.                                            *)

\* The books say the truth: a success was paid, a payment the gateway took is
\* not a failure, and what a payment brings was paid for.
TrueBooks ==
    \A p \in Payments :
        /\ tx[p] = "success" => order[p] = "paid"
        /\ tx[p] = "failed" => order[p] # "paid"
        /\ period[p] \/ card[p] => tx[p] = "success" /\ order[p] = "paid"

\* Nothing settled is reopened or settled otherwise, no period is taken back.
SettledForGood ==
    [][\A p \in Payments :
        /\ tx[p] \in {"success", "failed"} => tx'[p] = tx[p]
        /\ period[p] => period'[p]]_vars

LEMMA BooksOnlyClose ==
    ASSUME IInv, [Next]_vars, NEW p \in Payments
    PROVE  /\ tx[p] \in {"success", "failed"} => tx'[p] = tx[p]
           /\ period[p] => period'[p]
<1>1. [Ledger!Next]_(Ledger!vars)
  BY StepLedger
<1>t. TypeOK
  BY DEF IInv
<1>2. /\ Books[p] # "open" => Books'[p] = Books[p]
      /\ period[p] => period'[p]
  <2>. DEFINE Closes(q) == \E v \in {"success", "failed"} :
                              Books[q] = "open" /\ Books' = [Books EXCEPT ![q] = v]
  <2>1. ASSUME NEW q \in Payments, Ledger!Settle(q) \/ Ledger!Abandon(q)
        PROVE  Closes(q) /\ UNCHANGED period
    BY <2>1 DEF Ledger!Settle, Ledger!Abandon
  <2>2. ASSUME NEW q \in Payments, NEW v, Ledger!Decide(q, v)
        PROVE  UNCHANGED <<Books, period>>
    BY <2>2 DEF Ledger!Decide
  <2>3. ASSUME NEW q \in Payments, Ledger!Grant(q)
        PROVE  UNCHANGED Books /\ period' = [period EXCEPT ![q] = TRUE]
    BY <2>3 DEF Ledger!Grant
  <2>4. CASE UNCHANGED Ledger!vars
    BY <2>4 DEF Ledger!vars
  <2>5. ASSUME NEW q \in Payments, Closes(q)
        PROVE  Books[p] # "open" => Books'[p] = Books[p]
    BY <2>5 DEF Books
  <2>6. ASSUME NEW q \in Payments, period' = [period EXCEPT ![q] = TRUE]
        PROVE  period[p] => period'[p]
    BY <2>6, <1>t DEF TypeOK
  <2>. HIDE DEF Closes
  <2>. QED
    BY <1>1, <2>1, <2>2, <2>3, <2>4, <2>5, <2>6 DEF Ledger!Next
<1>3. (tx[p] \in {"success", "failed"} => Books[p] = tx[p])
      /\ (Books'[p] \in {"success", "failed"} => tx'[p] = Books'[p])
  BY DEF Books
<1>. QED
  BY <1>2, <1>3

\* A payment is settled once, from the refinement.
THEOREM SettledOnce == Spec => SettledForGood
<1>1. IInv /\ [Next]_vars =>
        [\A p \in Payments :
            /\ tx[p] \in {"success", "failed"} => tx'[p] = tx[p]
            /\ period[p] => period'[p]]_vars
  BY BooksOnlyClose
<1>. QED
  BY <1>1, Invariant, PTL DEF Spec, SettledForGood

\* A card comes with the event of a success.
CardsArePaid == \A p \in Payments : card[p] => tx[p] = "success"

LEMMA CardsStep ==
    ASSUME IInv, CardsArePaid, [Next]_vars
    PROVE  CardsArePaid'
<1>. SUFFICES ASSUME NEW p \in Payments, card'[p]
              PROVE  tx'[p] = "success"
  BY DEF CardsArePaid
<1>t. TypeOK
  BY DEF IInv
<1>1. CASE card[p]
  BY <1>1, BooksOnlyClose DEF CardsArePaid
<1>2. CASE ~card[p]
  <2>1. \E h \in Handlers, q \in Payments : StoreToken(h, q)
    <3>. SUFFICES ASSUME ~\E h \in Handlers, q \in Payments : StoreToken(h, q)
                  PROVE  UNCHANGED card
      BY <1>2
    <3>. QED
      BY DEF Next, vars, CreateStep, Subscribe, TrialStarts, InsertTransaction, OrderAccepted,
             OrderFails, SaveReference, GiveUp, CardUpdate, SaveFails, CreateFails, Decided,
             CustomerCancels, Delivered, Orphaned, Deduplicated, Accepted, WebhookStep,
             SettleSuccess, SettleFailed, Advance, WebhookFails, Crash
  <2>2. PICK h \in Handlers, q \in Payments : StoreToken(h, q)
    BY <2>1
  <2>3. q = p /\ UNCHANGED tx
    BY <1>2, <1>t, <2>2 DEF StoreToken, TypeOK
  <2>4. Works(h, "token", p) /\ "token" \in WebhookState /\ "token" # "settle"
    BY <2>2, <2>3 DEF StoreToken, WebhookEnds, Works, WebhookState
  <2>. QED
    BY <2>3, <2>4 DEF IInv, HandlerContext
<1>. QED
  BY <1>1, <1>2

\* The books never say of a payment what the gateway did not.
THEOREM BooksAreTrue == Spec => []TrueBooks
<1>1. Init => CardsArePaid
  BY DEF Init, CardsArePaid
<1>2. IInv /\ CardsArePaid => TrueBooks
  BY DEF IInv, BooksAgree, CreationInOrder, CardsArePaid, TrueBooks
<1>. QED
  BY <1>1, <1>2, CardsStep, Invariant, PTL DEF Spec

\* The gateway has decided on p and the books do not say so yet.
Unbooked(p) ==
    /\ order[p] \in {"paid", "declined"}
    /\ kind[p] # "cardupdate"
    /\ tx[p] \notin {"success", "failed"}

\* What the books lack, the gateway sends again, and the next request it
\* sends finds the transaction and works on it.
DecisionsComeAgain ==
    \A p \in Payments : Unbooked(p) => p \in owed /\ Referenced(p) /\ tx[p] = "pending"

\* An order in the customer's hands has its transaction.
DoneHasTransaction ==
    \A p \in Payments : create[p] = "done" /\ kind[p] # "cardupdate" => tx[p] # "none"

LEMMA DoneStep ==
    ASSUME IInv, DoneHasTransaction, [Next]_vars
    PROVE  DoneHasTransaction'
<1>. SUFFICES ASSUME NEW p \in Payments, create'[p] = "done", kind'[p] # "cardupdate"
              PROVE  tx'[p] # "none"
  BY DEF DoneHasTransaction
<1>t. TypeOK
  BY DEF IInv
<1>1. kind' = kind
  BY DEF Next, vars, CreateStep, Subscribe, TrialStarts, InsertTransaction, OrderAccepted,
         OrderFails, SaveReference, GiveUp, CardUpdate, SaveFails, CreateFails, Decided,
         CustomerCancels, Delivered, Orphaned, Deduplicated, Accepted, WebhookStep,
         SettleSuccess, SettleFailed, Advance, StoreToken, WebhookFails, Crash
<1>2. \A q \in Payments : tx[q] # "none" => tx'[q] # "none"
  BY <1>t DEF TypeOK, Next, vars, CreateStep, Subscribe, TrialStarts, InsertTransaction,
         OrderAccepted, OrderFails, SaveReference, GiveUp, CardUpdate, SaveFails, CreateFails,
         Decided, CustomerCancels, Delivered, Orphaned, Deduplicated, Accepted, WebhookStep,
         SettleSuccess, SettleFailed, Advance, StoreToken, WebhookFails, Crash
<1>3. create[p] = "done" \/ create[p] = "ordered"
  <2>1. ASSUME NEW q \in Payments, CreateStep(q)
        PROVE  create[p] \in {"done", "ordered"}
    BY <2>1, <1>1, <1>t DEF TypeOK, CreateStep, CreateGoto, Subscribe, TrialStarts, InsertTransaction,
         OrderAccepted, OrderFails, SaveReference, GiveUp, CardUpdate
  <2>2. ASSUME NEW q \in Payments, SaveFails(q) \/ CreateFails(q)
        PROVE  create[p] = "done"
    BY <2>2, <1>t DEF TypeOK, SaveFails, CreateFails, CreateGoto
  <2>3. CASE Crash
    BY <2>3 DEF Crash
  <2>. QED
    BY <2>1, <2>2, <2>3 DEF Next, vars, Decided, CustomerCancels, Delivered, Orphaned,
         Deduplicated, Accepted, WebhookStep, SettleSuccess, SettleFailed, Advance, StoreToken,
         WebhookFails
<1>4. tx[p] # "none"
  BY <1>1, <1>3 DEF IInv, CreationInOrder, DoneHasTransaction
<1>. QED
  BY <1>2, <1>4

LEMMA ComeAgainStep ==
    ASSUME IInv, DoneHasTransaction, DecisionsComeAgain, [Next]_vars
    PROVE  DecisionsComeAgain'
<1>. SUFFICES ASSUME NEW p \in Payments, Unbooked(p)'
              PROVE  p \in owed' /\ Referenced(p)' /\ tx'[p] = "pending"
  BY DEF DecisionsComeAgain
<1>t. TypeOK /\ TypeOK'
  BY StepType DEF IInv
<1>i. IInv' /\ DoneHasTransaction'
  BY DoneStep, StepInv
<1>1. create'[p] = "done" /\ tx'[p] # "none"
  BY <1>i DEF IInv, CreationInOrder, DoneHasTransaction, Unbooked
<1>2. Referenced(p)' /\ tx'[p] = "pending"
  BY <1>1, <1>t DEF Referenced, Unbooked, TypeOK
<1>3. p \in owed'
  <2>1. ASSUME NEW q \in Payments, Decided(q)
        PROVE  p \in owed'
    BY <1>t, <2>1 DEF Decided, DecisionsComeAgain, Unbooked, TypeOK
  <2>2. ASSUME NEW q \in Payments, NEW h \in Handlers, Orphaned(h, q) \/ Deduplicated(h, q)
        PROVE  p \in owed'
    <3>1. UNCHANGED <<kind, create, tx, order>> /\ owed' = owed \ {q}
      BY <2>2 DEF Orphaned, Deduplicated, Answer
    <3>2. Unbooked(p) /\ Referenced(p) /\ tx[p] = "pending"
      BY <1>2, <3>1 DEF Unbooked, Referenced
    <3>3. q # p
      BY <2>2, <3>2 DEF Orphaned, Deduplicated
    <3>. QED
      BY <3>1, <3>2, <3>3 DEF DecisionsComeAgain
  <2>3. ASSUME NEW q \in Payments, NEW h \in Handlers, SettleSuccess(h, q) \/ SettleFailed(h, q)
        PROVE  p \in owed'
    <3>1. tx'[q] \in {"success", "failed"} /\ (q # p => tx'[p] = tx[p])
      BY <1>t, <2>3 DEF SettleSuccess, SettleFailed, TypeOK
    <3>2. q # p
      BY <1>2, <3>1
    <3>3. UNCHANGED <<kind, order>> /\ owed' \in {owed, owed \ {q}}
      BY <2>3 DEF SettleSuccess, SettleFailed, WebhookEnds, WebhookGoto, Answer
    <3>. QED
      BY <3>1, <3>2, <3>3 DEF DecisionsComeAgain, Unbooked
  <2>4. ASSUME NEW q \in Payments, NEW h \in Handlers, StoreToken(h, q)
        PROVE  p \in owed'
    <3>1. Works(h, "token", q) /\ "token" \in WebhookState /\ "token" # "settle"
      BY <2>4 DEF StoreToken, WebhookEnds, Works, WebhookState
    <3>2. tx[q] = "success" /\ UNCHANGED <<kind, tx, order>> /\ owed' = owed \ {q}
      BY <2>4, <3>1 DEF StoreToken, WebhookEnds, Answer, IInv, HandlerContext
    <3>3. q # p
      BY <1>2, <3>2
    <3>. QED
      BY <3>2, <3>3 DEF DecisionsComeAgain, Unbooked
  <2>5. ASSUME NEW q \in Payments, CreateStep(q)
        PROVE  p \in owed'
    <3>1. order'[p] = order[p] \/ order'[p] \in {"none", "open"}
      BY <1>t, <2>5 DEF TypeOK, CreateStep, Subscribe, TrialStarts, InsertTransaction,
         OrderAccepted, OrderFails, SaveReference, GiveUp, CardUpdate
    <3>2. UNCHANGED <<kind, owed>>
      BY <2>5 DEF CreateStep, Subscribe, TrialStarts, InsertTransaction,
         OrderAccepted, OrderFails, SaveReference, GiveUp, CardUpdate
    <3>3. Unbooked(p)
      BY <1>2, <3>1, <3>2, BooksOnlyClose DEF Unbooked
    <3>. QED
      BY <3>2, <3>3 DEF DecisionsComeAgain
  <2>6. CASE UNCHANGED <<kind, tx, order, owed>>
    BY <2>6 DEF DecisionsComeAgain, Unbooked
  <2>. QED
    BY <2>1, <2>2, <2>3, <2>4, <2>5, <2>6 DEF Next, vars, WebhookStep, Delivered, Accepted,
       Advance, WebhookGoto, SaveFails, CreateFails, CustomerCancels, WebhookFails, Crash
<1>. QED
  BY <1>2, <1>3

\* Through failing queries, crashes and overlapping requests: processNombaEvent
\* never answers for good what the books lack.  This is the safety part of
\* PaidIsSettled, of which fairness makes the rest.
THEOREM NothingIsForgotten == Spec => []DecisionsComeAgain
<1>1. Init => DoneHasTransaction /\ DecisionsComeAgain
  BY DEF Init, DoneHasTransaction, DecisionsComeAgain, Unbooked
<1>. QED
  BY <1>1, DoneStep, ComeAgainStep, Invariant, PTL DEF Spec
=============================================================================
