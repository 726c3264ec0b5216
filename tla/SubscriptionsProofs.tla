------------------------ MODULE SubscriptionsProofs ------------------------
(***************************************************************************)
(* Theorems about Subscriptions, for any number of plans, customers,       *)
(* subscriptions, overlapping requests and workers, and any bounds.        *)
(***************************************************************************)
EXTENDS Subscriptions, TLAPS

----------------------------------------------------------------------------
(* The inductive invariant.                                                *)

\* Nobody holds what was never inserted.
BegunInv ==
    \A s \in Subs : status[s] = "none" => s \notin unpaid \cup letters \cup Busy

\* The customer a checkout has found or created is there to stay.
OwnerInv ==
    \A r \in Signups : signup[r].at = "insert" => customer[signup[r].customer] # None

\* What is live on a plan about to be deleted went live after the look.
PendingInv ==
    \A d \in Deletions, s \in Subs :
        deletion[d] # None /\ planOf[s] = deletion[d] /\ status[s] \in Live => s \in late

\* During a period granted with nothing else under way nobody holds the
\* subscription but a customer who leaves.
SecureInv ==
    \A s \in secure : now < until[s] =>
        /\ status[s] \in {"active", "canceled", "deleted"}
        /\ \A w \in Workers : work[w] # Idle /\ work[w].sub = s => work[w].op = "unsubscribe"

IInv == TypeOK /\ BegunInv /\ OwnerInv /\ PendingInv /\ SecureInv

----------------------------------------------------------------------------
(* What all writers have in common, and all those that take a              *)
(* subscription up.                                                        *)

\* An update of the row of s, which may be gone.
RowWritten(s) ==
    \/ UNCHANGED <<status, until>>
    \/ /\ status[s] \in Stored
       /\ \E v \in Stored, day \in Nat :
            status' = [status EXCEPT ![s] = v] /\ until' = [until EXCEPT ![s] = day]

\* A worker goes on or is done; a customer who leaves is done.
GoesOn(w) ==
    \/ work' = [work EXCEPT ![w] = Idle]
    \/ /\ work[w].op # "unsubscribe"
       /\ \E op \in Ops : work' = [work EXCEPT ![w].op = op]

Written(w) ==
    /\ work[w] # Idle
    /\ GoesOn(w)
    /\ RowWritten(work[w].sub)
    /\ unpaid' \subseteq unpaid
    /\ retries' \subseteq retries \cup {work[w].sub}
    /\ letters' \subseteq letters \cup {work[w].sub}
    /\ UNCHANGED <<now, catalog, planOf, ownerOf, asks>>

\* A customer who leaves only cancels.
LeavingWrites(w) ==
    work[w].op = "unsubscribe" =>
        \/ UNCHANGED <<status, until>>
        \/ /\ status' = [status EXCEPT ![work[w].sub] = "canceled"]
           /\ until' = [until EXCEPT ![work[w].sub] =
                            IF status[work[w].sub] = "trialing" THEN 0 ELSE @]

\* Only a period that is over, a status that has to change, a customer who
\* leaves or somebody who asks lets a subscription be taken up.
Taken(w, s) ==
    /\ work[w] = Idle
    /\ status[s] # "none"
    /\ \E op \in Ops :
        /\ work' = [work EXCEPT ![w] = [op |-> op, sub |-> s]]
        /\ \/ asks' = [asks EXCEPT ![s] = @ + 1] /\ asks[s] < MaxAsks
           \/ /\ asks' = asks
              /\ status[s] \in Live
              /\ \/ op = "unsubscribe"
                 \/ status[s] # "active"
                 \/ until[s] <= now
    /\ retries' \subseteq retries
    /\ letters' \subseteq letters
    /\ UNCHANGED <<now, catalog, rows>>

LEMMA WorkShape ==
    ASSUME TypeOK, NEW w \in Workers, work[w] # Idle
    PROVE  /\ work[w] \in [op : Ops, sub : Subs]
           /\ work[w].op \in Ops /\ work[w].sub \in Subs
BY DEF TypeOK

LEMMA SetStatusWrites ==
    ASSUME TypeOK, NEW s \in Subs, NEW v \in Stored, SetStatus(s, v)
    PROVE  RowWritten(s)
<1>1. CASE status[s] \in Stored
  <2>. DEFINE day == IF status[s] = "trialing" THEN 0 ELSE until[s]
  <2>1. day \in Nat
    BY DEF TypeOK
  <2>2. status' = [status EXCEPT ![s] = v] /\ until' = [until EXCEPT ![s] = day]
    BY <1>1 DEF SetStatus
  <2>. QED  BY <1>1, <2>1, <2>2 DEF RowWritten
<1>. QED  BY <1>1 DEF SetStatus, RowWritten

LEMMA GrantWrites ==
    ASSUME TypeOK, NEW s \in Subs, Grant(s)
    PROVE  RowWritten(s)
<1>1. now + Period \in Nat
  BY ConstantsAssumption DEF TypeOK
<1>. QED  BY <1>1 DEF Grant, RowWritten, Stored, Live

LEMMA WriteIsWritten ==
    ASSUME TypeOK, NEW w \in Workers, WriteStep(w)
    PROVE  Written(w) /\ LeavingWrites(w)
<1>. DEFINE s == work[w].sub
<1>1. work[w] # Idle
  BY DEF WriteStep, RowWithoutCard, RowToCharge, Collected, Declined, PutOff, GivenUp, Leaves,
         Lapses, ReactivationAllowed, Revives, Settles, Advances, WorkEnds, Idle
<1>2. s \in Subs
  BY <1>1, WorkShape
<1>3. {"past_due", "active", "canceled"} \subseteq Stored
  BY DEF Stored, Live
<1>4. UNCHANGED <<status, until>> => RowWritten(s)
  BY DEF RowWritten
<1>5. Puts(w) => GoesOn(w) /\ UNCHANGED <<now, catalog, planOf, ownerOf, asks>>
  BY DEF Puts, GoesOn
<1>6. CASE RowWithoutCard(w)
  BY <1>1, <1>2, <1>3, <1>5, <1>6, SetStatusWrites DEF RowWithoutCard, Written, LeavingWrites, queues
<1>7. CASE RowToCharge(w)
  <2>1. GoesOn(w)
    BY <1>7 DEF RowToCharge, GoesOn, Ops
  <2>. QED
    BY <1>1, <1>2, <1>3, <1>4, <1>7, <2>1, SetStatusWrites
    DEF RowToCharge, Written, LeavingWrites, queues
<1>8. CASE Collected(w)
  BY <1>1, <1>2, <1>5, <1>8, GrantWrites DEF Collected, Written, LeavingWrites, queues
<1>9. CASE Declined(w)
  <2>1. RowWritten(s)
    BY <1>2, <1>3, <1>4, <1>9, SetStatusWrites DEF Declined
  <2>2. retries' \subseteq retries \cup {s} /\ letters' \subseteq letters \cup {s}
    BY <1>9 DEF Declined, Letter
  <2>. QED  BY <1>1, <1>5, <1>9, <2>1, <2>2 DEF Declined, Written, LeavingWrites
<1>10. CASE PutOff(w)
  BY <1>1, <1>4, <1>5, <1>10 DEF PutOff, Written, LeavingWrites
<1>11. CASE GivenUp(w)
  BY <1>1, <1>2, <1>3, <1>5, <1>11, SetStatusWrites
  DEF GivenUp, Written, LeavingWrites, Letter
<1>12. CASE Leaves(w)
  <2>1. LeavingWrites(w)
    BY <1>12 DEF Leaves, SetStatus, LeavingWrites
  <2>. QED
    BY <1>1, <1>2, <1>3, <1>5, <1>12, <2>1, SetStatusWrites DEF Leaves, Written, queues
<1>13. CASE Lapses(w)
  BY <1>1, <1>2, <1>3, <1>5, <1>13, SetStatusWrites DEF Lapses, Written, LeavingWrites, queues
<1>14. CASE ReactivationAllowed(w)
  BY <1>1, <1>4, <1>14 DEF ReactivationAllowed, Written, LeavingWrites, GoesOn, Ops, rows, queues
<1>15. CASE Revives(w)
  BY <1>1, <1>2, <1>5, <1>15, GrantWrites DEF Revives, Written, LeavingWrites, queues
<1>16. CASE Settles(w)
  BY <1>1, <1>4, <1>16 DEF Settles, Written, LeavingWrites, GoesOn, Ops, queues
<1>17. CASE Advances(w)
  BY <1>1, <1>2, <1>5, <1>17, GrantWrites DEF Advances, Written, LeavingWrites, queues
<1>18. CASE WorkEnds(w)
  BY <1>1, <1>4, <1>5, <1>18 DEF WorkEnds, Written, LeavingWrites, queues
<1>. QED
  BY <1>6, <1>7, <1>8, <1>9, <1>10, <1>11, <1>12, <1>13, <1>14, <1>15, <1>16, <1>17, <1>18
  DEF WriteStep

LEMMA TakeIsTaken ==
    ASSUME TypeOK, BegunInv, NEW w \in Workers, NEW s \in Subs, TakeStep(w, s)
    PROVE  Taken(w, s)
<1>1. now \in Nat /\ until[s] \in Nat
  BY DEF TypeOK
<1>2. CASE PickDue(w, s)
  BY <1>2 DEF PickDue, Taken, Takes, Expired, Ops, Live, queues
<1>3. CASE PickEnded(w, s)
  BY <1>3 DEF PickEnded, Taken, Takes, Expired, Ops, Live, queues
<1>4. CASE RetryComesUp(w, s)
  BY <1>4 DEF RetryComesUp, Taken, Takes, Ops, Live
<1>5. CASE Unsubscribes(w, s)
  BY <1>5 DEF Unsubscribes, Taken, Takes, Ops, Live, queues
<1>6. CASE Evaluates(w, s)
  <2>1. \E op \in {"lapse", "expire"} : Takes(w, op, s)
    BY <1>6 DEF Evaluates
  <2>2. status[s] = "active" => until[s] <= now
    <3>1. CASE status[s] = "active"
      <4>1. plan[planOf[s]].grace \in Nat
        BY <3>1 DEF TypeOK, Anchored, Stored, Live, PlanRow
      <4>. QED  BY <1>1, <1>6, <4>1 DEF Evaluates
    <3>. QED  BY <3>1
  <2>. QED  BY <1>6, <2>1, <2>2 DEF Evaluates, Taken, Takes, Ops, Live, queues
<1>7. CASE Reactivates(w, s)
  BY <1>7 DEF Reactivates, Asked, Taken, Takes, Ops, queues
<1>8. CASE PaymentComesIn(w, s)
  BY <1>8 DEF BegunInv, PaymentComesIn, Asked, Taken, Takes, Ops, queues
<1>9. CASE Replays(w, s)
  BY <1>9 DEF BegunInv, Replays, Asked, Taken, Takes, Ops
<1>. QED  BY <1>2, <1>3, <1>4, <1>5, <1>6, <1>7, <1>8, <1>9 DEF TakeStep

----------------------------------------------------------------------------
(* Types.                                                                  *)

LEMMA HistoryTypes ==
    ASSUME TypeOK, Remember
    PROVE  late' \in SUBSET Subs /\ secure' \in SUBSET Subs
BY DEF Remember

LEMMA WrittenTypes ==
    ASSUME TypeOK, Remember, NEW w \in Workers, Written(w)
    PROVE  TypeOK'
<1>. DEFINE s == work[w].sub
<1>1. work[w] \in [op : Ops, sub : Subs] /\ s \in Subs
  BY WorkShape DEF Written
<1>2. work' \in [Workers -> {Idle} \cup [op : Ops, sub : Subs]]
  BY <1>1 DEF TypeOK, Written, GoesOn
<1>3. /\ status' \in [Subs -> {"none", "deleted"} \cup Stored]
      /\ until' \in [Subs -> Nat]
      /\ \A t \in Subs : status'[t] \in Stored => status[t] \in Stored
  BY <1>1 DEF TypeOK, Written, RowWritten
<1>4. unpaid' \in SUBSET Subs /\ retries' \in SUBSET Subs /\ letters' \in SUBSET Subs
  BY <1>1 DEF TypeOK, Written
<1>5. Anchored'
  BY <1>3 DEF TypeOK, Anchored, Written, catalog
<1>. QED  BY <1>2, <1>3, <1>4, <1>5, HistoryTypes DEF TypeOK, Written, catalog

LEMMA TakenTypes ==
    ASSUME TypeOK, Remember, NEW w \in Workers, NEW s \in Subs, Taken(w, s)
    PROVE  TypeOK'
<1>1. work' \in [Workers -> {Idle} \cup [op : Ops, sub : Subs]]
  BY DEF TypeOK, Taken
<1>2. asks' \in [Subs -> 0..MaxAsks]
  <2>1. \A n \in 0..MaxAsks : n < MaxAsks => n + 1 \in 0..MaxAsks
    BY ConstantsAssumption
  <2>. QED  BY <2>1 DEF TypeOK, Taken
<1>3. retries' \in SUBSET Subs /\ letters' \in SUBSET Subs
  BY DEF TypeOK, Taken
<1>4. Anchored'
  BY DEF TypeOK, Anchored, Taken, catalog, rows
<1>. QED  BY <1>1, <1>2, <1>3, <1>4, HistoryTypes DEF TypeOK, Taken, catalog, rows

\* A step that keeps rows, queues, work and asks changes no type beyond the
\* tables it writes, if no row of a stored subscription loses its anchors.
LEMMA CatalogTypes ==
    ASSUME TypeOK, Remember, CatalogStep
    PROVE  TypeOK'
<1>1. ASSUME NEW p \in Plans, CreatePlan(p) \/ UpdatePlan(p)
      PROVE  TypeOK'
  <2>1. PICK grace \in 0..MaxGrace : plan' = [plan EXCEPT ![p] = [row |-> "live", grace |-> grace]]
    <3>1. plan[p] \in PlanRow
      BY DEF TypeOK
    <3>. QED  BY <1>1, <3>1 DEF CreatePlan, UpdatePlan, PlanRow
  <2>2. plan \in [Plans -> PlanRow] /\ [row |-> "live", grace |-> grace] \in PlanRow
    BY DEF TypeOK, PlanRow
  <2>3. plan' \in [Plans -> PlanRow] /\ (\A q \in Plans : plan[q].row = "live" => plan'[q].row = "live")
    BY <2>1, <2>2
  <2>. QED
    BY <1>1, <2>3, HistoryTypes DEF TypeOK, Anchored, rows, queues, CreatePlan, UpdatePlan
<1>. USE DEF TypeOK, Anchored, rows, queues
<1>2. ASSUME NEW d \in Deletions, NEW p \in Plans, DeletionLooks(d, p)
      PROVE  TypeOK'
  BY <1>2, HistoryTypes DEF DeletionLooks
<1>3. ASSUME NEW d \in Deletions, DeletionActs(d)
      PROVE  TypeOK'
  <2>1. deletion[d] \in Plans
    BY <1>3 DEF DeletionActs
  <2>2. plan' \in [Plans -> PlanRow] /\ (\A q \in Plans \ {deletion[d]} : plan'[q] = plan[q])
    BY <1>3, <2>1 DEF DeletionActs, PlanRow
  <2>3. /\ status' \in [Subs -> {"none", "deleted"} \cup Stored]
        /\ \A s \in Subs : status'[s] \in Stored =>
              status'[s] = status[s] /\ planOf[s] # deletion[d]
    BY <1>3 DEF DeletionActs, Stored, Live
  <2>. QED  BY <1>3, <2>1, <2>2, <2>3, HistoryTypes DEF DeletionActs
<1>4. ASSUME NEW e \in Emails, Register(e)
      PROVE  TypeOK'
  BY <1>4, HistoryTypes, ConstantsAssumption DEF Register, Known
<1>5. ASSUME NEW c \in Customers, StoreToken(c)
      PROVE  TypeOK'
  BY <1>5, HistoryTypes DEF StoreToken
<1>. QED  BY <1>1, <1>2, <1>3, <1>4, <1>5 DEF CatalogStep

LEMMA SignupShape ==
    ASSUME TypeOK, NEW r \in Signups
    PROVE  /\ signup[r].at \in {"select", "create"} =>
                signup[r] \in [at : {"select", "create"}, plan : Plans, trial : BOOLEAN, email : Emails]
           /\ signup[r].at = "insert" =>
                signup[r] \in [at : {"insert"}, plan : Plans, trial : BOOLEAN, customer : Customers]
BY DEF TypeOK, SignupState, NoSignup

LEMMA SignupTypes ==
    ASSUME TypeOK, OwnerInv, Remember, NEW r \in Signups, SignupStep(r)
    PROVE  TypeOK'
<1>. USE DEF TypeOK, Anchored, rows, queues
<1>1. ASSUME NEW p \in Plans, NEW e \in Emails, SignupBegins(r, p, e)
      PROVE  TypeOK'
  <2>1. signup' \in [Signups -> SignupState]
    BY <1>1 DEF SignupBegins, SignupState
  <2>. QED  BY <1>1, <2>1, HistoryTypes DEF SignupBegins
<1>2. ASSUME NEW c \in Customers, WithCustomer(r, c), signup[r].at \in {"select", "create"}
      PROVE  signup' \in [Signups -> SignupState]
  BY <1>2, SignupShape DEF WithCustomer, SignupState
<1>3. CASE SelectFinds(r)
  <2>1. PICK c \in Known(signup[r].email) : WithCustomer(r, c)
    BY <1>3 DEF SelectFinds
  <2>2. c \in Customers
    BY DEF Known
  <2>. QED  BY <1>2, <1>3, <2>1, <2>2, HistoryTypes DEF SelectFinds
<1>4. CASE SelectMisses(r)
  <2>1. signup[r] \in [at : {"select", "create"}, plan : Plans, trial : BOOLEAN, email : Emails]
    BY <1>4, SignupShape DEF SelectMisses
  <2>2. signup' \in [Signups -> SignupState]
    BY <1>4, <2>1 DEF SelectMisses, SignupState
  <2>. QED  BY <1>4, <2>1, <2>2, HistoryTypes DEF SelectMisses
<1>5. CASE InsertCustomer(r)
  <2>1. PICK c \in Known(None) :
            customer' = [customer EXCEPT ![c] = signup[r].email] /\ WithCustomer(r, c)
    BY <1>5 DEF InsertCustomer
  <2>2. c \in Customers
    BY DEF Known
  <2>3. signup[r].email \in Emails /\ signup[r].email # None
    BY <1>5, SignupShape, ConstantsAssumption DEF InsertCustomer
  <2>. QED  BY <1>2, <1>5, <2>1, <2>2, <2>3, HistoryTypes DEF InsertCustomer
<1>6. CASE SignupFails(r)
  <2>1. signup' \in [Signups -> SignupState]
    BY <1>6 DEF SignupFails, SignupState
  <2>. QED  BY <1>6, <2>1, HistoryTypes DEF SignupFails
<1>. QED
  <2>1. ASSUME NEW s \in Subs, InsertSub(r, s)
        PROVE  TypeOK'
    <3>. DEFINE p == signup[r].plan
                c == signup[r].customer
                first == IF signup[r].trial THEN "trialing" ELSE "active"
                day == IF signup[r].trial THEN now + 1 ELSE 0
    <3>1. p \in Plans /\ c \in Customers /\ plan[p].row = "live"
      BY <2>1, SignupShape DEF InsertSub
    <3>2. first \in Stored /\ day \in Nat
      BY DEF Stored, Live
    <3>3. /\ status' = [status EXCEPT ![s] = first] /\ until' = [until EXCEPT ![s] = day]
          /\ planOf' = [planOf EXCEPT ![s] = p] /\ ownerOf' = [ownerOf EXCEPT ![s] = c]
          /\ unpaid' \in SUBSET Subs
      BY <2>1 DEF InsertSub
    <3>4. signup' \in [Signups -> SignupState]
      BY <2>1 DEF InsertSub, SignupState
    <3>5. /\ status' \in [Subs -> {"none", "deleted"} \cup Stored] /\ until' \in [Subs -> Nat]
          /\ planOf' \in [Subs -> Plans \cup {None}] /\ ownerOf' \in [Subs -> Customers \cup {None}]
      BY <3>1, <3>2, <3>3
    <3>6. customer[c] # None
      BY <2>1 DEF InsertSub, OwnerInv
    <3>7. Anchored'
      BY <2>1, <3>1, <3>3, <3>6 DEF InsertSub
    <3>. QED  BY <2>1, <3>3, <3>4, <3>5, <3>7, HistoryTypes DEF InsertSub
  <2>. QED  BY <1>1, <1>3, <1>4, <1>5, <1>6, <2>1 DEF SignupStep

LEMMA TypesPreserved ==
    ASSUME TypeOK, BegunInv, OwnerInv, Next
    PROVE  TypeOK'
<1>1. Step /\ Remember
  BY DEF Next
<1>2. ASSUME NEW w \in Workers, NEW s \in Subs, TakeStep(w, s)
      PROVE  TypeOK'
  BY <1>1, <1>2, TakeIsTaken, TakenTypes
<1>3. ASSUME NEW s \in Subs, RetryDiscarded(s)
      PROVE  TypeOK'
  BY <1>1, <1>3, HistoryTypes DEF RetryDiscarded, TypeOK, Anchored, catalog, rows
<1>4. CASE DayPasses
  <2>1. now' \in 1..MaxDay
    BY <1>4, ConstantsAssumption DEF DayPasses, TypeOK
  <2>. QED
    BY <1>1, <1>4, <2>1, HistoryTypes DEF DayPasses, TypeOK, Anchored, catalog, rows, queues
<1>. QED
  BY <1>1, <1>2, <1>3, <1>4, CatalogTypes, SignupTypes, WriteIsWritten, WrittenTypes DEF Step

----------------------------------------------------------------------------
(* Customers.                                                              *)

LEMMA OwnerPreserved ==
    ASSUME TypeOK, BegunInv, OwnerInv, Next
    PROVE  OwnerInv'
<1>1. Step /\ Remember
  BY DEF Next
<1>2. ASSUME UNCHANGED <<customer, signup>>
      PROVE  OwnerInv'
  BY <1>2 DEF OwnerInv
<1>3. ASSUME NEW c0 \in Customers, NEW e \in Emails, customer' = [customer EXCEPT ![c0] = e]
      PROVE  \A c \in Customers : customer[c] # None => customer'[c] # None
  BY <1>3, ConstantsAssumption DEF TypeOK
<1>4. ASSUME NEW e \in Emails, Register(e)
      PROVE  OwnerInv'
  BY <1>3, <1>4, SignupShape DEF Register, Known, OwnerInv
<1>5. ASSUME NEW r \in Signups, SelectFinds(r)
      PROVE  OwnerInv'
  <2>1. PICK c \in Known(signup[r].email) : WithCustomer(r, c)
    BY <1>5 DEF SelectFinds
  <2>2. signup[r].email \in Emails
    BY <1>5, SignupShape DEF SelectFinds
  <2>3. customer[c] # None
    BY <2>2, ConstantsAssumption DEF Known
  <2>. QED  BY <1>5, <2>1, <2>3 DEF SelectFinds, WithCustomer, OwnerInv, TypeOK
<1>6. ASSUME NEW r \in Signups, InsertCustomer(r)
      PROVE  OwnerInv'
  <2>1. PICK c \in Known(None) :
            customer' = [customer EXCEPT ![c] = signup[r].email] /\ WithCustomer(r, c)
    BY <1>6 DEF InsertCustomer
  <2>2. c \in Customers /\ signup[r].email \in Emails
    BY <1>6, SignupShape DEF InsertCustomer, Known
  <2>3. customer'[c] # None
    BY <2>1, <2>2, ConstantsAssumption DEF TypeOK
  <2>4. ASSUME NEW q \in Signups, q # r, signup'[q].at = "insert"
        PROVE  customer'[signup'[q].customer] # None
    <3>1. signup'[q] = signup[q]
      BY <2>1, <2>4 DEF WithCustomer, TypeOK
    <3>. QED  BY <1>3, <2>1, <2>2, <2>4, <3>1, SignupShape DEF OwnerInv
  <2>5. signup'[r].customer = c
    BY <2>1 DEF WithCustomer, TypeOK
  <2>. QED  BY <2>3, <2>4, <2>5 DEF OwnerInv
<1>7. ASSUME NEW r \in Signups, SignupStep(r)
      PROVE  OwnerInv'
  <2>1. ASSUME NEW p \in Plans, NEW e \in Emails, SignupBegins(r, p, e)
        PROVE  OwnerInv'
    BY <2>1 DEF SignupBegins, OwnerInv, TypeOK
  <2>2. CASE SelectMisses(r)
    <3>1. signup' = [signup EXCEPT ![r].at = "create"] /\ customer' = customer
      BY <2>2 DEF SelectMisses
    <3>2. signup'[r].at = "create"
      BY <2>2, <3>1, SignupShape DEF SelectMisses, TypeOK
    <3>. QED  BY <3>1, <3>2 DEF OwnerInv, TypeOK
  <2>3. CASE SignupFails(r)
    BY <2>3 DEF SignupFails, OwnerInv, TypeOK, NoSignup
  <2>4. ASSUME NEW s \in Subs, InsertSub(r, s)
        PROVE  OwnerInv'
    BY <2>4 DEF InsertSub, OwnerInv, TypeOK, NoSignup
  <2>. QED  BY <1>5, <1>6, <1>7, <2>1, <2>2, <2>3, <2>4 DEF SignupStep
<1>8. CASE CatalogStep
  BY <1>2, <1>4, <1>8 DEF CatalogStep, CreatePlan, UpdatePlan, DeletionLooks, DeletionActs, StoreToken
<1>9. ASSUME NEW w \in Workers, WriteStep(w)
      PROVE  OwnerInv'
  BY <1>2, <1>9, WriteIsWritten DEF Written, catalog
<1>10. ASSUME NEW w \in Workers, NEW s \in Subs, TakeStep(w, s)
       PROVE  OwnerInv'
  BY <1>2, <1>10, TakeIsTaken DEF Taken, catalog
<1>11. CASE DayPasses \/ \E s \in Subs : RetryDiscarded(s)
  BY <1>2, <1>11 DEF DayPasses, RetryDiscarded, catalog
<1>. QED  BY <1>1, <1>7, <1>8, <1>9, <1>10, <1>11 DEF Step

----------------------------------------------------------------------------
(* Rows.                                                                   *)

\* Steps that leave all subscriptions and whoever holds them alone.
Quiet ==
    /\ UNCHANGED <<rows, letters, work, asks>>
    /\ now' \in {now, now + 1}
    /\ \/ UNCHANGED deletion
       \/ \E d \in Deletions, p \in Plans : DeletionLooks(d, p)

LEMMA StepKinds ==
    ASSUME TypeOK, BegunInv, Step
    PROVE  \/ Quiet
           \/ \E d \in Deletions : DeletionActs(d)
           \/ \E r \in Signups, s \in Subs : InsertSub(r, s)
           \/ \E w \in Workers : WriteStep(w) /\ Written(w) /\ LeavingWrites(w)
           \/ \E w \in Workers, s \in Subs : TakeStep(w, s) /\ Taken(w, s)
<1>1. CASE CatalogStep
  BY <1>1 DEF CatalogStep, Quiet, CreatePlan, UpdatePlan, DeletionLooks, Register, StoreToken, queues
<1>2. ASSUME NEW r \in Signups, SignupStep(r)
      PROVE  Quiet \/ \E s \in Subs : InsertSub(r, s)
  BY <1>2 DEF SignupStep, Quiet, SignupBegins, SelectFinds, SelectMisses, InsertCustomer,
              SignupFails, queues
<1>3. CASE DayPasses \/ \E s \in Subs : RetryDiscarded(s)
  BY <1>3 DEF Quiet, DayPasses, RetryDiscarded, catalog, queues
<1>. QED  BY <1>1, <1>2, <1>3, WriteIsWritten, TakeIsTaken DEF Step

LEMMA BusyWritten ==
    ASSUME TypeOK, NEW w \in Workers, Written(w)
    PROVE  work[w].sub \in Busy /\ Busy' \in {Busy, Busy \ {work[w].sub}}
<1>. DEFINE s == work[w].sub
<1>1. work[w] \in [op : Ops, sub : Subs]
  BY WorkShape DEF Written
<1>2. s \in Busy
  BY <1>1 DEF Busy, Written
<1>3. \A v \in Workers : v # w => work'[v] = work[v]
  BY DEF Written, GoesOn, TypeOK
<1>4. work'[w] = Idle \/ (work'[w] # Idle /\ work'[w].sub = s)
  BY <1>1 DEF Written, GoesOn, TypeOK
<1>5. \A t \in Subs \ {s} : t \in Busy' <=> t \in Busy
  BY <1>3, <1>4 DEF Busy, Written
<1>. QED  BY <1>2, <1>5 DEF Busy

LEMMA BusyTaken ==
    ASSUME TypeOK, NEW w \in Workers, NEW s \in Subs, Taken(w, s)
    PROVE  Busy' = Busy \cup {s}
<1>1. PICK op \in Ops : work' = [work EXCEPT ![w] = [op |-> op, sub |-> s]]
  BY DEF Taken
<1>2. \A v \in Workers : v # w => work'[v] = work[v]
  BY <1>1 DEF TypeOK
<1>3. work'[w] = [op |-> op, sub |-> s] /\ work'[w] # Idle
  BY <1>1 DEF TypeOK, Idle
<1>. QED  BY <1>2, <1>3 DEF Busy, Taken

\* What a writer may have done to a row.
LEMMA RowsAfter ==
    ASSUME TypeOK, NEW w \in Workers, Written(w), NEW t \in Subs
    PROVE  /\ status'[t] = "none" <=> status[t] = "none"
           /\ status'[t] \in Stored <=> status[t] \in Stored
           /\ t # work[w].sub => status'[t] = status[t] /\ until'[t] = until[t]
<1>1. "none" \notin Stored
  BY DEF Stored, Live
<1>. QED  BY <1>1 DEF Written, RowWritten, TypeOK

LEMMA BegunPreserved ==
    ASSUME TypeOK, BegunInv, Next
    PROVE  BegunInv'
<1>1. Step
  BY DEF Next
<1>2. CASE Quiet
  BY <1>2 DEF Quiet, rows, BegunInv, Busy
<1>3. ASSUME NEW d \in Deletions, DeletionActs(d)
      PROVE  BegunInv'
  <2>1. \A s \in Subs : status'[s] = "none" => status[s] = "none"
    BY <1>3 DEF DeletionActs, TypeOK
  <2>2. UNCHANGED <<unpaid, letters>> /\ Busy' = Busy
    BY <1>3 DEF DeletionActs, queues, Busy
  <2>. QED  BY <2>1, <2>2 DEF BegunInv
<1>4. ASSUME NEW r \in Signups, NEW s \in Subs, InsertSub(r, s)
      PROVE  BegunInv'
  <2>1. status'[s] # "none" /\ \A t \in Subs : t # s => status'[t] = status[t]
    BY <1>4 DEF InsertSub, TypeOK
  <2>2. unpaid' \subseteq unpaid \cup {s} /\ UNCHANGED letters /\ Busy' = Busy
    BY <1>4 DEF InsertSub, queues, Busy
  <2>. QED  BY <2>1, <2>2 DEF BegunInv
<1>5. ASSUME NEW w \in Workers, Written(w)
      PROVE  BegunInv'
  <2>1. work[w].sub \in Busy /\ Busy' \subseteq Busy
    BY <1>5, BusyWritten
  <2>. QED  BY <1>5, <2>1, RowsAfter DEF BegunInv, Written
<1>6. ASSUME NEW w \in Workers, NEW s \in Subs, Taken(w, s)
      PROVE  BegunInv'
  <2>1. UNCHANGED <<status, unpaid>> /\ letters' \subseteq letters /\ status[s] # "none"
    BY <1>6 DEF Taken, rows
  <2>. QED  BY <1>6, <2>1, BusyTaken DEF BegunInv
<1>. QED  BY <1>1, <1>2, <1>3, <1>4, <1>5, <1>6, StepKinds

LEMMA PendingPreserved ==
    ASSUME TypeOK, BegunInv, PendingInv, Next
    PROVE  PendingInv'
<1>1. Step /\ Remember
  BY DEF Next
<1>2. \A s \in Subs : s \in late' <=>
        /\ status'[s] \in Live
        /\ s \in late \/ (status[s] \notin Live /\ \E d \in Deletions : deletion[d] = planOf'[s])
  BY <1>1 DEF Remember
<1>. SUFFICES ASSUME NEW d \in Deletions, NEW s \in Subs, deletion'[d] # None,
                     planOf'[s] = deletion'[d], status'[s] \in Live
              PROVE  s \in late'
  BY DEF PendingInv
<1>3. ASSUME UNCHANGED <<deletion, planOf>>
      PROVE  s \in late'
  BY <1>2, <1>3 DEF PendingInv
<1>4. CASE Quiet
  <2>1. ASSUME NEW d0 \in Deletions, NEW p \in Plans, DeletionLooks(d0, p)
        PROVE  s \in late'
    <3>1. UNCHANGED <<status, planOf>>
      BY <2>1 DEF DeletionLooks, rows
    <3>2. d # d0
      BY <2>1, <3>1 DEF DeletionLooks, TypeOK
    <3>3. deletion'[d] = deletion[d]
      BY <2>1, <3>2 DEF DeletionLooks, TypeOK
    <3>. QED  BY <1>2, <3>1, <3>3 DEF PendingInv
  <2>. QED  BY <1>3, <1>4, <2>1 DEF Quiet, rows
<1>5. ASSUME NEW d0 \in Deletions, DeletionActs(d0)
      PROVE  s \in late'
  <2>1. d # d0 /\ deletion'[d] = deletion[d]
    BY <1>5 DEF DeletionActs, TypeOK
  <2>2. planOf' = planOf /\ status[s] \in Live
    BY <1>5 DEF DeletionActs, TypeOK, Live
  <2>. QED  BY <1>2, <2>1, <2>2 DEF PendingInv
<1>6. ASSUME NEW r \in Signups, NEW t \in Subs, InsertSub(r, t)
      PROVE  s \in late'
  <2>1. deletion' = deletion /\ status[t] \notin Live
    BY <1>6 DEF InsertSub, Live
  <2>2. s # t => planOf'[s] = planOf[s]
    BY <1>6 DEF InsertSub, TypeOK
  <2>. QED  BY <1>2, <2>1, <2>2 DEF PendingInv
<1>7. ASSUME NEW w \in Workers, Written(w)
      PROVE  s \in late'
  BY <1>3, <1>7 DEF Written, catalog
<1>8. ASSUME NEW w \in Workers, NEW t \in Subs, Taken(w, t)
      PROVE  s \in late'
  BY <1>3, <1>8 DEF Taken, catalog, rows
<1>. QED  BY <1>1, <1>4, <1>5, <1>6, <1>7, <1>8, StepKinds

LEMMA TimeMovesOn ==
    ASSUME TypeOK, BegunInv, Step
    PROVE  now \in Nat /\ now' \in Nat /\ now <= now'
<1>1. now \in Nat
  BY DEF TypeOK
<1>2. now' \in {now, now + 1}
  BY StepKinds DEF Quiet, DeletionActs, InsertSub, Written, Taken
<1>. QED  BY <1>1, <1>2

LEMMA SecurePreserved ==
    ASSUME TypeOK, BegunInv, SecureInv, Next
    PROVE  SecureInv'
<1>1. Step /\ Remember
  BY DEF Next
<1>. SUFFICES ASSUME NEW s \in secure', now' < until'[s]
              PROVE  /\ status'[s] \in {"active", "canceled", "deleted"}
                     /\ \A w \in Workers : work'[w] # Idle /\ work'[w].sub = s =>
                            work'[w].op = "unsubscribe"
  BY DEF SecureInv
<1>2. /\ s \in Subs
      /\ \/ s \in secure /\ asks'[s] = asks[s] /\ until'[s] = until[s]
         \/ status'[s] = "active" /\ s \notin Busy'
  BY <1>1 DEF Remember
<1>3. CASE status'[s] = "active" /\ s \notin Busy'
  BY <1>2, <1>3 DEF Busy
<1>4. CASE s \in secure /\ asks'[s] = asks[s] /\ until'[s] = until[s]
  <2>1. now < until[s]
    <3>1. until[s] \in Nat
      BY <1>2 DEF TypeOK
    <3>. QED  BY <1>1, <1>4, <3>1, TimeMovesOn
  <2>2. /\ status[s] \in {"active", "canceled", "deleted"}
        /\ \A w \in Workers : work[w] # Idle /\ work[w].sub = s => work[w].op = "unsubscribe"
    BY <1>4, <2>1 DEF SecureInv
  <2>3. CASE Quiet
    BY <2>2, <2>3 DEF Quiet, rows
  <2>4. ASSUME NEW d \in Deletions, DeletionActs(d)
        PROVE  status'[s] \in {"active", "canceled", "deleted"} /\ work' = work
    BY <1>2, <2>2, <2>4 DEF DeletionActs
  <2>5. ASSUME NEW r \in Signups, NEW t \in Subs, InsertSub(r, t)
        PROVE  status'[s] = status[s] /\ work' = work
    BY <1>2, <2>2, <2>5 DEF InsertSub, TypeOK
  <2>6. ASSUME NEW w \in Workers, Written(w), LeavingWrites(w)
        PROVE  /\ status'[s] \in {"active", "canceled", "deleted"}
               /\ \A v \in Workers : work'[v] # Idle /\ work'[v].sub = s => work'[v].op = "unsubscribe"
    <3>1. work[w] # Idle /\ work[w].sub \in Subs
      BY <2>6, WorkShape DEF Written
    <3>2. \A v \in Workers : v # w => work'[v] = work[v]
      BY <2>6 DEF Written, GoesOn, TypeOK
    <3>3. CASE work[w].sub = s
      <4>1. work[w].op = "unsubscribe"
        BY <2>2, <3>1, <3>3
      <4>2. work'[w] = Idle
        BY <2>6, <4>1 DEF Written, GoesOn, TypeOK
      <4>3. status'[s] \in {status[s], "canceled"}
        BY <1>2, <2>6, <3>3, <4>1 DEF LeavingWrites, TypeOK
      <4>. QED  BY <2>2, <3>2, <4>2, <4>3
    <3>4. CASE work[w].sub # s
      <4>1. status'[s] = status[s]
        BY <1>2, <2>6, <3>4, RowsAfter
      <4>2. work'[w] # Idle => work'[w].sub # s
        BY <2>6, <3>1, <3>4, WorkShape DEF Written, GoesOn, TypeOK
      <4>. QED  BY <2>2, <3>2, <4>1, <4>2
    <3>. QED  BY <3>3, <3>4
  <2>7. ASSUME NEW w \in Workers, NEW t \in Subs, Taken(w, t)
        PROVE  /\ status'[s] = status[s]
               /\ \A v \in Workers : work'[v] # Idle /\ work'[v].sub = s => work'[v].op = "unsubscribe"
    <3>1. PICK op \in Ops :
            /\ work' = [work EXCEPT ![w] = [op |-> op, sub |-> t]]
            /\ \/ asks' = [asks EXCEPT ![t] = @ + 1]
               \/ /\ status[t] \in Live
                  /\ op = "unsubscribe" \/ status[t] # "active" \/ until[t] <= now
      BY <2>7 DEF Taken
    <3>2. t = s => op = "unsubscribe"
      <4>1. until[s] \in Nat /\ now \in Nat /\ asks[s] \in Nat
        BY <1>2, ConstantsAssumption DEF TypeOK
      <4>2. t = s => asks' # [asks EXCEPT ![t] = @ + 1]
        BY <1>2, <1>4, <4>1 DEF TypeOK
      <4>3. t = s => status[s] \notin Live \/ status[s] = "active"
        BY <2>2 DEF Live
      <4>. QED  BY <2>1, <3>1, <4>1, <4>2, <4>3
    <3>3. \A v \in Workers : v # w => work'[v] = work[v]
      BY <3>1 DEF TypeOK
    <3>4. work'[w] = [op |-> op, sub |-> t]
      BY <3>1 DEF TypeOK
    <3>. QED  BY <2>2, <2>7, <3>2, <3>3, <3>4 DEF Taken, rows
  <2>. QED  BY <1>1, <2>2, <2>3, <2>4, <2>5, <2>6, <2>7, StepKinds
<1>. QED  BY <1>2, <1>3, <1>4

----------------------------------------------------------------------------
(* Theorems.                                                               *)

LEMMA Initially ==
    ASSUME Init
    PROVE  IInv
<1>1. TypeOK
  BY ConstantsAssumption
  DEF Init, TypeOK, PlanRow, SignupState, NoSignup, Anchored, Stored, Live
<1>2. BegunInv /\ OwnerInv /\ PendingInv /\ SecureInv
  BY DEF Init, BegunInv, OwnerInv, PendingInv, SecureInv, Busy, Idle, NoSignup
<1>. QED  BY <1>1, <1>2 DEF IInv

LEMMA Stutter ==
    ASSUME IInv, UNCHANGED vars
    PROVE  IInv'
<1>1. UNCHANGED <<now, plan, customer, card, signup, deletion, status, until, planOf,
                  ownerOf, unpaid, retries, letters, work, asks, late, secure>>
  BY DEF vars, catalog, rows, queues, history
<1>. QED
  BY <1>1
  DEF IInv, TypeOK, Anchored, BegunInv, Busy, OwnerInv, PendingInv, SecureInv

THEOREM Invariant == Spec => []IInv
<1>1. Init => IInv
  BY Initially
<1>2. IInv /\ [Next]_vars => IInv'
  BY Stutter, TypesPreserved, BegunPreserved, OwnerPreserved, PendingPreserved, SecurePreserved
  DEF IInv
<1>. QED  BY <1>1, <1>2, PTL DEF Spec

\* Rows, queues and requests keep their types, and a stored subscription has
\* its plan and its customer, whatever overlaps.
THEOREM TypeCorrect == Spec => []TypeOK
<1>1. IInv => TypeOK
  BY DEF IInv
<1>. QED  BY <1>1, Invariant, PTL

\* deletePlan takes no live subscription along that it could have seen.
THEOREM DeletionsSpare == Spec => DeletionSparesSeen
<1>1. ASSUME IInv, Next, NEW s \in Subs, status[s] \in Live, status'[s] = "deleted"
      PROVE  s \in late
  <2>1. TypeOK /\ BegunInv /\ PendingInv /\ Step
    BY <1>1 DEF IInv, Next
  <2>2. status[s] \in Stored /\ status[s] # "deleted" /\ "deleted" \notin Stored
    BY <1>1 DEF Stored, Live
  <2>3. CASE Quiet
    BY <1>1, <2>2, <2>3 DEF Quiet, rows
  <2>4. ASSUME NEW d \in Deletions, DeletionActs(d)
        PROVE  s \in late
    BY <1>1, <2>1, <2>2, <2>4 DEF DeletionActs, PendingInv
  <2>5. ASSUME NEW r \in Signups, NEW t \in Subs, InsertSub(r, t)
        PROVE  FALSE
    BY <1>1, <2>1, <2>2, <2>5 DEF InsertSub, TypeOK
  <2>6. ASSUME NEW w \in Workers, Written(w)
        PROVE  FALSE
    BY <1>1, <2>1, <2>2, <2>6, RowsAfter
  <2>7. ASSUME NEW w \in Workers, NEW t \in Subs, Taken(w, t)
        PROVE  FALSE
    BY <1>1, <2>2, <2>7 DEF Taken, rows
  <2>. QED  BY <2>1, <2>3, <2>4, <2>5, <2>6, <2>7, StepKinds
<1>2. IInv /\ [Next]_vars =>
        [\A s \in Subs : status[s] \in Live /\ status'[s] = "deleted" => s \in late]_vars
  BY <1>1
<1>. QED  BY <1>2, Invariant, PTL DEF Spec, DeletionSparesSeen

\* A period granted with nothing else under way is enjoyed to its end, for any
\* number of jobs, ticks and requests.
THEOREM PaidPeriodsAreKept == Spec => PaidIsKept
<1>1. ASSUME IInv, Next, NEW s \in secure, status[s] = "active", now < until[s],
             status'[s] # "deleted", ~Leaving(s)
      PROVE  status'[s] = "active" /\ until'[s] >= until[s]
  <2>1. TypeOK /\ BegunInv /\ SecureInv /\ Step
    BY <1>1 DEF IInv, Next
  <2>2. s \in Subs /\ until[s] \in Nat
    BY <2>1 DEF TypeOK
  <2>3. \A w \in Workers : work[w] # Idle => work[w].sub # s
    <3>. SUFFICES ASSUME NEW w \in Workers, work[w] # Idle, work[w].sub = s
                  PROVE  FALSE
      OBVIOUS
    <3>1. work[w].op = "unsubscribe"
      BY <1>1, <2>1 DEF SecureInv
    <3>2. work[w] = [op |-> "unsubscribe", sub |-> s]
      BY <2>1, <3>1, WorkShape
    <3>. QED  BY <1>1, <3>2 DEF Leaving
  <2>4. CASE Quiet
    BY <1>1, <2>2, <2>4 DEF Quiet, rows
  <2>5. ASSUME NEW d \in Deletions, DeletionActs(d)
        PROVE  status'[s] = "active" /\ until'[s] = until[s]
    BY <1>1, <2>2, <2>5 DEF DeletionActs
  <2>6. ASSUME NEW r \in Signups, NEW t \in Subs, InsertSub(r, t)
        PROVE  status'[s] = "active" /\ until'[s] = until[s]
    BY <1>1, <2>1, <2>2, <2>6 DEF InsertSub, TypeOK
  <2>7. ASSUME NEW w \in Workers, Written(w)
        PROVE  status'[s] = "active" /\ until'[s] = until[s]
    <3>1. work[w].sub # s
      BY <2>3, <2>7 DEF Written
    <3>. QED  BY <1>1, <2>1, <2>2, <2>7, <3>1, RowsAfter
  <2>8. ASSUME NEW w \in Workers, NEW t \in Subs, Taken(w, t)
        PROVE  status'[s] = "active" /\ until'[s] = until[s]
    BY <1>1, <2>8 DEF Taken, rows
  <2>. QED  BY <2>1, <2>2, <2>4, <2>5, <2>6, <2>7, <2>8, StepKinds
<1>2. IInv /\ [Next]_vars =>
        [\A s \in secure :
            /\ status[s] = "active" /\ now < until[s]
            /\ status'[s] # "deleted"
            /\ ~Leaving(s)
            => status'[s] = "active" /\ until'[s] >= until[s]]_vars
  BY <1>1
<1>. QED  BY <1>2, Invariant, PTL DEF Spec, PaidIsKept

----------------------------------------------------------------------------
(* The refinement.                                                         *)

\* Every step is one of the lifecycle's, or none of its business.
LEMMA StepRefines ==
    ASSUME IInv, Next
    PROVE  [Lifecycle!Next]_<<status, Busy, asks>>
<1>1. TypeOK /\ BegunInv /\ Step
  BY DEF IInv, Next
<1>. USE DEF Lifecycle!Live, Lifecycle!Stored, Live, Stored
<1>2. CASE Quiet
  <2>1. UNCHANGED <<status, asks>> /\ Busy' = Busy
    BY <1>2 DEF Quiet, rows, Busy
  <2>. QED  BY <2>1
<1>3. ASSUME NEW d \in Deletions, DeletionActs(d)
      PROVE  Lifecycle!Next
  <2>. DEFINE gone == {s \in Subs : planOf[s] = deletion[d] /\ status[s] \in Stored}
  <2>1. status' = [s \in Subs |-> IF s \in gone THEN "deleted" ELSE status[s]]
    BY <1>3 DEF DeletionActs
  <2>2. asks' = asks /\ Busy' = Busy
    BY <1>3 DEF DeletionActs, Busy
  <2>3. Lifecycle!Delete(gone) /\ gone \in SUBSET Subs
    BY <2>1, <2>2 DEF Lifecycle!Delete
  <2>. QED  BY <2>3 DEF Lifecycle!Next
<1>4. ASSUME NEW r \in Signups, NEW s \in Subs, InsertSub(r, s)
      PROVE  Lifecycle!Next
  <2>1. asks' = asks /\ Busy' = Busy
    BY <1>4 DEF InsertSub, Busy
  <2>2. Lifecycle!Start(s)
    BY <1>4, <2>1 DEF InsertSub, Lifecycle!Start
  <2>. QED  BY <2>2 DEF Lifecycle!Next
<1>5. ASSUME NEW w \in Workers, Written(w)
      PROVE  [Lifecycle!Next]_<<status, Busy, asks>>
  <2>. DEFINE s == work[w].sub
  <2>1. s \in Subs
    BY <1>1, <1>5, WorkShape DEF Written
  <2>2. s \in Busy /\ Busy' \in {Busy, Busy \ {s}} /\ asks' = asks
    BY <1>1, <1>5, BusyWritten DEF Written
  <2>3. CASE UNCHANGED <<status, until>>
    <3>1. Busy' = Busy \/ Lifecycle!PutDown(s)
      BY <2>2, <2>3 DEF Lifecycle!PutDown
    <3>. QED  BY <2>1, <2>2, <2>3, <3>1 DEF Lifecycle!Next
  <2>4. CASE status[s] \in Stored /\ \E v \in Stored : status' = [status EXCEPT ![s] = v]
    <3>1. Lifecycle!Write(s)
      BY <2>2, <2>4 DEF Lifecycle!Write
    <3>. QED  BY <2>1, <3>1 DEF Lifecycle!Next
  <2>. QED  BY <1>5, <2>3, <2>4 DEF Written, RowWritten
<1>6. ASSUME NEW w \in Workers, NEW s \in Subs, Taken(w, s)
      PROVE  Lifecycle!Next
  <2>1. Busy' = Busy \cup {s} /\ status' = status /\ status[s] # "none"
    BY <1>1, <1>6, BusyTaken DEF Taken, rows
  <2>2. asks' = [asks EXCEPT ![s] = @ + 1] \/ (asks' = asks /\ status[s] \in Live)
    BY <1>6 DEF Taken
  <2>3. Lifecycle!Ask(s) \/ Lifecycle!TakeUp(s)
    BY <2>1, <2>2 DEF Lifecycle!Ask, Lifecycle!TakeUp
  <2>. QED  BY <2>3 DEF Lifecycle!Next
<1>. QED  BY <1>1, <1>2, <1>3, <1>4, <1>5, <1>6, StepKinds

\* Whoever writes the rows: together they keep to the lifecycle.
THEOREM ImplementsLifecycle == Spec => LifecycleKept
<1>1. Init => Lifecycle!Init
  BY DEF Init, Lifecycle!Init, Busy
<1>2. IInv /\ [Next]_vars => [Lifecycle!Next]_(Lifecycle!vars)
  <2>1. CASE Next
    BY <2>1, StepRefines DEF Lifecycle!vars
  <2>2. CASE UNCHANGED vars
    BY <2>2 DEF vars, rows, Busy, Lifecycle!vars
  <2>. QED  BY <2>1, <2>2
<1>. QED  BY <1>1, <1>2, Invariant, PTL DEF Spec, LifecycleKept, Lifecycle!Spec

----------------------------------------------------------------------------
(* What the lifecycle is good for.                                         *)

\* Asked for more than n times, or canceled with nothing under way.
AtRest(s, n) ==
    \/ asks[s] > n
    \/ asks[s] = n /\ status[s] \in {"canceled", "deleted"} /\ s \notin Busy

\* No step of the lifecycle disturbs a subscription at rest.
LEMMA RestStays ==
    ASSUME TypeOK, NEW s \in Subs, NEW n \in Nat, AtRest(s, n),
           [Lifecycle!Next]_(Lifecycle!vars)
    PROVE  AtRest(s, n)'
<1>. USE DEF Lifecycle!Live, Lifecycle!Stored
<1>t. /\ DOMAIN status = Subs /\ status = [t \in Subs |-> status[t]]
      /\ asks \in [Subs -> Nat]
  BY DEF TypeOK
<1>1. CASE UNCHANGED Lifecycle!vars
  BY <1>1 DEF Lifecycle!vars, AtRest
<1>2. ASSUME NEW t \in Subs, Lifecycle!Start(t) \/ Lifecycle!TakeUp(t)
      PROVE  AtRest(s, n)'
  BY <1>t, <1>2 DEF Lifecycle!Start, Lifecycle!TakeUp, AtRest
<1>3. ASSUME NEW t \in Subs, Lifecycle!Ask(t)
      PROVE  AtRest(s, n)'
  BY <1>t, <1>3 DEF Lifecycle!Ask, AtRest
<1>4. ASSUME NEW t \in Subs, Lifecycle!Write(t) \/ Lifecycle!PutDown(t)
      PROVE  AtRest(s, n)'
  BY <1>t, <1>4 DEF Lifecycle!Write, Lifecycle!PutDown, AtRest
<1>5. ASSUME NEW gone \in SUBSET Subs, Lifecycle!Delete(gone)
      PROVE  AtRest(s, n)'
  BY <1>t, <1>5 DEF Lifecycle!Delete, AtRest
<1>. QED
  BY <1>1, <1>2, <1>3, <1>4, <1>5 DEF Lifecycle!Next

\* Once canceled with nothing under way, a subscription stays canceled as long
\* as neither its merchant nor its customer asks for it: no tick, job, retry,
\* evaluator or deletion brings it back, however late it runs.
THEOREM CanceledStays ==
    ASSUME NEW CONSTANT s \in Subs, NEW CONSTANT n \in Nat
    PROVE  Spec => [](/\ asks[s] = n
                      /\ status[s] \in {"canceled", "deleted"}
                      /\ s \notin Busy
                      => [](asks[s] <= n => /\ status[s] \in {"canceled", "deleted"}
                                            /\ s \notin Busy))
<1>1. IInv /\ AtRest(s, n) /\ [Next]_vars => AtRest(s, n)'
  <2>1. ASSUME IInv, AtRest(s, n), [Next]_vars
        PROVE  AtRest(s, n)'
    <3>1. [Lifecycle!Next]_(Lifecycle!vars)
      <4>1. CASE Next
        BY <2>1, <4>1, StepRefines DEF Lifecycle!vars
      <4>2. CASE UNCHANGED vars
        BY <4>2 DEF vars, rows, Busy, Lifecycle!vars
      <4>. QED  BY <2>1, <4>1, <4>2
    <3>. QED  BY <2>1, <3>1, RestStays DEF IInv
  <2>. QED  BY <2>1
<1>2. asks[s] = n /\ status[s] \in {"canceled", "deleted"} /\ s \notin Busy
        => AtRest(s, n)
  BY DEF AtRest
<1>3. IInv /\ AtRest(s, n)
        => (asks[s] <= n => status[s] \in {"canceled", "deleted"} /\ s \notin Busy)
  BY DEF AtRest, IInv, TypeOK
<1>. QED  BY <1>1, <1>2, <1>3, Invariant, PTL DEF Spec
=============================================================================
