------------------------ MODULE NotificationsProofs ------------------------
(***************************************************************************)
(* Theorems about Notifications, for any merchants, chats and events and   *)
(* any number of overlapping /start messages and crashes.                  *)
(***************************************************************************)
EXTENDS Notifications, TLAPS

----------------------------------------------------------------------------
(* The inductive invariant.                                                *)

\* Redeliveries of e so far.
Again(e) == IF e \in stalled THEN 1 ELSE 0

\* What has come of an event follows from the place of its job and from
\* whether the job was redelivered; an alert that is about to be logged as
\* delivered is one more that Telegram took.
EventInv(e) ==
    /\ accepted[e] <= Again(e) + IF job[e].at \in {"tried", "logged", "over"} THEN 1 ELSE 0
    /\ rows[e].yes + rows[e].no <= Again(e) + IF job[e].at \in {"logged", "over"} THEN 1 ELSE 0
    /\ rows[e].yes + (IF job[e].at = "tried" /\ job[e].delivered THEN 1 ELSE 0) <= accepted[e]
    /\ job[e].at \in {"none", "waiting", "read"} => ~job[e].delivered
    /\ job[e].at \in {"logged", "over"} /\ e \notin upset => rows[e].yes + rows[e].no > 0

EventsInv == \A e \in Events : EventInv(e)

\* Unless the chat of m was crossed, whoever is about to tell a chat that it is
\* connected to m speaks to the chat that is.
BindInv ==
    \A m \in Merchants \ crossed :
        /\ told[m] \in {None, chatId[m]}
        /\ \A u \in Updates : start[u].at \in {"same", "bound"} /\ start[u].who = m =>
              start[u].chat = chatId[m]

----------------------------------------------------------------------------
(* Types.                                                                  *)

LEMMA TypeInit == Init => TypeOK
BY NotificationsAssumption DEF Init, TypeOK, NoStart, StartState, JobState

LEMMA BumpBound ==
    ASSUME NEW top \in Nat, NEW n \in 0..top
    PROVE  Bump(n, top) \in 0..top /\ Bump(n, top) >= n /\ Bump(n, top) <= n + 1
           /\ (n < top => Bump(n, top) = n + 1)
BY DEF Bump

LEMMA TypeStep ==
    ASSUME TypeOK, [Next]_vars
    PROVE  TypeOK'
<1>. USE NotificationsAssumption
<1>1. ASSUME NEW u \in Updates, StartStep(u)
      PROVE  TypeOK'
  <2>1. ASSUME NEW m \in Merchants, NEW c \in Chats, StartReads(u, m, c)
        PROVE  TypeOK'
    BY <2>1 DEF StartReads, TypeOK, StartState, queue
  <2>2. CASE StartBinds(u)
    BY <2>2 DEF StartBinds, SetChat, TypeOK, StartState, queue
  <2>3. CASE StartTells(u)
    BY <2>3 DEF StartTells, TypeOK, StartState, NoStart, queue
  <2>4. CASE StartFails(u)
    BY <2>4 DEF StartFails, TypeOK, StartState, NoStart, queue
  <2>. QED  BY <1>1, <2>1, <2>2, <2>3, <2>4 DEF StartStep
<1>2. ASSUME NEW m \in Merchants, Disconnect(m)
      PROVE  TypeOK'
  BY <1>2 DEF Disconnect, SetChat, TypeOK, queue
<1>3. ASSUME NEW m \in Merchants, ClearLog(m)
      PROVE  TypeOK'
  BY <1>3 DEF ClearLog, TypeOK, binding
<1>4. ASSUME NEW e \in Events, JobStep(e)
      PROVE  TypeOK'
  <2>. job[e] \in [at : JobState, who : Merchants \cup {None}, delivered : BOOLEAN]
    BY DEF TypeOK
  <2>1. CASE JobReads(e)
    BY <2>1 DEF JobReads, TypeOK, JobState, binding
  <2>2. CASE JobReadFails(e)
    BY <2>2 DEF JobReadFails, TypeOK, JobState, binding
  <2>3. CASE JobTries(e)
    <3>1. accepted[e] \in 0..3 /\ Bump(accepted[e], 3) \in 0..3
      BY BumpBound DEF TypeOK
    <3>. QED  BY <2>3, <3>1 DEF JobTries, SendAlert, TypeOK, JobState, binding
  <2>4. CASE JobLogs(e)
    <3>1. rows[e] \in [yes : 0..2, no : 0..2] /\ Bump(rows[e].yes, 2) \in 0..2
          /\ Bump(rows[e].no, 2) \in 0..2
      BY BumpBound DEF TypeOK
    <3>. QED  BY <2>4, <3>1 DEF JobLogs, TypeOK, JobState, binding
  <2>5. CASE JobLogFails(e)
    BY <2>5 DEF JobLogFails, TypeOK, JobState, binding
  <2>6. CASE JobEnds(e)
    BY <2>6 DEF JobEnds, TypeOK, JobState, binding
  <2>. QED  BY <1>4, <2>1, <2>2, <2>3, <2>4, <2>5, <2>6 DEF JobStep
<1>5. ASSUME NEW e \in Events, NEW m \in Merchants, Enqueue(e, m)
      PROVE  TypeOK'
  BY <1>5 DEF Enqueue, TypeOK, JobState, binding
<1>6. CASE Crash
  <2>. DEFINE active == {e \in Events : job[e].at \in {"read", "tried", "logged"}}
  <2>0. /\ crashes < MaxCrashes /\ crashes' = crashes + 1
        /\ stalled' = stalled \cup active /\ upset' = upset \cup (active \cap stalled)
    BY <1>6 DEF Crash
  <2>1. stalled' \subseteq Events /\ upset' \subseteq Events /\ crashes' \in 0..MaxCrashes
    BY <2>0 DEF TypeOK
  <2>2. /\ start' \in [Updates -> [at : StartState, who : Merchants \cup {None},
                                   chat : Chats \cup {None}]]
        /\ \A u \in Updates : start'[u].at = "idle"
    BY <1>6 DEF Crash, StartState, NoStart
  <2>3. job' = [e \in Events |->
            [job[e] EXCEPT !.at = CASE e \in active \cap stalled -> "over"
                                    [] e \in active \ stalled -> "waiting"
                                    [] OTHER -> job[e].at,
                           !.delivered = IF e \in active THEN FALSE ELSE job[e].delivered]]
    BY <1>6 DEF Crash
  <2>4. ASSUME NEW e \in Events
        PROVE  /\ job'[e] \in [at : JobState, who : Merchants \cup {None}, delivered : BOOLEAN]
               /\ job'[e].at # "none" => job[e].at # "none"
               /\ job'[e].who = job[e].who
    <3>1. job[e] \in [at : JobState, who : Merchants \cup {None}, delivered : BOOLEAN]
      BY DEF TypeOK
    <3>2. CASE e \in active /\ e \in stalled
      <4>1. job'[e] = [job[e] EXCEPT !.at = "over", !.delivered = FALSE]
        BY <2>3, <3>2
      <4>. QED  BY <3>1, <3>2, <4>1 DEF JobState
    <3>3. CASE e \in active /\ e \notin stalled
      <4>1. job'[e] = [job[e] EXCEPT !.at = "waiting", !.delivered = FALSE]
        BY <2>3, <3>3
      <4>. QED  BY <3>1, <3>3, <4>1 DEF JobState
    <3>4. CASE e \notin active
      <4>1. job'[e] = job[e]
        BY <2>3, <3>1, <3>4
      <4>. QED  BY <3>1, <4>1
    <3>. QED  BY <3>2, <3>3, <3>4
  <2>5. job' \in [Events -> [at : JobState, who : Merchants \cup {None}, delivered : BOOLEAN]]
    <3>. DEFINE S == [at : JobState, who : Merchants \cup {None}, delivered : BOOLEAN]
    <3>1. \A e \in Events : job'[e] \in S
      BY <2>4
    <3>2. job' = [e \in Events |-> job'[e]]
      BY <2>3
    <3>. HIDE DEF S
    <3>3. job' \in [Events -> S]
      BY <3>1, <3>2
    <3>. QED  BY <3>3 DEF S
  <2>. QED  BY <1>6, <2>1, <2>2, <2>4, <2>5 DEF Crash, TypeOK
<1>7. CASE UNCHANGED vars
  BY <1>7 DEF vars, TypeOK
<1>. QED  BY <1>1, <1>2, <1>3, <1>4, <1>5, <1>6, <1>7 DEF Next

----------------------------------------------------------------------------
(* Events.                                                                 *)

LEMMA EventInit == Init => EventsInv
BY DEF Init, EventsInv, EventInv, Again

\* An event that a step leaves alone keeps its invariant.
LEMMA EventKept ==
    ASSUME NEW e \in Events, EventInv(e), job'[e] = job[e], rows'[e] = rows[e],
           accepted'[e] = accepted[e], stalled' = stalled, e \in upset => e \in upset'
    PROVE  EventInv(e)'
BY DEF EventInv, Again

LEMMA JobKeeps ==
    ASSUME TypeOK, NEW e \in Events, EventInv(e), JobStep(e)
    PROVE  EventInv(e)'
<1>. /\ job[e] \in [at : JobState, who : Merchants \cup {None}, delivered : BOOLEAN]
     /\ rows[e] \in [yes : 0..2, no : 0..2] /\ accepted[e] \in 0..3
     /\ job \in [Events -> [at : JobState, who : Merchants \cup {None}, delivered : BOOLEAN]]
     /\ rows \in [Events -> [yes : 0..2, no : 0..2]] /\ accepted \in [Events -> 0..3]
  BY DEF TypeOK
<1>1. CASE JobReads(e)
  BY <1>1 DEF JobReads, EventInv, Again
<1>2. CASE JobReadFails(e)
  BY <1>2 DEF JobReadFails, EventInv, Again
<1>3. CASE JobTries(e)
  <2>1. accepted[e] <= 1
    BY <1>3 DEF JobTries, EventInv, Again
  <2>2. Bump(accepted[e], 3) = accepted[e] + 1
    BY <2>1, BumpBound
  <2>3. PICK took, answered \in BOOLEAN :
          /\ accepted' = IF took THEN [accepted EXCEPT ![e] = Bump(@, 3)] ELSE accepted
          /\ job' = [job EXCEPT ![e] = [at |-> "tried", who |-> @.who,
                                        delivered |-> took /\ answered]]
    BY <1>3 DEF JobTries, SendAlert
  <2>4. /\ accepted'[e] = accepted[e] + (IF took THEN 1 ELSE 0)
        /\ job'[e].at = "tried" /\ (job'[e].delivered => took)
    BY <2>2, <2>3
  <2>. QED  BY <1>3, <2>1, <2>4 DEF JobTries, EventInv, Again
<1>4. CASE JobLogs(e)
  <2>1. rows[e].yes + rows[e].no <= 1
    BY <1>4 DEF JobLogs, EventInv, Again
  <2>2. Bump(rows[e].yes, 2) = rows[e].yes + 1 /\ Bump(rows[e].no, 2) = rows[e].no + 1
    BY <2>1, BumpBound
  <2>3. /\ rows'[e].yes = rows[e].yes + (IF job[e].delivered THEN 1 ELSE 0)
        /\ rows'[e].no = rows[e].no + (IF job[e].delivered THEN 0 ELSE 1)
    BY <1>4, <2>2 DEF JobLogs
  <2>. QED  BY <1>4, <2>1, <2>3 DEF JobLogs, EventInv, Again
<1>5. CASE JobLogFails(e)
  BY <1>5 DEF JobLogFails, EventInv, Again
<1>6. CASE JobEnds(e)
  BY <1>6 DEF JobEnds, EventInv, Again
<1>. QED  BY <1>1, <1>2, <1>3, <1>4, <1>5, <1>6 DEF JobStep

\* The job of one event leaves the others alone.
LEMMA JobIsLocal ==
    ASSUME TypeOK, NEW e \in Events, NEW d \in Events \ {e}, JobStep(e)
    PROVE  /\ job'[d] = job[d] /\ rows'[d] = rows[d] /\ accepted'[d] = accepted[d]
           /\ stalled' = stalled /\ (d \in upset => d \in upset')
BY DEF JobStep, JobReads, JobReadFails, JobTries, SendAlert, JobLogs, JobLogFails, JobEnds,
       TypeOK

LEMMA EventStep ==
    ASSUME TypeOK, EventsInv, [Next]_vars
    PROVE  EventsInv'
<1>. SUFFICES ASSUME NEW e \in Events
              PROVE  EventInv(e)'
  BY DEF EventsInv
<1>0. EventInv(e)
  BY DEF EventsInv
<1>1. ASSUME NEW u \in Updates, StartStep(u)
      PROVE  EventInv(e)'
  <2>1. UNCHANGED queue
    BY <1>1 DEF StartStep, StartReads, StartBinds, StartTells, StartFails
  <2>. QED  BY <1>0, <2>1, EventKept DEF queue
<1>2. ASSUME NEW m \in Merchants, Disconnect(m)
      PROVE  EventInv(e)'
  BY <1>0, <1>2, EventKept DEF Disconnect, queue
<1>3. ASSUME NEW m \in Merchants, ClearLog(m)
      PROVE  EventInv(e)'
  <2>1. rows[e] \in [yes : 0..2, no : 0..2] /\ accepted[e] \in 0..3
    BY DEF TypeOK
  <2>2. CASE rows'[e] = rows[e]
    BY <1>0, <1>3, <2>2, EventKept DEF ClearLog
  <2>3. CASE rows'[e] = [yes |-> 0, no |-> 0] /\ rows'[e] # rows[e]
    <3>1. e \in upset'
      BY <1>3, <2>3 DEF ClearLog
    <3>. QED  BY <1>0, <1>3, <2>1, <2>3, <3>1 DEF ClearLog, EventInv, Again
  <2>. QED  BY <1>3, <2>2, <2>3 DEF ClearLog
<1>4. ASSUME NEW d \in Events, JobStep(d)
      PROVE  EventInv(e)'
  <2>1. CASE d = e
    BY <1>0, <1>4, <2>1, JobKeeps
  <2>2. CASE d # e
    BY <1>0, <1>4, <2>2, JobIsLocal, EventKept
  <2>. QED  BY <2>1, <2>2
<1>5. ASSUME NEW d \in Events, NEW m \in Merchants, Enqueue(d, m)
      PROVE  EventInv(e)'
  <2>1. CASE d = e
    BY <1>0, <1>5, <2>1 DEF Enqueue, EventInv, Again, TypeOK
  <2>2. CASE d # e
    BY <1>0, <1>5, <2>2, EventKept DEF Enqueue, TypeOK
  <2>. QED  BY <2>1, <2>2
<1>6. CASE Crash
  <2>1. /\ job[e].at \in {"read", "tried", "logged"} /\ e \in stalled =>
             job'[e].at = "over" /\ e \in upset'
        /\ job[e].at \in {"read", "tried", "logged"} /\ e \notin stalled =>
             job'[e].at = "waiting"
        /\ job[e].at \in {"read", "tried", "logged"} => ~job'[e].delivered /\ e \in stalled'
        /\ job[e].at \notin {"read", "tried", "logged"} =>
             job'[e] = job[e] /\ (e \in stalled' <=> e \in stalled)
        /\ rows' = rows /\ accepted' = accepted /\ (e \in upset => e \in upset')
    BY <1>6 DEF Crash, TypeOK
  <2>2. /\ job[e] \in [at : JobState, who : Merchants \cup {None}, delivered : BOOLEAN]
        /\ rows[e] \in [yes : 0..2, no : 0..2] /\ accepted[e] \in 0..3
    BY DEF TypeOK
  <2>3. CASE job[e].at \notin {"read", "tried", "logged"}
    BY <1>0, <2>1, <2>2, <2>3 DEF EventInv, Again
  <2>4. CASE job[e].at \in {"read", "tried", "logged"} /\ e \in stalled
    BY <1>0, <2>1, <2>2, <2>4 DEF EventInv, Again
  <2>5. CASE job[e].at \in {"read", "tried", "logged"} /\ e \notin stalled
    BY <1>0, <2>1, <2>2, <2>5 DEF EventInv, Again
  <2>. QED  BY <2>3, <2>4, <2>5
<1>7. CASE UNCHANGED vars
  BY <1>0, <1>7, EventKept DEF vars
<1>. QED  BY <1>1, <1>2, <1>3, <1>4, <1>5, <1>6, <1>7 DEF Next

----------------------------------------------------------------------------
(* The binding of a chat.                                                  *)

LEMMA BindInit == Init => BindInv
<1>. SUFFICES ASSUME Init, NEW m \in Merchants
              PROVE  /\ told[m] = None
                     /\ \A u \in Updates : start[u].at \notin {"same", "bound"}
  BY DEF BindInv
<1>1. told[m] = None
  BY DEF Init
<1>2. \A u \in Updates : start[u].at \notin {"same", "bound"}
  BY DEF Init, NoStart
<1>. QED  BY <1>1, <1>2

LEMMA BindStep ==
    ASSUME TypeOK, BindInv, [Next]_vars
    PROVE  BindInv'
<1>. USE NotificationsAssumption
<1>1. ASSUME NEW u \in Updates, StartStep(u)
      PROVE  BindInv'
  <2>1. ASSUME NEW m \in Merchants, NEW c \in Chats, StartReads(u, m, c)
        PROVE  BindInv'
    BY <2>1 DEF StartReads, TypeOK, BindInv
  <2>2. CASE StartBinds(u)
    BY <2>2 DEF StartBinds, SetChat, Announced, TypeOK, BindInv
  <2>3. CASE StartTells(u)
    BY <2>3 DEF StartTells, TypeOK, BindInv, NoStart
  <2>4. CASE StartFails(u)
    BY <2>4 DEF StartFails, TypeOK, BindInv, NoStart
  <2>. QED  BY <1>1, <2>1, <2>2, <2>3, <2>4 DEF StartStep
<1>2. ASSUME NEW m \in Merchants, Disconnect(m)
      PROVE  BindInv'
  BY <1>2 DEF Disconnect, SetChat, Announced, TypeOK, BindInv
<1>3. CASE UNCHANGED binding
  BY <1>3 DEF binding, BindInv
<1>4. ASSUME NEW m \in Merchants, ClearLog(m)
      PROVE  UNCHANGED binding
  BY <1>4 DEF ClearLog
<1>5. ASSUME NEW e \in Events, JobStep(e)
      PROVE  UNCHANGED binding
  BY <1>5 DEF JobStep, JobReads, JobReadFails, JobTries, JobLogs, JobLogFails, JobEnds
<1>6. ASSUME NEW e \in Events, NEW m \in Merchants, Enqueue(e, m)
      PROVE  UNCHANGED binding
  BY <1>6 DEF Enqueue
<1>7. CASE Crash
  BY <1>7 DEF Crash, TypeOK, BindInv, NoStart
<1>8. CASE UNCHANGED vars
  BY <1>3, <1>8 DEF vars, binding
<1>. QED  BY <1>1, <1>2, <1>3, <1>4, <1>5, <1>6, <1>7, <1>8 DEF Next

----------------------------------------------------------------------------
(* The theorems.                                                           *)

\* Every variable keeps its range.
THEOREM TypeCorrect == Spec => []TypeOK
<1>1. Init => TypeOK
  BY TypeInit
<1>2. TypeOK /\ [Next]_vars => TypeOK'
  BY TypeStep
<1>. QED  BY <1>1, <1>2, PTL DEF Spec

LEMMA EventsHold == Spec => []EventsInv
<1>1. Init => EventsInv
  BY EventInit
<1>2. TypeOK /\ EventsInv /\ [Next]_vars => EventsInv'
  BY EventStep
<1>. QED  BY <1>1, <1>2, TypeCorrect, PTL DEF Spec

\* Every event that processNotification deals with leaves a row in the log and
\* only a redelivery makes it a second one, faults excepted.
THEOREM EventsLoggedOnce == Spec => []LoggedOnce
<1>1. TypeOK /\ EventsInv => LoggedOnce
  BY DEF TypeOK, EventsInv, EventInv, Again, LoggedOnce
<1>. QED  BY <1>1, TypeCorrect, EventsHold, PTL

\* The log claims no delivery that Telegram did not accept.
THEOREM LogIsTrue == Spec => []DeliveredWasAccepted
<1>1. TypeOK /\ EventsInv => DeliveredWasAccepted
  BY DEF TypeOK, EventsInv, EventInv, DeliveredWasAccepted
<1>. QED  BY <1>1, TypeCorrect, EventsHold, PTL

\* Only a redelivery sends an alert a second time.
THEOREM AlertsGoOnce == Spec => []AlertedOnce
<1>1. TypeOK /\ EventsInv => AlertedOnce
  BY DEF TypeOK, EventsInv, EventInv, Again, AlertedOnce
<1>. QED  BY <1>1, TypeCorrect, EventsHold, PTL

\* A chat told that it is connected is connected, unless the binding changed
\* while that message was under way.
THEOREM ToldChatIsBound == Spec => []ToldIsBound
<1>1. Init => BindInv
  BY BindInit
<1>2. TypeOK /\ BindInv /\ [Next]_vars => BindInv'
  BY BindStep
<1>3. BindInv => ToldIsBound
  BY DEF BindInv, ToldIsBound
<1>. QED  BY <1>1, <1>2, <1>3, TypeCorrect, PTL DEF Spec

----------------------------------------------------------------------------
(* Events get on.                                                          *)

\* How far a job has come.
Stage(e) ==
    CASE job[e].at = "none" -> 0
      [] job[e].at = "waiting" -> 1
      [] job[e].at = "read" -> 2
      [] job[e].at = "tried" -> 3
      [] job[e].at = "logged" -> 4
      [] job[e].at = "over" -> 5

\* Going back takes a redelivery, and there is one of them.
GetsOn(e) ==
    /\ Stage(e)' >= Stage(e) \/ (e \notin stalled /\ e \in stalled')
    /\ e \in stalled => e \in stalled'

\* A step of the job takes it forward.
LEMMA JobGetsOn ==
    ASSUME TypeOK, NEW e \in Events, JobStep(e)
    PROVE  Stage(e)' > Stage(e) /\ stalled' = stalled
<1>. job[e].at \in JobState /\ job[e].who \in Merchants \cup {None}
     /\ job \in [Events -> [at : JobState, who : Merchants \cup {None}, delivered : BOOLEAN]]
  BY DEF TypeOK
<1>1. CASE JobReads(e)
  BY <1>1 DEF JobReads, Stage
<1>2. CASE JobReadFails(e)
  BY <1>2 DEF JobReadFails, Stage
<1>3. CASE JobTries(e)
  BY <1>3 DEF JobTries, Stage
<1>4. CASE JobLogs(e)
  BY <1>4 DEF JobLogs, Stage
<1>5. CASE JobLogFails(e)
  BY <1>5 DEF JobLogFails, Stage
<1>6. CASE JobEnds(e)
  BY <1>6 DEF JobEnds, Stage
<1>. QED  BY <1>1, <1>2, <1>3, <1>4, <1>5, <1>6 DEF JobStep

LEMMA Unmoved ==
    ASSUME NEW e \in Events, job[e].at \in JobState, job'[e] = job[e], stalled' = stalled
    PROVE  GetsOn(e)
BY DEF GetsOn, Stage, JobState

LEMMA GetOnStep ==
    ASSUME TypeOK, [Next]_vars
    PROVE  \A e \in Events : GetsOn(e)
<1>. SUFFICES ASSUME NEW e \in Events
              PROVE  GetsOn(e)
  OBVIOUS
<1>0. job[e].at \in JobState
  BY DEF TypeOK
<1>1. ASSUME NEW u \in Updates, StartStep(u)
      PROVE  GetsOn(e)
  <2>1. UNCHANGED queue
    BY <1>1 DEF StartStep, StartReads, StartBinds, StartTells, StartFails
  <2>. QED  BY <1>0, <2>1, Unmoved DEF queue
<1>2. ASSUME NEW m \in Merchants, Disconnect(m) \/ ClearLog(m)
      PROVE  GetsOn(e)
  BY <1>0, <1>2, Unmoved DEF Disconnect, ClearLog, queue
<1>3. ASSUME NEW d \in Events, JobStep(d)
      PROVE  GetsOn(e)
  <2>1. CASE d = e
    <3>1. Stage(e)' > Stage(e) /\ stalled' = stalled
      BY <1>3, <2>1, JobGetsOn
    <3>2. Stage(e) \in 0..5 /\ Stage(e)' \in 0..5
      <4>1. job'[e].at \in JobState
        BY <1>3, TypeStep DEF TypeOK
      <4>. QED  BY <1>0, <4>1 DEF Stage, JobState
    <3>. QED  BY <3>1, <3>2 DEF GetsOn
  <2>2. CASE d # e
    BY <1>0, <1>3, <2>2, JobIsLocal, Unmoved
  <2>. QED  BY <2>1, <2>2
<1>4. ASSUME NEW d \in Events, NEW m \in Merchants, Enqueue(d, m)
      PROVE  GetsOn(e)
  <2>1. CASE d = e
    BY <1>4, <2>1 DEF Enqueue, TypeOK, GetsOn, Stage
  <2>2. CASE d # e
    BY <1>0, <1>4, <2>2, Unmoved DEF Enqueue, TypeOK
  <2>. QED  BY <2>1, <2>2
<1>5. CASE Crash
  <2>1. /\ job[e].at \in {"read", "tried", "logged"} /\ e \in stalled =>
             job'[e].at = "over" /\ e \in stalled'
        /\ job[e].at \in {"read", "tried", "logged"} => e \in stalled'
        /\ job[e].at \notin {"read", "tried", "logged"} =>
             job'[e].at = job[e].at /\ (e \in stalled' <=> e \in stalled)
    BY <1>5 DEF Crash, TypeOK
  <2>. QED  BY <1>0, <2>1 DEF GetsOn, Stage, JobState
<1>6. CASE UNCHANGED vars
  BY <1>0, <1>6, Unmoved DEF vars
<1>. QED  BY <1>1, <1>2, <1>3, <1>4, <1>5, <1>6 DEF Next

\* The safety part of EventsSettle.  Through every failure and crash the job of
\* an event moves forward only, except that BullMQ takes it back to the queue
\* at most once: an event that does not settle stands still, it never cycles.
THEOREM EventsGetOn == Spec => [][\A e \in Events : GetsOn(e)]_vars
<1>1. TypeOK /\ [Next]_vars => [\A e \in Events : GetsOn(e)]_vars
  BY GetOnStep
<1>. QED  BY <1>1, TypeCorrect, PTL DEF Spec
=============================================================================
