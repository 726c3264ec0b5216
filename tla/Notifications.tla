--------------------------- MODULE Notifications ---------------------------
(***************************************************************************)
(* Alerts to merchants over Telegram: the notification worker and the log  *)
(* it writes (notification/notification-worker.service.ts), the bot that   *)
(* connects a chat to a merchant (notification-bot-handler.service.ts),    *)
(* and the merchant who disconnects it or clears the log.  A handler is    *)
(* split where it awaits; the process may die there.  The bot token is     *)
(* configured.                                                             *)
(***************************************************************************)
EXTENDS Integers

CONSTANTS
    Merchants,
    Chats,          \* Telegram chats
    Events,         \* bound: notifications, each queued once
    Updates,        \* bound: /start messages being handled at a time
    MaxCrashes,     \* bound: crashes of the process
    None

ASSUME NotificationsAssumption ==
    MaxCrashes \in Nat /\ None \notin Chats \cup Merchants \cup Updates

VARIABLES
    chatId,         \* merchants.telegramChatId
    start,          \* the /start messages under way
    job,            \* the jobs of the notifications queue
    stalled,        \* those that BullMQ has redelivered once
    rows,           \* notification_logs: the rows of an event, by delivered
    crashes,        \* crashes so far
    accepted,       \* history: alerts for the event that Telegram took
    told,           \* history: the chat told that it is connected since the
                    \*   last change of chatId
    crossed,        \* history: merchants whose chatId changed while a message
                    \*   about it was under way
    upset           \* history: events hit by a failing query, by two crashes
                    \*   or by the clearing of the log

queue == <<job, stalled, rows, accepted, upset>>
binding == <<chatId, start, told, crossed>>
vars == <<chatId, start, job, stalled, rows, crashes, accepted, told, crossed, upset>>

StartState ==
    {"idle",
     "other",       \* another chat, or none, was connected: about to connect
     "same",        \* this chat was: about to say so
     "bound"}       \* connected, about to say so

JobState ==
    {"none",
     "waiting",     \* queued
     "read",        \* the merchant's chat is read
     "tried",       \* Telegram has answered, or there was no chat
     "logged",      \* past persistNotificationLog
     "over"}        \* completed or failed

TypeOK ==
    /\ chatId \in [Merchants -> Chats \cup {None}]
    /\ start \in [Updates -> [at : StartState, who : Merchants \cup {None},
                              chat : Chats \cup {None}]]
    /\ \A u \in Updates : start[u].at # "idle" =>
            start[u].who \in Merchants /\ start[u].chat \in Chats
    /\ job \in [Events -> [at : JobState, who : Merchants \cup {None}, delivered : BOOLEAN]]
    /\ \A e \in Events : job[e].at # "none" => job[e].who \in Merchants
    /\ stalled \subseteq Events
    /\ rows \in [Events -> [yes : 0..2, no : 0..2]]
    /\ crashes \in 0..MaxCrashes
    /\ accepted \in [Events -> 0..3]
    /\ told \in [Merchants -> Chats \cup {None}]
    /\ crossed \subseteq Merchants
    /\ upset \subseteq Events

NoStart == [at |-> "idle", who |-> None, chat |-> None]

Init ==
    /\ chatId = [m \in Merchants |-> None]
    /\ start = [u \in Updates |-> NoStart]
    /\ job = [e \in Events |-> [at |-> "none", who |-> None, delivered |-> FALSE]]
    /\ stalled = {}
    /\ rows = [e \in Events |-> [yes |-> 0, no |-> 0]]
    /\ crashes = 0
    /\ accepted = [e \in Events |-> 0]
    /\ told = [m \in Merchants |-> None]
    /\ crossed = {}
    /\ upset = {}

----------------------------------------------------------------------------
(* NotificationBotHandlerService.handleBotUpdate and disconnectTelegram.   *)

\* Some other update than u is about to tell m's chat that it is connected.
Announced(u, m) ==
    \E v \in Updates \ {u} : start[v].at \in {"same", "bound"} /\ start[v].who = m

\* chatId of m changes, on behalf of update u if there is one.
SetChat(m, c, u) ==
    /\ chatId' = [chatId EXCEPT ![m] = c]
    /\ told' = [told EXCEPT ![m] = None]
    /\ crossed' = IF Announced(u, m) THEN crossed \cup {m} ELSE crossed \ {m}

\* Defect for ToldIsBound: any connected chat counts as this one.
StartReads_AnyChat(u, m, c) ==
    /\ start[u].at = "idle"
    /\ start' = [start EXCEPT ![u] =
            [at |-> IF chatId[m] = None THEN "other" ELSE "same", who |-> m, chat |-> c]]
    /\ UNCHANGED <<chatId, told, crossed, queue, crashes>>

\* /start from chat c with m's username: the merchant is read.
StartReads(u, m, c) ==
    /\ start[u].at = "idle"
    /\ start' = [start EXCEPT ![u] =
            [at |-> IF chatId[m] = c THEN "same" ELSE "other", who |-> m, chat |-> c]]
    /\ UNCHANGED <<chatId, told, crossed, queue, crashes>>

\* After a word to the chat if another was connected.
StartBinds(u) ==
    /\ start[u].at = "other"
    /\ SetChat(start[u].who, start[u].chat, u)
    /\ start' = [start EXCEPT ![u].at = "bound"]
    /\ UNCHANGED <<queue, crashes>>

\* "Connected" or "Already Connected": a message that fails is only logged.
StartTells(u) ==
    /\ start[u].at \in {"same", "bound"}
    /\ \/ told' = [told EXCEPT ![start[u].who] = start[u].chat]
       \/ UNCHANGED told
    /\ start' = [start EXCEPT ![u] = NoStart]
    /\ UNCHANGED <<chatId, crossed, queue, crashes>>

\* The update of the row fails, and the chat hears of an error.
StartFails(u) ==
    /\ start[u].at = "other"
    /\ start' = [start EXCEPT ![u] = NoStart]
    /\ UNCHANGED <<chatId, told, crossed, queue, crashes>>

Disconnect(m) ==
    /\ SetChat(m, None, None)
    /\ UNCHANGED <<start, queue, crashes>>

----------------------------------------------------------------------------
(* NotificationWorkerService and the log.                                  *)

\* notificationQueue.add, from the webhook, the workers or the checkout.
Enqueue(e, m) ==
    /\ job[e].at = "none"
    /\ job' = [job EXCEPT ![e] = [at |-> "waiting", who |-> m, delivered |-> FALSE]]
    /\ UNCHANGED <<stalled, rows, accepted, upset, binding, crashes>>

JobReads(e) ==
    /\ job[e].at = "waiting"
    /\ job' = [job EXCEPT ![e].at = IF chatId[job[e].who] = None THEN "tried" ELSE "read"]
    /\ UNCHANGED <<stalled, rows, accepted, upset, binding, crashes>>

\* The query for the merchant fails, and the job with it: one attempt.
JobReadFails(e) ==
    /\ job[e].at = "waiting"
    /\ job' = [job EXCEPT ![e].at = "over"]
    /\ upset' = upset \cup {e}
    /\ UNCHANGED <<stalled, rows, accepted, binding, crashes>>

Bump(n, top) == IF n < top THEN n + 1 ELSE n

\* NotificationService.sendAlert: the formatted alert goes out.
SendAlert(e, took) ==
    accepted' = IF took THEN [accepted EXCEPT ![e] = Bump(@, 3)] ELSE accepted

\* Defect for DeliveredWasAccepted: the flag is set before the answer.
JobTries_Hopes(e) ==
    /\ job[e].at = "read"
    /\ \E took \in BOOLEAN :
        /\ SendAlert(e, took)
        /\ job' = [job EXCEPT ![e] = [at |-> "tried", who |-> @.who, delivered |-> TRUE]]
    /\ UNCHANGED <<stalled, rows, upset, binding, crashes>>

\* Defect for LoggedOnce: a failed delivery is thrown before it is logged.
JobTries_Throws(e) ==
    /\ job[e].at = "read"
    /\ \E took, answered \in BOOLEAN :
        /\ SendAlert(e, took)
        /\ job' = [job EXCEPT ![e] = [at |-> IF took /\ answered THEN "tried" ELSE "over",
                                      who |-> @.who, delivered |-> took /\ answered]]
    /\ UNCHANGED <<stalled, rows, upset, binding, crashes>>

\* Defect for AlertedOnce: without an answer the alert is sent again.
JobTries_Resends(e) ==
    /\ job[e].at = "read"
    /\ \E took, answered \in BOOLEAN :
        /\ SendAlert(e, took)
        /\ job' = [job EXCEPT ![e] = [at |-> IF answered THEN "tried" ELSE "read",
                                      who |-> @.who, delivered |-> took /\ answered]]
    /\ UNCHANGED <<stalled, rows, upset, binding, crashes>>

\* Telegram takes the alert or not, and the answer may be lost.
JobTries(e) ==
    /\ job[e].at = "read"
    /\ \E took, answered \in BOOLEAN :
        /\ SendAlert(e, took)
        /\ job' = [job EXCEPT ![e] = [at |-> "tried", who |-> @.who,
                                      delivered |-> took /\ answered]]
    /\ UNCHANGED <<stalled, rows, upset, binding, crashes>>

\* persistNotificationLog: the row is written whatever Telegram said ...
JobLogs(e) ==
    /\ job[e].at = "tried"
    /\ rows' = IF job[e].delivered THEN [rows EXCEPT ![e].yes = Bump(@, 2)]
                                   ELSE [rows EXCEPT ![e].no = Bump(@, 2)]
    /\ job' = [job EXCEPT ![e].at = "logged"]
    /\ UNCHANGED <<stalled, accepted, upset, binding, crashes>>

\* ... and a failure to write it (its subscription is deleted, say) is swallowed.
JobLogFails(e) ==
    /\ job[e].at = "tried"
    /\ job' = [job EXCEPT ![e].at = "logged"]
    /\ upset' = upset \cup {e}
    /\ UNCHANGED <<stalled, rows, accepted, binding, crashes>>

\* Defect for EventsSettle: the job of an undelivered alert is not ended.
JobEnds_Hangs(e) ==
    /\ job[e].at = "logged" /\ job[e].delivered
    /\ job' = [job EXCEPT ![e].at = "over"]
    /\ UNCHANGED <<stalled, rows, accepted, upset, binding, crashes>>

\* The handler returns, or throws what Telegram answered: one attempt.
JobEnds(e) ==
    /\ job[e].at = "logged"
    /\ job' = [job EXCEPT ![e].at = "over"]
    /\ UNCHANGED <<stalled, rows, accepted, upset, binding, crashes>>

\* The merchant clears the log.
ClearLog(m) ==
    LET own == {e \in Events : job[e].who = m /\ rows[e] # [yes |-> 0, no |-> 0]}
    IN  /\ own # {}
        /\ rows' = [e \in Events |-> IF e \in own THEN [yes |-> 0, no |-> 0] ELSE rows[e]]
        /\ upset' = upset \cup own
        /\ UNCHANGED <<job, stalled, accepted, binding, crashes>>

\* The process dies.  BullMQ hands a job back once; /start messages are lost.
Crash ==
    LET active == {e \in Events : job[e].at \in {"read", "tried", "logged"}}
    IN  /\ crashes < MaxCrashes
        /\ crashes' = crashes + 1
        /\ job' = [e \in Events |->
                [job[e] EXCEPT !.at = CASE e \in active \cap stalled -> "over"
                                        [] e \in active \ stalled -> "waiting"
                                        [] OTHER -> job[e].at,
                               !.delivered = IF e \in active THEN FALSE ELSE job[e].delivered]]
        /\ stalled' = stalled \cup active
        /\ upset' = upset \cup (active \cap stalled)
        /\ start' = [u \in Updates |-> NoStart]
        /\ UNCHANGED <<chatId, told, crossed, rows, accepted>>

----------------------------------------------------------------------------
StartStep(u) ==
    \/ \E m \in Merchants : \E c \in Chats : StartReads(u, m, c)
    \/ StartBinds(u)
    \/ StartTells(u)
    \/ StartFails(u)

JobStep(e) ==
    \/ JobReads(e)
    \/ JobReadFails(e)
    \/ JobTries(e)
    \/ JobLogs(e)
    \/ JobLogFails(e)
    \/ JobEnds(e)

Next ==
    \/ \E u \in Updates : StartStep(u)
    \/ \E m \in Merchants : Disconnect(m) \/ ClearLog(m)
    \/ \E e \in Events : JobStep(e)
    \/ \E e \in Events : \E m \in Merchants : Enqueue(e, m)
    \/ Crash

\* The worker takes queued jobs, and its requests and queries end.
Fairness == \A e \in Events : WF_vars(JobStep(e))

Spec == Init /\ [][Next]_vars /\ Fairness

----------------------------------------------------------------------------
(* Properties.                                                             *)

\* An event ends with a row in the log, whatever Telegram did and whether the
\* process died, and with one row unless the process died in its middle; a
\* failing query, a second crash or the clearing of the log excepted.
LoggedOnce ==
    \A e \in Events :
        /\ rows[e].yes + rows[e].no <= IF e \in stalled THEN 2 ELSE 1
        /\ job[e].at = "over" /\ e \notin upset => rows[e].yes + rows[e].no > 0

\* A row says "delivered" only of an alert that Telegram took.
DeliveredWasAccepted ==
    \A e \in Events : rows[e].yes <= accepted[e]

\* An alert goes out once, and twice only if the process died in its middle.
AlertedOnce ==
    \A e \in Events : accepted[e] <= IF e \in stalled THEN 2 ELSE 1

\* A chat told that it is connected is the chat that gets the alerts, through
\* repeated and overlapping /start messages, failures and crashes, unless the
\* chat changed while the message was under way; the next change heals that.
ToldIsBound ==
    \A m \in Merchants \ crossed : told[m] # None => chatId[m] = told[m]

\* A queued event is dealt with once and for all: nothing is retried for ever.
EventsSettle == \A e \in Events : job[e].at = "waiting" ~> job[e].at = "over"
=============================================================================
