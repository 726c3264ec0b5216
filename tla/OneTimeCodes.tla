---------------------------- MODULE OneTimeCodes ----------------------------
(***************************************************************************)
(* The one-time codes of otp_verifications: a customer confirms a          *)
(* cancellation (requestUnsubscribe, confirmUnsubscribe), a merchant       *)
(* obtains a token for a new password (forgotPassword, verifyResetOtp).    *)
(* Each request is split where it awaits, may fail there, and may overlap  *)
(* any other.  Subscriptions are canceled, reactivated and deleted by the  *)
(* rest of the system meanwhile.                                           *)
(***************************************************************************)
EXTENDS Integers

CONSTANTS
    Subs,           \* subscriptions, whose customers ask to unsubscribe
    Merchants,      \* merchants who forgot their password
    Codes,          \* bound: the codes drawn; no code is drawn twice
    Asks,           \* bound: requests for a code under way
    Checks,         \* bound: requests that present a code under way
    None

Holders == Subs \cup Merchants

ASSUME NamesAssumption ==
    Subs \cap Merchants = {} /\ None \notin Codes /\ None \notin Holders

VARIABLES
    status,         \* subscriptions.status; "live" is any but canceled
    rows,           \* the codes in otp_verifications
    owner,          \* whom a code was drawn for, None before
    expired,        \* those of them whose expiresAt has passed
    known,          \* codes that reached a mailbox
    ask,            \* the requests for a code
    check,          \* the requests that present one
    spent,          \* history: cancellations or tokens a code has brought
    accepted,       \* history: codes some check has found valid
    shared,         \* history: see CheckFinds and CheckFails
    stale,          \* history: codes a later or concurrent request withdraws
    crowded         \* history: holders whose requests have overlapped

facts == <<spent, accepted, shared>>
vars == <<status, rows, owner, expired, known, ask, check, spent, accepted,
          shared, stale, crowded>>

AskState == {"idle", "asked", "cleared", "stored"}

CheckState ==
    {"idle",
     "begun",       \* the holder is read
     "found",       \* the code is read, and valid
     "acted",       \* the subscription is canceled, the code not yet deleted
     "dropped"}     \* the code is deleted, the token not yet signed

TypeOK ==
    /\ status \in [Subs -> {"live", "canceled", "gone"}]
    /\ rows \subseteq Codes
    /\ owner \in [Codes -> Holders \cup {None}]
    /\ expired \subseteq rows
    /\ known \subseteq Codes
    /\ ask \in [Asks -> [at : AskState, who : Holders \cup {None}, code : Codes \cup {None}]]
    /\ check \in [Checks -> [at : CheckState, who : Holders \cup {None}, code : Codes \cup {None}]]
    /\ \A r \in Asks : ask[r].at # "idle" => ask[r].who \in Holders
    /\ \A r \in Asks : ask[r].at = "stored" => ask[r].code \in Codes
    /\ \A r \in Checks : check[r].at # "idle" =>
            check[r].who \in Holders /\ check[r].code \in Codes
    /\ spent \in [Codes -> 0..2]
    /\ accepted \subseteq Codes
    /\ shared \subseteq Codes
    /\ stale \subseteq Codes
    /\ crowded \subseteq Holders

Idle == [at |-> "idle", who |-> None, code |-> None]

Init ==
    /\ status = [s \in Subs |-> "live"]
    /\ rows = {}
    /\ owner = [c \in Codes |-> None]
    /\ expired = {}
    /\ known = {}
    /\ ask = [r \in Asks |-> Idle]
    /\ check = [r \in Checks |-> Idle]
    /\ spent = [c \in Codes |-> 0]
    /\ accepted = {}
    /\ shared = {}
    /\ stale = {}
    /\ crowded = {}

Exists(h) == h \in Subs => status[h] # "gone"

CodesOf(h) == {c \in Codes : owner[c] = h}

----------------------------------------------------------------------------
(* Asking for a code.                                                      *)

\* Another request for h than r is at one of these places.
OtherAsk(r, h, places) ==
    \E q \in Asks \ {r} : ask[q].at \in places /\ ask[q].who = h

AskGoto(r, place) == ask' = [ask EXCEPT ![r].at = place]

\* The holder is read and the mail address agrees.
AskBegins(r, h) ==
    /\ ask[r].at = "idle"
    /\ Exists(h)
    /\ ask' = [ask EXCEPT ![r] = [at |-> "asked", who |-> h, code |-> None]]
    /\ stale' = stale \cup CodesOf(h)
    /\ crowded' = IF OtherAsk(r, h, {"asked", "cleared"}) THEN crowded \cup {h} ELSE crowded
    /\ UNCHANGED <<status, rows, owner, expired, known, check, facts>>

\* Defect for OnlyNewest: only codes that have expired are cleaned up.
AskClears_Expired(r) ==
    /\ ask[r].at = "asked"
    /\ rows' = rows \ (CodesOf(ask[r].who) \cap expired)
    /\ expired' = expired \ CodesOf(ask[r].who)
    /\ AskGoto(r, "cleared")
    /\ crowded' = IF OtherAsk(r, ask[r].who, {"asked", "cleared"})
                  THEN crowded ELSE crowded \ {ask[r].who}
    /\ UNCHANGED <<status, owner, known, check, facts, stale>>

\* Defect for MailedCodeWorks: the holder is left out of the condition.
AskClears_All(r) ==
    /\ ask[r].at = "asked"
    /\ rows' = {}
    /\ expired' = {}
    /\ AskGoto(r, "cleared")
    /\ crowded' = IF OtherAsk(r, ask[r].who, {"asked", "cleared"})
                  THEN crowded ELSE crowded \ {ask[r].who}
    /\ UNCHANGED <<status, owner, known, check, facts, stale>>

\* The holder's former codes are deleted.  If no other request for a code is
\* at work, their past overlaps leave no trace.
AskClears(r) ==
    /\ ask[r].at = "asked"
    /\ rows' = rows \ CodesOf(ask[r].who)
    /\ expired' = expired \ CodesOf(ask[r].who)
    /\ AskGoto(r, "cleared")
    /\ crowded' = IF OtherAsk(r, ask[r].who, {"asked", "cleared"})
                  THEN crowded ELSE crowded \ {ask[r].who}
    /\ UNCHANGED <<status, owner, known, check, facts, stale>>

\* The new code is inserted.
AskStores(r) ==
    /\ ask[r].at = "cleared"
    /\ Exists(ask[r].who)
    /\ \E c \in Codes :
        /\ owner[c] = None
        /\ owner' = [owner EXCEPT ![c] = ask[r].who]
        /\ rows' = rows \cup {c}
        /\ ask' = [ask EXCEPT ![r] = [at |-> "stored", who |-> @.who, code |-> c]]
        /\ stale' = IF OtherAsk(r, ask[r].who, {"asked"}) THEN stale \cup {c} ELSE stale
    /\ UNCHANGED <<status, expired, known, check, facts, crowded>>

\* The code is mailed; a failure of the mail service is swallowed.
AskMails(r) ==
    /\ ask[r].at = "stored"
    /\ \/ known' = known \cup {ask[r].code}
       \/ UNCHANGED known
    /\ ask' = [ask EXCEPT ![r] = Idle]
    /\ UNCHANGED <<status, rows, owner, expired, check, facts, stale, crowded>>

\* A query fails, above all the insertion for a row that is gone, or the
\* process dies.
AskFails(r) ==
    /\ ask[r].at # "idle"
    /\ ask' = [ask EXCEPT ![r] = Idle]
    /\ UNCHANGED <<status, rows, owner, expired, known, check, facts, stale, crowded>>

----------------------------------------------------------------------------
(* Presenting a code.                                                      *)

CheckGoto(r, place) == check' = [check EXCEPT ![r].at = place]

CheckEnds(r) == check' = [check EXCEPT ![r] = Idle]

\* The holder is read; a subscription must not be canceled.
CheckBegins(r, h, c) ==
    /\ check[r].at = "idle"
    /\ h \in Subs => status[h] = "live"
    /\ c \in known
    /\ check' = [check EXCEPT ![r] = [at |-> "begun", who |-> h, code |-> c]]
    /\ UNCHANGED <<status, rows, owner, expired, known, ask, facts, stale, crowded>>

\* The query for the code: holder, digits, expiresAt.
Valid(r) ==
    /\ check[r].code \in rows
    /\ owner[check[r].code] = check[r].who
    /\ check[r].code \notin expired

CheckRejects(r) ==
    /\ check[r].at = "begun"
    /\ ~Valid(r)
    /\ CheckEnds(r)
    /\ UNCHANGED <<status, rows, owner, expired, known, ask, facts, stale, crowded>>

\* A code is shared once two checks have it in hand that could both delete it.
CheckFinds(r) ==
    /\ check[r].at = "begun"
    /\ Valid(r)
    /\ CheckGoto(r, "found")
    /\ accepted' = accepted \cup {check[r].code}
    /\ shared' = IF \E q \in Checks \ {r} : /\ check[q].at \in {"found", "acted"}
                                            /\ check[q].code = check[r].code
                 THEN shared \cup {check[r].code} ELSE shared
    /\ UNCHANGED <<status, rows, owner, expired, known, ask, spent, stale, crowded>>

\* The code has brought what it was asked for.
Spend(c) == spent' = [spent EXCEPT ![c] = IF @ < 2 THEN @ + 1 ELSE @]

\* confirmUnsubscribe cancels first ...
CheckCancels(r) ==
    /\ check[r].at = "found"
    /\ check[r].who \in Subs
    /\ status' = IF Exists(check[r].who)
                 THEN [status EXCEPT ![check[r].who] = "canceled"] ELSE status
    /\ Spend(check[r].code)
    /\ CheckGoto(r, "acted")
    /\ UNCHANGED <<rows, owner, expired, known, ask, accepted, shared, stale, crowded>>

\* Defect for SpentOnce: the code is left for the next request to clean up.
CheckDrops_Leaves(r) ==
    /\ \/ check[r].at = "acted" /\ CheckEnds(r)
       \/ /\ check[r].at = "found"
          /\ check[r].who \in Merchants
          /\ CheckGoto(r, "dropped")
    /\ UNCHANGED <<status, rows, owner, expired, known, ask, facts, stale, crowded>>

\* ... and then deletes the code; verifyResetOtp deletes it first ...
CheckDrops(r) ==
    /\ \/ check[r].at = "acted" /\ CheckEnds(r)
       \/ /\ check[r].at = "found"
          /\ check[r].who \in Merchants
          /\ CheckGoto(r, "dropped")
    /\ rows' = rows \ {check[r].code}
    /\ expired' = expired \ {check[r].code}
    /\ UNCHANGED <<status, owner, known, ask, facts, stale, crowded>>

\* ... and then signs the token.
CheckSigns(r) ==
    /\ check[r].at = "dropped"
    /\ Spend(check[r].code)
    /\ CheckEnds(r)
    /\ UNCHANGED <<status, rows, owner, expired, known, ask, accepted, shared,
                   stale, crowded>>

\* A query fails or the process dies.  A code that has acted and is not
\* deleted may act again.
CheckFails(r) ==
    /\ check[r].at # "idle"
    /\ CheckEnds(r)
    /\ shared' = IF check[r].at = "acted" THEN shared \cup {check[r].code} ELSE shared
    /\ UNCHANGED <<status, rows, owner, expired, known, ask, spent, accepted,
                   stale, crowded>>

----------------------------------------------------------------------------
(* The rest of the system.                                                 *)

\* Ten minutes pass.
CodeExpires(c) ==
    /\ c \in rows \ expired
    /\ expired' = expired \cup {c}
    /\ UNCHANGED <<status, rows, owner, known, ask, check, facts, stale, crowded>>

\* Dunning cancels the subscription, the merchant reactivates it.
StatusChanges(s) ==
    /\ status' = [status EXCEPT ![s] = IF @ = "live" THEN "canceled" ELSE "live"]
    /\ Exists(s)
    /\ UNCHANGED <<rows, owner, expired, known, ask, check, facts, stale, crowded>>

\* deletePlan: the keys cascade from the plan to the subscription to the codes.
PlanDeleted(s) ==
    /\ Exists(s)
    /\ status' = [status EXCEPT ![s] = "gone"]
    /\ rows' = rows \ CodesOf(s)
    /\ expired' = expired \ CodesOf(s)
    /\ UNCHANGED <<owner, known, ask, check, facts, stale, crowded>>

----------------------------------------------------------------------------
AskStep(r) ==
    \/ \E h \in Holders : AskBegins(r, h)
    \/ AskClears(r)
    \/ AskStores(r)
    \/ AskMails(r)
    \/ AskFails(r)

CheckStep(r) ==
    \/ \E h \in Holders : \E c \in Codes : CheckBegins(r, h, c)
    \/ CheckRejects(r)
    \/ CheckFinds(r)
    \/ CheckCancels(r)
    \/ CheckDrops(r)
    \/ CheckSigns(r)
    \/ CheckFails(r)

Next ==
    \/ \E r \in Asks : AskStep(r)
    \/ \E r \in Checks : CheckStep(r)
    \/ \E c \in Codes : CodeExpires(c)
    \/ \E s \in Subs : StatusChanges(s) \/ PlanDeleted(s)

Spec == Init /\ [][Next]_vars

----------------------------------------------------------------------------
(* Properties.                                                             *)

\* A code brings one cancellation or one token, unless two checks had it in
\* hand at once, or one broke off between acting on it and deleting it; then
\* it may cancel again a subscription the merchant has reactivated.
SpentOnce == \A c \in Codes : spent[c] > 1 => c \in shared

\* A holder has at most one code, the newest, whatever failed before, unless
\* requests for a code overlapped; the next undisturbed request heals that.
OnlyNewest ==
    \A h \in Holders : \A c, d \in rows :
        owner[c] = h /\ owner[d] = h /\ c # d => h \in crowded

\* A mailed code stays in the table until it is accepted or its holder asks
\* again, whatever others ask for and whichever request of theirs fails.
MailedCodeWorks ==
    \A c \in known \ (stale \cup accepted) : Exists(owner[c]) => c \in rows

=============================================================================
