----------------------------- MODULE Merchants -----------------------------
(***************************************************************************)
(* The accounts of merchants and their API keys: AuthService               *)
(* (auth/auth.service.ts), its controller and the API key guard.           *)
(*                                                                         *)
(* Every request looks something up, awaits a hash, and then writes or     *)
(* answers by what it saw.  An account is named by its email, which the    *)
(* unique index allows; its username is the one derived from its name, or  *)
(* that with a counter appended, and a name may look like one with a       *)
(* counter.  Codes and tokens of a forgotten password are in OneTimeCodes. *)
(***************************************************************************)
EXTENDS Naturals, Sequences

CONSTANTS
    Emails,
    Bases,          \* usernames as derived from a name, before any counter
    Passwords,      \* long enough
    Keys,           \* ids of API keys, never reused
    Requests,       \* bound: requests under way at a time
    None

VARIABLES
    account,        \* rows of merchants
    owner,          \* rows of api_keys: the merchant, None without a row
    active,         \* keys with isActive
    request,        \* what each request is doing
    firm            \* history: passwords confirmed, with no other change begun

keys == <<owner, active>>
vars == <<account, keys, request, firm>>

Idle == [at |-> "idle"]
Known == {e \in Emails : account[e] # None}

\* generateUniqueUsername appends a counter from the second try on.
Candidate(base, n) == IF n = 1 THEN base ELSE Append(base, n)
Username(e) == Candidate(account[e].base, account[e].n)
Taken(name) == \E e \in Known : Username(e) = name

Account == [base : Bases, n : Nat \ {0}, password : Passwords]

ASSUME NoneAssumption == None \notin Account \cup Emails \cup Passwords

SignupState == [at : {"name", "insert"}, email : Emails, base : Bases, n : Nat \ {0},
                seen : SUBSET Emails]
ChangeState == [at : {"change"}, email : Emails, new : Passwords]
LoginState == [at : {"login", "in", "out"}, email : Emails, given : Passwords,
               stored : Passwords, promised : Passwords \cup {None}]
KeyState == [at : {"key", "secret", "accepted"}, key : Keys, right : BOOLEAN]

RequestState == {Idle} \cup SignupState \cup ChangeState \cup LoginState \cup KeyState

\* The unique index: a username has one account.
UsernamesUnique ==
    \A e1, e2 \in Emails :
        {e1, e2} \subseteq Known /\ Username(e1) = Username(e2) => e1 = e2

TypeOK ==
    /\ account \in [Emails -> Account \cup {None}]
    /\ owner \in [Keys -> Emails \cup {None}]
    /\ active \in SUBSET {k \in Keys : owner[k] # None}
    /\ request \in [Requests -> RequestState]
    /\ firm \in [Emails -> Passwords \cup {None}]
    /\ UsernamesUnique

Init ==
    /\ account = [e \in Emails |-> None]
    /\ owner = [k \in Keys |-> None]
    /\ active = {}
    /\ request = [r \in Requests |-> Idle]
    /\ firm = [e \in Emails |-> None]

Becomes(r, state) == request' = [request EXCEPT ![r] = state]

----------------------------------------------------------------------------
(* signup.                                                                 *)

\* The email is not registered yet; the name becomes a username.
SignupLooks(r, e, base) ==
    /\ request[r] = Idle
    /\ e \notin Known
    /\ Becomes(r, [at |-> "name", email |-> e, base |-> base, n |-> 1, seen |-> Known])
    /\ UNCHANGED <<account, keys, firm>>

\* Nobody has the username ...
NameFree(r) ==
    /\ request[r].at = "name"
    /\ ~Taken(Candidate(request[r].base, request[r].n))
    /\ request' = [request EXCEPT ![r].at = "insert"]
    /\ UNCHANGED <<account, keys, firm>>

\* Defect for SignupsEnd: the counter stays.
NameTaken_SameAgain(r) ==
    /\ request[r].at = "name"
    /\ Taken(Candidate(request[r].base, request[r].n))
    /\ request' = [request EXCEPT ![r].n = IF @ = 2 THEN 2 ELSE @ + 1]
    /\ UNCHANGED <<account, keys, firm>>

\* Defect for CountersDense: the counter is incremented twice.
NameTaken_Twice(r) ==
    /\ request[r].at = "name"
    /\ Taken(Candidate(request[r].base, request[r].n))
    /\ request' = [request EXCEPT ![r].n = @ + 2]
    /\ UNCHANGED <<account, keys, firm>>

\* Defect for OnlyRacesCollide: the next counter is taken without a look.
NameTaken_NextWillDo(r) ==
    /\ request[r].at = "name"
    /\ Taken(Candidate(request[r].base, request[r].n))
    /\ request' = [request EXCEPT ![r].n = @ + 1, ![r].at = "insert"]
    /\ UNCHANGED <<account, keys, firm>>

\* ... or somebody has, and the next counter is tried.
NameTaken(r) ==
    /\ request[r].at = "name"
    /\ Taken(Candidate(request[r].base, request[r].n))
    /\ request' = [request EXCEPT ![r].n = @ + 1]
    /\ UNCHANGED <<account, keys, firm>>

\* Defect for TypeOK: the column username is not unique.
Inserts_NoIndex(r) ==
    /\ request[r].at = "insert"
    /\ request[r].email \notin Known
    /\ \E p \in Passwords :
        /\ account' = [account EXCEPT ![request[r].email] =
                [base |-> request[r].base, n |-> request[r].n, password |-> p]]
        /\ firm' = [firm EXCEPT ![request[r].email] = p]
    /\ Becomes(r, Idle)
    /\ UNCHANGED keys

\* The row is inserted if both unique indexes allow it.
Inserts(r) ==
    /\ request[r].at = "insert"
    /\ request[r].email \notin Known
    /\ ~Taken(Candidate(request[r].base, request[r].n))
    /\ \E p \in Passwords :
        /\ account' = [account EXCEPT ![request[r].email] =
                [base |-> request[r].base, n |-> request[r].n, password |-> p]]
        /\ firm' = [firm EXCEPT ![request[r].email] = p]
    /\ Becomes(r, Idle)
    /\ UNCHANGED keys

\* Somebody was faster: the insertion fails, and the request with it.
InsertRefused(r) ==
    /\ request[r].at = "insert"
    /\ \/ request[r].email \in Known
       \/ Taken(Candidate(request[r].base, request[r].n))
    /\ Becomes(r, Idle)
    /\ UNCHANGED <<account, keys, firm>>

----------------------------------------------------------------------------
(* Passwords.                                                              *)

\* resetPassword finds the old password right; resetPasswordWithToken finds
\* the account its token names.  From here on the old password is not firm.
ChangeBegins(r, e, new) ==
    /\ request[r] = Idle
    /\ e \in Known
    /\ Becomes(r, [at |-> "change", email |-> e, new |-> new])
    /\ firm' = [firm EXCEPT ![e] = None]
    /\ UNCHANGED <<account, keys>>

Changing(e) == {r \in Requests : request[r].at = "change" /\ request[r].email = e}

\* The new password as confirmed, unless another change is under way.
Confirmed(r) ==
    firm' = [firm EXCEPT ![request[r].email] =
                IF Changing(request[r].email) = {r} THEN request[r].new ELSE None]

\* Defect for ConfirmedHolds: an update without its WHERE.
Changes_Everybody(r) ==
    /\ request[r].at = "change"
    /\ account' = [e \in Emails |-> IF e \in Known
                        THEN [account[e] EXCEPT !.password = request[r].new] ELSE None]
    /\ Confirmed(r)
    /\ Becomes(r, Idle)
    /\ UNCHANGED keys

\* The new hash is written, whatever the row holds by now.
Changes(r) ==
    /\ request[r].at = "change"
    /\ account' = [account EXCEPT ![request[r].email].password = request[r].new]
    /\ Confirmed(r)
    /\ Becomes(r, Idle)
    /\ UNCHANGED keys

\* login reads the row ...
LoginBegins(r, e, given) ==
    /\ request[r] = Idle
    /\ e \in Known
    /\ Becomes(r, [at |-> "login", email |-> e, given |-> given,
                   stored |-> account[e].password, promised |-> firm[e]])
    /\ UNCHANGED <<account, keys, firm>>

\* ... and compares what it was given with what it read.
LoginAnswers(r) ==
    /\ request[r].at = "login"
    /\ request' = [request EXCEPT ![r].at =
            IF request[r].given = request[r].stored THEN "in" ELSE "out"]
    /\ UNCHANGED <<account, keys, firm>>

----------------------------------------------------------------------------
(* API keys.                                                               *)

CreateApiKey(e, k) ==
    /\ e \in Known
    /\ owner[k] = None
    /\ owner' = [owner EXCEPT ![k] = e]
    /\ active' = active \cup {k}
    /\ UNCHANGED <<account, request, firm>>

\* Only its owner's update matches the row.
RevokeApiKey(e, k) ==
    /\ owner[k] = e
    /\ active' = active \ {k}
    /\ UNCHANGED <<account, owner, request, firm>>

\* A request with an API key comes in, with the secret that createApiKey gave
\* away or another.
KeyArrives(r, k) ==
    /\ request[r] = Idle
    /\ \E right \in BOOLEAN :
        /\ right => owner[k] # None
        /\ Becomes(r, [at |-> "key", key |-> k, right |-> right])
    /\ UNCHANGED <<account, keys, firm>>

\* validateApiKey finds an active row ...
KeyFound(r) ==
    /\ request[r].at = "key"
    /\ request[r].key \in active
    /\ request' = [request EXCEPT ![r].at = "secret"]
    /\ UNCHANGED <<account, keys, firm>>

\* ... compares the secret, and the guard lets the request pass, revoked
\* meanwhile or not: the row is not read again.
KeyAccepted(r) ==
    /\ request[r].at = "secret"
    /\ request[r].right
    /\ request' = [request EXCEPT ![r].at = "accepted"]
    /\ UNCHANGED <<account, keys, firm>>

\* No such row, or another secret: 401.
KeyRejected(r) ==
    /\ \/ request[r].at = "key" /\ request[r].key \notin active
       \/ request[r].at = "secret" /\ ~request[r].right
    /\ Becomes(r, Idle)
    /\ UNCHANGED <<account, keys, firm>>

\* Answered; or a query failed, or the process died.
RequestEnds(r) ==
    /\ request[r] # Idle
    /\ Becomes(r, Idle)
    /\ UNCHANGED <<account, keys, firm>>

----------------------------------------------------------------------------
SignupStep(r) == NameFree(r) \/ NameTaken(r) \/ Inserts(r) \/ InsertRefused(r)

Next ==
    \/ \E r \in Requests :
        \/ SignupStep(r) \/ RequestEnds(r)
        \/ Changes(r) \/ LoginAnswers(r)
        \/ KeyFound(r) \/ KeyAccepted(r) \/ KeyRejected(r)
        \/ \E e \in Emails :
            \/ \E base \in Bases : SignupLooks(r, e, base)
            \/ \E p \in Passwords : ChangeBegins(r, e, p) \/ LoginBegins(r, e, p)
        \/ \E k \in Keys : KeyArrives(r, k)
    \/ \E e \in Emails, k \in Keys : CreateApiKey(e, k) \/ RevokeApiKey(e, k)

\* The event loop and the database get on with every signup.
Fairness == \A r \in Requests : WF_vars(SignupStep(r))

Spec == Init /\ [][Next]_vars /\ Fairness

----------------------------------------------------------------------------
(* Properties.                                                             *)

\* Counters have no gaps, whatever signups overlap or fail: a username with
\* the counter n exists only beside those with lower ones.
CountersDense ==
    \A e \in Known : \A k \in 1..(account[e].n - 1) : Taken(Candidate(account[e].base, k))

\* A signup that passed both looks can collide only with one that was not yet
\* there when it began: accounts it could have seen never refuse it.
OnlyRacesCollide ==
    \A r \in Requests : request[r].at = "insert" =>
        \A e \in request[r].seen :
            e # request[r].email /\ Username(e) # Candidate(request[r].base, request[r].n)

\* A password that was confirmed while nobody else was changing it is the one
\* a login is answered by, until the next change begins.
ConfirmedHolds ==
    \A r \in Requests :
        request[r].at \in {"in", "out"} /\ request[r].promised # None =>
            (request[r].at = "in") = (request[r].given = request[r].promised)

\* The search for a free username ends, although others may take what it is
\* about to try.
SignupsEnd == \A r \in Requests : request[r].at = "name" ~> request[r].at # "name"
=============================================================================
