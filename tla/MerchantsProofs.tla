-------------------------- MODULE MerchantsProofs --------------------------
(***************************************************************************)
(* Theorems about Merchants, for any emails, names, passwords and keys and *)
(* any number of overlapping requests.                                     *)
(***************************************************************************)
EXTENDS Merchants, FiniteSetTheorems, TLAPS

----------------------------------------------------------------------------
(* The inductive invariant: what each kind of request may rely on when it  *)
(* goes on, whatever others have done meanwhile.                           *)

\* All candidates before the one a signup is trying are taken, and the accounts
\* it could have seen are none of those it would collide with.
SignupInv(r) ==
    request[r].at \in {"name", "insert"} =>
        /\ \A k \in 1..(request[r].n - 1) : Taken(Candidate(request[r].base, k))
        /\ request[r].seen \subseteq Known
        /\ request[r].email \notin request[r].seen
        /\ request[r].at = "insert" =>
              \A e \in request[r].seen :
                  Username(e) # Candidate(request[r].base, request[r].n)

\* No password is firm while it is being changed.
ChangeInv(r) ==
    request[r].at = "change" => request[r].email \in Known /\ firm[request[r].email] = None

\* A login compares with the password that was firm when it began.
LoginInv(r) ==
    /\ request[r].at \in {"login", "in", "out"} =>
          request[r].promised \in {None, request[r].stored}
    /\ request[r].at = "in" => request[r].given = request[r].stored
    /\ request[r].at = "out" => request[r].given # request[r].stored

RequestInv(r) == SignupInv(r) /\ ChangeInv(r) /\ LoginInv(r)

\* What is firm is what the row holds.
FirmInv == \A e \in Emails : firm[e] # None => e \in Known /\ account[e].password = firm[e]

IInv ==
    /\ TypeOK
    /\ CountersDense
    /\ FirmInv
    /\ \A r \in Requests : RequestInv(r)

----------------------------------------------------------------------------
(* Lemmas.                                                                 *)

\* The place of a request tells what it carries.
LEMMA Shape ==
    ASSUME NEW q \in RequestState
    PROVE  /\ q.at \in {"name", "insert"} => q \in SignupState
           /\ q.at = "change" => q \in ChangeState
           /\ q.at \in {"login", "in", "out"} => q \in LoginState
           /\ q.at \in {"key", "secret", "accepted"} => q \in KeyState
BY DEF RequestState, SignupState, ChangeState, LoginState, KeyState, Idle

LEMMA KnownIsAccount ==
    ASSUME TypeOK, NEW e \in Known
    PROVE  e \in Emails /\ account[e] \in Account /\ account[e].n \in Nat \ {0}
BY DEF TypeOK, Known, Account

\* What a step may do to accounts under the hands of a request that does not
\* take it: names stay.
Onward ==
    /\ Known \subseteq Known'
    /\ \A e \in Known : account'[e].base = account[e].base /\ account'[e].n = account[e].n

LEMMA NamesStay ==
    ASSUME Onward
    PROVE  /\ \A e \in Known : Username(e)' = Username(e)
           /\ \A name : Taken(name) => Taken(name)'
<1>1. \A e \in Known : e \in Known' /\ Username(e)' = Username(e)
  BY DEF Onward, Username
<1>. QED  BY <1>1 DEF Taken

\* A request that does not take the step keeps what it relies on, if the step
\* makes no password firm that it is changing.
LEMMA Bystander ==
    ASSUME TypeOK, Onward, NEW q \in Requests, RequestInv(q), request'[q] = request[q],
           request[q].at = "change" => firm'[request[q].email] = None
    PROVE  RequestInv(q)'
<1>1. request[q] \in RequestState
  BY DEF TypeOK
<1>2. SignupInv(q)'
  BY NamesStay, <1>1, Shape DEF RequestInv, SignupInv, Onward, SignupState
<1>3. ChangeInv(q)'
  BY <1>1, Shape DEF RequestInv, ChangeInv, Onward, ChangeState
<1>4. LoginInv(q)'
  BY DEF RequestInv, LoginInv
<1>. QED  BY <1>2, <1>3, <1>4 DEF RequestInv

\* Counters stay dense when names stay and nobody is new.
LEMMA DenseKept ==
    ASSUME TypeOK, CountersDense, Onward, Known' = Known
    PROVE  CountersDense'
<1>1. ASSUME NEW e \in Known, NEW k \in 1..(account[e].n - 1)
      PROVE  \E e1 \in Known' : Username(e1)' = Candidate(account'[e].base, k)
  <2>1. PICK e1 \in Known : Username(e1) = Candidate(account[e].base, k)
    BY DEF CountersDense, Taken
  <2>2. e1 \in Known' /\ Username(e1)' = Username(e1)
    BY NamesStay
  <2>3. account'[e].base = account[e].base
    BY DEF Onward
  <2>. QED  BY <2>1, <2>2, <2>3
<1>2. \A e \in Known : account'[e].n = account[e].n
  BY DEF Onward
<1>. QED  BY <1>1, <1>2 DEF CountersDense, Taken

\* Steps that write neither accounts nor keys leave everything in place.
LEMMA NothingWritten ==
    ASSUME UNCHANGED <<account, keys>>
    PROVE  Onward /\ Known' = Known
BY DEF Onward, Known, keys

\* The step of a request r that writes no row: r keeps its part, nobody else
\* is concerned.
LEMMA OnlyRequest ==
    ASSUME IInv, NEW r \in Requests, NEW state \in RequestState,
           request' = [request EXCEPT ![r] = state],
           UNCHANGED <<account, keys, firm>>, RequestInv(r)'
    PROVE  IInv'
<1>1. TypeOK'
  BY DEF IInv, TypeOK, keys, UsernamesUnique, Known, Username
<1>2. CountersDense'
  BY NothingWritten, DenseKept DEF IInv
<1>3. FirmInv'
  BY DEF IInv, FirmInv, Known
<1>4. ASSUME NEW q \in Requests
      PROVE  RequestInv(q)'
  <2>1. CASE q = r
    BY <2>1
  <2>2. CASE q # r
    <3>1. request'[q] = request[q]
      BY <2>2 DEF IInv, TypeOK
    <3>2. request[q].at = "change" => firm'[request[q].email] = None
      BY DEF IInv, RequestInv, ChangeInv
    <3>. QED  BY <3>1, <3>2, NothingWritten, Bystander DEF IInv
  <2>. QED  BY <2>1, <2>2
<1>. QED  BY <1>1, <1>2, <1>3, <1>4 DEF IInv

\* A request that is over relies on nothing.
LEMMA IdleRelies ==
    ASSUME NEW r \in Requests, request'[r] = Idle
    PROVE  RequestInv(r)'
BY DEF RequestInv, SignupInv, ChangeInv, LoginInv, Idle

LEMMA BecomesIdle ==
    ASSUME IInv, NEW r \in Requests, Becomes(r, Idle), UNCHANGED <<account, keys, firm>>
    PROVE  IInv'
<1>1. request'[r] = Idle /\ Idle \in RequestState
  BY DEF IInv, TypeOK, Becomes, RequestState
<1>. QED  BY <1>1, IdleRelies, OnlyRequest DEF Becomes

----------------------------------------------------------------------------
(* Every step preserves the invariant.                                     *)

LEMMA SignupLooksPreserves ==
    ASSUME IInv, NEW r \in Requests, NEW e \in Emails, NEW base \in Bases, SignupLooks(r, e, base)
    PROVE  IInv'
<1>. DEFINE state == [at |-> "name", email |-> e, base |-> base, n |-> 1, seen |-> Known]
<1>1. state \in RequestState
  BY DEF RequestState, SignupState, Known
<1>2. request' = [request EXCEPT ![r] = state] /\ UNCHANGED <<account, keys, firm>>
  BY DEF SignupLooks, Becomes
<1>3. request'[r] = state
  BY <1>2 DEF IInv, TypeOK
<1>4. SignupInv(r)'
  BY <1>2, <1>3 DEF SignupInv, SignupLooks, Known
<1>5. RequestInv(r)'
  BY <1>3, <1>4 DEF RequestInv, ChangeInv, LoginInv
<1>. QED  BY <1>1, <1>2, <1>5, OnlyRequest

\* What a signup in search of a name, or about to insert, is known to carry.
LEMMA Searching ==
    ASSUME IInv, NEW r \in Requests, request[r].at \in {"name", "insert"}
    PROVE  request[r] \in SignupState /\ SignupInv(r)
BY Shape DEF IInv, TypeOK, RequestInv

LEMMA NameFreePreserves ==
    ASSUME IInv, NEW r \in Requests, NameFree(r)
    PROVE  IInv'
<1>. DEFINE state == [request[r] EXCEPT !.at = "insert"]
<1>1. request[r] \in SignupState /\ SignupInv(r) /\ request[r].at = "name"
  BY Searching DEF NameFree
<1>2. state \in RequestState /\ state.at = "insert" /\ state.n = request[r].n
      /\ state.base = request[r].base /\ state.seen = request[r].seen
      /\ state.email = request[r].email
  BY <1>1 DEF RequestState, SignupState
<1>3. request' = [request EXCEPT ![r] = state] /\ UNCHANGED <<account, keys, firm>>
  BY DEF NameFree
<1>4. request'[r] = state
  BY <1>3 DEF IInv, TypeOK
<1>5. SignupInv(r)'
  <2>1. \A e \in request[r].seen : Username(e) # Candidate(request[r].base, request[r].n)
    BY <1>1 DEF NameFree, Taken, SignupInv
  <2>2. Known' = Known /\ (\A e : Username(e)' = Username(e)) /\ (\A name : Taken(name)' = Taken(name))
    BY <1>3 DEF Known, Username, Taken
  <2>. QED  BY <1>1, <1>2, <1>4, <2>1, <2>2 DEF SignupInv
<1>6. RequestInv(r)'
  BY <1>2, <1>4, <1>5 DEF RequestInv, ChangeInv, LoginInv
<1>. QED  BY <1>2, <1>3, <1>6, OnlyRequest

LEMMA NameTakenPreserves ==
    ASSUME IInv, NEW r \in Requests, NameTaken(r)
    PROVE  IInv'
<1>. DEFINE state == [request[r] EXCEPT !.n = @ + 1]
<1>1. request[r] \in SignupState /\ SignupInv(r) /\ request[r].at = "name"
  BY Searching DEF NameTaken
<1>2. state \in RequestState /\ state.at = "name" /\ state.n = request[r].n + 1
      /\ state.base = request[r].base /\ state.seen = request[r].seen
      /\ state.email = request[r].email
  BY <1>1 DEF RequestState, SignupState
<1>3. request' = [request EXCEPT ![r] = state] /\ UNCHANGED <<account, keys, firm>>
  BY DEF NameTaken
<1>4. request'[r] = state
  BY <1>3 DEF IInv, TypeOK
<1>5. SignupInv(r)'
  <2>1. \A k \in 1..(state.n - 1) : Taken(Candidate(request[r].base, k))
    <3>1. request[r].n \in Nat \ {0}
      BY <1>1 DEF SignupState
    <3>2. \A k \in 1..(state.n - 1) : k \in 1..(request[r].n - 1) \/ k = request[r].n
      BY <1>2, <3>1
    <3>. QED  BY <1>1, <3>2 DEF NameTaken, SignupInv
  <2>2. Known' = Known /\ (\A name : Taken(name)' = Taken(name))
    BY <1>3 DEF Known, Username, Taken
  <2>. QED  BY <1>1, <1>2, <1>4, <2>1, <2>2 DEF SignupInv
<1>6. RequestInv(r)'
  BY <1>2, <1>4, <1>5 DEF RequestInv, ChangeInv, LoginInv
<1>. QED  BY <1>2, <1>3, <1>6, OnlyRequest

\* A new account takes no name of another's, and its counter has all those
\* before it.
LEMMA InsertsPreserves ==
    ASSUME IInv, NEW r \in Requests, Inserts(r)
    PROVE  IInv'
<1>. DEFINE e0 == request[r].email
            base == request[r].base
            n == request[r].n
<1>1. request[r] \in SignupState /\ SignupInv(r) /\ request[r].at = "insert"
  BY Searching DEF Inserts
<1>2. e0 \in Emails /\ base \in Bases /\ n \in Nat \ {0}
  BY <1>1 DEF SignupState
<1>3. PICK p \in Passwords :
        /\ account' = [account EXCEPT ![e0] = [base |-> base, n |-> n, password |-> p]]
        /\ firm' = [firm EXCEPT ![e0] = p]
  BY DEF Inserts
<1>. DEFINE row == [base |-> base, n |-> n, password |-> p]
<1>4. row \in Account /\ row # None
  BY <1>2, NoneAssumption DEF Account
<1>5. e0 \notin Known /\ ~Taken(Candidate(base, n)) /\ UNCHANGED keys
      /\ request' = [request EXCEPT ![r] = Idle]
  BY DEF Inserts, Becomes
<1>6. account'[e0] = row /\ (\A e \in Emails \ {e0} : account'[e] = account[e])
  BY <1>2, <1>3 DEF IInv, TypeOK
<1>7. Known' = Known \cup {e0}
  BY <1>2, <1>4, <1>5, <1>6 DEF Known
<1>8. \A e \in Known : e \in Emails \ {e0}
  BY <1>5 DEF Known
<1>9. Onward
  BY <1>5, <1>6, <1>7, <1>8 DEF Onward, keys
<1>10. \A e : e = e0 => Username(e)' = Candidate(base, n)
  BY <1>6 DEF Username
<1>11. TypeOK'
  <2>1. account' \in [Emails -> Account \cup {None}]
    BY <1>2, <1>3, <1>4 DEF IInv, TypeOK
  <2>2. request' \in [Requests -> RequestState]
    BY <1>5 DEF IInv, TypeOK, RequestState
  <2>3. firm' \in [Emails -> Passwords \cup {None}]
    BY <1>2, <1>3 DEF IInv, TypeOK
  <2>4. UsernamesUnique'
    <3>. SUFFICES ASSUME NEW e1 \in Known', NEW e2 \in Known', Username(e1)' = Username(e2)'
                  PROVE  e1 = e2
      BY DEF UsernamesUnique
    <3>1. CASE e1 \in Known /\ e2 \in Known
      BY <3>1, <1>8, <1>9, NamesStay DEF IInv, TypeOK, UsernamesUnique
    <3>2. CASE e1 \in Known /\ e2 = e0
      BY <3>2, <1>5, <1>9, <1>10, NamesStay DEF Taken
    <3>3. CASE e1 = e0 /\ e2 \in Known
      BY <3>3, <1>5, <1>9, <1>10, NamesStay DEF Taken
    <3>. QED  BY <1>7, <3>1, <3>2, <3>3
  <2>. QED  BY <1>5, <2>1, <2>2, <2>3, <2>4 DEF IInv, TypeOK, keys
<1>12. CountersDense'
  <2>1. ASSUME NEW e \in Known, NEW k \in 1..(account[e].n - 1)
        PROVE  \E e1 \in Known' : Username(e1)' = Candidate(account[e].base, k)
    <3>1. PICK e1 \in Known : Username(e1) = Candidate(account[e].base, k)
      BY DEF IInv, CountersDense, Taken
    <3>. QED  BY <1>9, <3>1, NamesStay DEF Onward
  <2>2. ASSUME NEW k \in 1..(n - 1)
        PROVE  \E e1 \in Known' : Username(e1)' = Candidate(base, k)
    <3>1. PICK e1 \in Known : Username(e1) = Candidate(base, k)
      BY <1>1 DEF SignupInv, Taken
    <3>. QED  BY <1>9, <3>1, NamesStay DEF Onward
  <2>3. \A e \in Known : account'[e] = account[e]
    BY <1>6, <1>8
  <2>. QED  BY <1>6, <1>7, <2>1, <2>2, <2>3 DEF CountersDense, Taken
<1>13. FirmInv'
  <2>1. firm'[e0] = p /\ (\A e \in Emails \ {e0} : firm'[e] = firm[e])
    BY <1>2, <1>3 DEF IInv, TypeOK
  <2>. QED  BY <1>6, <1>7, <2>1 DEF IInv, FirmInv
<1>14. ASSUME NEW q \in Requests
       PROVE  RequestInv(q)'
  <2>1. CASE q = r
    BY <1>5, <2>1, IdleRelies DEF IInv, TypeOK
  <2>2. CASE q # r
    <3>1. request'[q] = request[q]
      BY <1>5, <2>2 DEF IInv, TypeOK
    <3>2. request[q].at = "change" => firm'[request[q].email] = None
      BY <1>3, <1>5, <1>8 DEF IInv, RequestInv, ChangeInv, TypeOK
    <3>. QED  BY <1>9, <3>1, <3>2, Bystander DEF IInv
  <2>. QED  BY <2>1, <2>2
<1>. QED  BY <1>11, <1>12, <1>13, <1>14 DEF IInv

\* The new password is not firm before it is written.
LEMMA ChangeBeginsPreserves ==
    ASSUME IInv, NEW r \in Requests, NEW e \in Emails, NEW new \in Passwords,
           ChangeBegins(r, e, new)
    PROVE  IInv'
<1>. DEFINE state == [at |-> "change", email |-> e, new |-> new]
<1>1. /\ state \in RequestState /\ e \in Known
      /\ request' = [request EXCEPT ![r] = state] /\ UNCHANGED <<account, keys>>
      /\ firm' = [firm EXCEPT ![e] = None]
  BY DEF ChangeBegins, Becomes, RequestState, ChangeState
<1>2. Onward /\ Known' = Known
  BY <1>1, NothingWritten
<1>3. TypeOK'
  BY <1>1 DEF IInv, TypeOK, keys, UsernamesUnique, Known, Username
<1>4. CountersDense'
  BY <1>2, DenseKept DEF IInv
<1>5. FirmInv'
  BY <1>1, <1>2 DEF IInv, FirmInv, TypeOK
<1>6. ASSUME NEW q \in Requests
      PROVE  RequestInv(q)'
  <2>1. CASE q = r
    <3>1. request'[q] = state /\ firm'[e] = None
      BY <1>1, <2>1 DEF IInv, TypeOK
    <3>. QED  BY <1>1, <1>2, <3>1 DEF RequestInv, SignupInv, ChangeInv, LoginInv
  <2>2. CASE q # r
    <3>1. request'[q] = request[q]
      BY <1>1, <2>2 DEF IInv, TypeOK
    <3>2. request[q].at = "change" => firm'[request[q].email] = None
      BY <1>1 DEF IInv, RequestInv, ChangeInv, Known, TypeOK
    <3>. QED  BY <1>2, <3>1, <3>2, Bystander DEF IInv
  <2>. QED  BY <2>1, <2>2
<1>. QED  BY <1>3, <1>4, <1>5, <1>6 DEF IInv

\* The password written is firm if no other change of it is under way.
LEMMA ChangesPreserves ==
    ASSUME IInv, NEW r \in Requests, Changes(r)
    PROVE  IInv'
<1>. DEFINE e0 == request[r].email
            new == request[r].new
            row == [account[e0] EXCEPT !.password = new]
<1>1. request[r] \in ChangeState /\ request[r].at = "change" /\ e0 \in Known /\ new \in Passwords
  BY Shape DEF IInv, TypeOK, RequestInv, ChangeInv, Changes, ChangeState
<1>2. /\ account' = [account EXCEPT ![e0] = row]
      /\ firm' = [firm EXCEPT ![e0] = IF Changing(e0) = {r} THEN new ELSE None]
      /\ request' = [request EXCEPT ![r] = Idle] /\ UNCHANGED keys
  BY DEF Changes, Confirmed, Becomes
<1>3. account[e0] \in Account /\ e0 \in Emails
  BY <1>1, KnownIsAccount DEF IInv
<1>4. row \in Account /\ row # None /\ row.base = account[e0].base /\ row.n = account[e0].n
      /\ row.password = new
  BY <1>1, <1>3, NoneAssumption DEF Account
<1>5. account'[e0] = row /\ (\A e \in Emails \ {e0} : account'[e] = account[e])
  BY <1>2, <1>3 DEF IInv, TypeOK
<1>6. Known' = Known
  BY <1>1, <1>4, <1>5 DEF Known
<1>7. \A e \in Known : account'[e].base = account[e].base /\ account'[e].n = account[e].n
  BY <1>4, <1>5 DEF Known
<1>8. Onward
  BY <1>2, <1>6, <1>7 DEF Onward, keys
<1>9. firm'[e0] = (IF Changing(e0) = {r} THEN new ELSE None)
      /\ (\A e \in Emails \ {e0} : firm'[e] = firm[e])
  BY <1>2, <1>3 DEF IInv, TypeOK
<1>10. TypeOK'
  <2>1. account' \in [Emails -> Account \cup {None}]
    BY <1>2, <1>4 DEF IInv, TypeOK
  <2>2. request' \in [Requests -> RequestState]
    BY <1>2 DEF IInv, TypeOK, RequestState
  <2>3. firm' \in [Emails -> Passwords \cup {None}]
    BY <1>1, <1>2 DEF IInv, TypeOK
  <2>4. UsernamesUnique'
    BY <1>6, <1>8, NamesStay DEF IInv, TypeOK, UsernamesUnique
  <2>. QED  BY <1>2, <2>1, <2>2, <2>3, <2>4 DEF IInv, TypeOK, keys
<1>11. CountersDense'
  BY <1>6, <1>8, DenseKept DEF IInv
<1>12. FirmInv'
  BY <1>1, <1>4, <1>5, <1>6, <1>9 DEF IInv, FirmInv
<1>13. ASSUME NEW q \in Requests
       PROVE  RequestInv(q)'
  <2>1. CASE q = r
    BY <1>2, <2>1, IdleRelies DEF IInv, TypeOK
  <2>2. CASE q # r
    <3>1. request'[q] = request[q]
      BY <1>2, <2>2 DEF IInv, TypeOK
    <3>2. request[q].at = "change" => firm'[request[q].email] = None
      <4>1. CASE request[q].at = "change" /\ request[q].email = e0
        BY <1>9, <2>2, <4>1 DEF Changing
      <4>2. CASE request[q].at = "change" /\ request[q].email # e0
        BY <1>9, <4>2 DEF IInv, RequestInv, ChangeInv, Known
      <4>. QED  BY <4>1, <4>2
    <3>. QED  BY <1>8, <3>1, <3>2, Bystander DEF IInv
  <2>. QED  BY <2>1, <2>2
<1>. QED  BY <1>10, <1>11, <1>12, <1>13 DEF IInv

LEMMA LoginBeginsPreserves ==
    ASSUME IInv, NEW r \in Requests, NEW e \in Emails, NEW given \in Passwords,
           LoginBegins(r, e, given)
    PROVE  IInv'
<1>. DEFINE state == [at |-> "login", email |-> e, given |-> given,
                      stored |-> account[e].password, promised |-> firm[e]]
<1>1. request' = [request EXCEPT ![r] = state] /\ UNCHANGED <<account, keys, firm>> /\ e \in Known
  BY DEF LoginBegins, Becomes
<1>2. account[e].password \in Passwords /\ firm[e] \in Passwords \cup {None}
  BY <1>1, KnownIsAccount DEF IInv, TypeOK, Account
<1>3. state \in RequestState
  BY <1>2 DEF RequestState, LoginState
<1>4. request'[r] = state
  BY <1>1 DEF IInv, TypeOK
<1>5. firm[e] \in {None, account[e].password}
  BY DEF IInv, FirmInv
<1>6. RequestInv(r)'
  BY <1>4, <1>5 DEF RequestInv, SignupInv, ChangeInv, LoginInv
<1>. QED  BY <1>1, <1>3, <1>6, OnlyRequest

LEMMA LoginAnswersPreserves ==
    ASSUME IInv, NEW r \in Requests, LoginAnswers(r)
    PROVE  IInv'
<1>. DEFINE answer == IF request[r].given = request[r].stored THEN "in" ELSE "out"
            state == [request[r] EXCEPT !.at = answer]
<1>1. request[r] \in LoginState /\ LoginInv(r) /\ request[r].at = "login"
  BY Shape DEF IInv, TypeOK, RequestInv, LoginAnswers
<1>2. state \in RequestState /\ state.at = answer /\ state.given = request[r].given
      /\ state.stored = request[r].stored /\ state.promised = request[r].promised
  BY <1>1 DEF RequestState, LoginState
<1>3. request' = [request EXCEPT ![r] = state] /\ UNCHANGED <<account, keys, firm>>
  BY DEF LoginAnswers
<1>4. request'[r] = state
  BY <1>3 DEF IInv, TypeOK
<1>5. RequestInv(r)'
  BY <1>1, <1>2, <1>4 DEF RequestInv, SignupInv, ChangeInv, LoginInv
<1>. QED  BY <1>2, <1>3, <1>5, OnlyRequest

----------------------------------------------------------------------------

\* Keys come and go under the hands of all requests.
LEMMA KeysChange ==
    ASSUME IInv, Onward, TypeOK', UNCHANGED <<account, request, firm>>
    PROVE  IInv'
<1>1. Known' = Known
  BY DEF Known
<1>2. CountersDense'
  BY <1>1, DenseKept DEF IInv
<1>3. FirmInv'
  BY <1>1 DEF IInv, FirmInv
<1>4. ASSUME NEW q \in Requests
      PROVE  RequestInv(q)'
  <2>1. request[q].at = "change" => firm'[request[q].email] = None
    BY DEF IInv, RequestInv, ChangeInv
  <2>. QED  BY <2>1, Bystander DEF IInv
<1>. QED  BY <1>2, <1>3, <1>4 DEF IInv

LEMMA CreateApiKeyPreserves ==
    ASSUME IInv, NEW e \in Emails, NEW k \in Keys, CreateApiKey(e, k)
    PROVE  IInv'
<1>1. TypeOK'
  BY NoneAssumption DEF IInv, TypeOK, CreateApiKey, UsernamesUnique, Known, Username
<1>2. Onward
  BY NoneAssumption DEF IInv, TypeOK, CreateApiKey, Onward, Known
<1>. QED  BY <1>1, <1>2, KeysChange DEF CreateApiKey

LEMMA RevokeApiKeyPreserves ==
    ASSUME IInv, NEW e \in Emails, NEW k \in Keys, RevokeApiKey(e, k)
    PROVE  IInv'
<1>1. TypeOK'
  BY DEF IInv, TypeOK, RevokeApiKey, UsernamesUnique, Known, Username
<1>2. Onward
  BY DEF RevokeApiKey, Onward, Known
<1>. QED  BY <1>1, <1>2, KeysChange DEF RevokeApiKey

LEMMA KeyArrivesPreserves ==
    ASSUME IInv, NEW r \in Requests, NEW k \in Keys, KeyArrives(r, k)
    PROVE  IInv'
<1>1. PICK right \in BOOLEAN : Becomes(r, [at |-> "key", key |-> k, right |-> right])
  BY DEF KeyArrives
<1>. DEFINE state == [at |-> "key", key |-> k, right |-> right]
<1>2. request' = [request EXCEPT ![r] = state] /\ UNCHANGED <<account, keys, firm>>
  BY <1>1 DEF KeyArrives, Becomes
<1>3. state \in RequestState
  BY DEF RequestState, KeyState
<1>4. request'[r] = state
  BY <1>2 DEF IInv, TypeOK
<1>5. RequestInv(r)'
  BY <1>4 DEF RequestInv, SignupInv, ChangeInv, LoginInv
<1>. QED  BY <1>2, <1>3, <1>5, OnlyRequest

LEMMA KeyGoesOnPreserves ==
    ASSUME IInv, NEW r \in Requests, KeyFound(r) \/ KeyAccepted(r)
    PROVE  IInv'
<1>1. request[r] \in KeyState
  BY Shape DEF IInv, TypeOK, KeyFound, KeyAccepted
<1>2. PICK at \in {"secret", "accepted"} : request' = [request EXCEPT ![r].at = at]
  BY DEF KeyFound, KeyAccepted
<1>. DEFINE state == [request[r] EXCEPT !.at = at]
<1>3. state \in RequestState /\ state.at \in {"secret", "accepted"}
  BY <1>1, <1>2 DEF RequestState, KeyState
<1>4. request' = [request EXCEPT ![r] = state] /\ UNCHANGED <<account, keys, firm>>
  BY <1>2 DEF KeyFound, KeyAccepted
<1>5. request'[r] = state
  BY <1>4 DEF IInv, TypeOK
<1>6. RequestInv(r)'
  BY <1>3, <1>5 DEF RequestInv, SignupInv, ChangeInv, LoginInv
<1>. QED  BY <1>3, <1>4, <1>6, OnlyRequest

----------------------------------------------------------------------------
(* Theorems.                                                               *)

LEMMA Initially ==
    ASSUME Init
    PROVE  IInv
<1>1. Known = {}
  BY DEF Init, Known
<1>2. TypeOK
  BY <1>1 DEF Init, TypeOK, RequestState, UsernamesUnique
<1>3. \A r \in Requests : RequestInv(r)
  BY DEF Init, Idle, RequestInv, SignupInv, ChangeInv, LoginInv
<1>. QED  BY <1>1, <1>2, <1>3 DEF Init, IInv, CountersDense, FirmInv

LEMMA Step ==
    ASSUME IInv, [Next]_vars
    PROVE  IInv'
<1>1. ASSUME NEW r \in Requests, SignupStep(r)
      PROVE  IInv'
  <2>1. CASE InsertRefused(r)
    BY <2>1, BecomesIdle DEF InsertRefused
  <2>. QED  BY <1>1, <2>1, NameFreePreserves, NameTakenPreserves, InsertsPreserves DEF SignupStep
<1>2. ASSUME NEW r \in Requests, RequestEnds(r) \/ KeyRejected(r)
      PROVE  IInv'
  BY <1>2, BecomesIdle DEF RequestEnds, KeyRejected
<1>3. ASSUME NEW r \in Requests,
             Changes(r) \/ LoginAnswers(r) \/ KeyFound(r) \/ KeyAccepted(r)
      PROVE  IInv'
  BY <1>3, ChangesPreserves, LoginAnswersPreserves, KeyGoesOnPreserves
<1>4. ASSUME NEW r \in Requests, NEW e \in Emails, NEW base \in Bases, SignupLooks(r, e, base)
      PROVE  IInv'
  BY <1>4, SignupLooksPreserves
<1>5. ASSUME NEW r \in Requests, NEW e \in Emails, NEW p \in Passwords,
             ChangeBegins(r, e, p) \/ LoginBegins(r, e, p)
      PROVE  IInv'
  BY <1>5, ChangeBeginsPreserves, LoginBeginsPreserves
<1>6. ASSUME NEW r \in Requests, NEW k \in Keys, KeyArrives(r, k)
      PROVE  IInv'
  BY <1>6, KeyArrivesPreserves
<1>7. ASSUME NEW e \in Emails, NEW k \in Keys, CreateApiKey(e, k) \/ RevokeApiKey(e, k)
      PROVE  IInv'
  BY <1>7, CreateApiKeyPreserves, RevokeApiKeyPreserves
<1>8. CASE UNCHANGED vars
  <2>1. UNCHANGED <<account, keys, request, firm>>
    BY <1>8 DEF vars
  <2>2. TypeOK'
    BY <2>1 DEF IInv, TypeOK, keys, UsernamesUnique, Known, Username
  <2>. QED  BY <2>1, <2>2, NothingWritten, KeysChange
<1>. QED  BY <1>1, <1>2, <1>3, <1>4, <1>5, <1>6, <1>7, <1>8 DEF Next

THEOREM Invariant == Spec => []IInv
<1>1. Init => IInv
  BY Initially
<1>2. IInv /\ [Next]_vars => IInv'
  BY Step
<1>. QED  BY <1>1, <1>2, PTL DEF Spec

\* Accounts, keys and requests keep their types, and no two accounts have one
\* username, whatever signups overlap.
THEOREM TypeCorrect == Spec => []TypeOK
<1>1. IInv => TypeOK
  BY DEF IInv
<1>. QED  BY <1>1, Invariant, PTL

\* Counters of usernames have no gaps, for any number of overlapping signups.
THEOREM UsernamesAreDense == Spec => []CountersDense
<1>1. IInv => CountersDense
  BY DEF IInv
<1>. QED  BY <1>1, Invariant, PTL

\* No insertion is refused over an account that was there when its signup
\* began.
THEOREM RacesOnly == Spec => []OnlyRacesCollide
<1>1. IInv => OnlyRacesCollide
  BY Searching DEF IInv, OnlyRacesCollide, SignupInv
<1>. QED  BY <1>1, Invariant, PTL

\* A confirmed password is what logins are answered by, for any number of
\* overlapping requests.
THEOREM ConfirmedPasswordsHold == Spec => []ConfirmedHolds
<1>1. IInv => ConfirmedHolds
  BY DEF IInv, RequestInv, LoginInv, ConfirmedHolds
<1>. QED  BY <1>1, Invariant, PTL

----------------------------------------------------------------------------
(* The search for a username is bounded.                                   *)

\* A signup has tried no more usernames than there are accounts.
SearchBounded ==
    \A r \in Requests : request[r].at \in {"name", "insert"} =>
        request[r].n <= Cardinality(Known) + 1

\* A username with a counter is no other one of the same name.
LEMMA CandidatesDiffer ==
    ASSUME Bases \subseteq Seq(STRING \cup Nat), NEW b \in Bases,
           NEW m \in Nat \ {0}, NEW n \in Nat \ {0}, m # n
    PROVE  Candidate(b, m) # Candidate(b, n)
<1>. DEFINE S == STRING \cup Nat
<1>1. b \in Seq(S)
  OBVIOUS
<1>2. ASSUME NEW k \in Nat
      PROVE  /\ Len(Append(b, k)) = Len(b) + 1
             /\ Append(b, k)[Len(b) + 1] = k
  <2>1. k \in S
    OBVIOUS
  <2>. HIDE DEF S
  <2>. QED  BY <1>1, <2>1
<1>3. Len(b) \in Nat /\ Len(b) # Len(b) + 1
  BY <1>1
<1>4. m \in Nat /\ n \in Nat
  OBVIOUS
<1>. HIDE DEF S
<1>5. CASE m = 1
  BY <1>2, <1>3, <1>4, <1>5 DEF Candidate
<1>6. CASE n = 1
  BY <1>2, <1>3, <1>4, <1>6 DEF Candidate
<1>7. CASE m # 1 /\ n # 1
  BY <1>2, <1>4, <1>7 DEF Candidate
<1>. QED  BY <1>5, <1>6, <1>7

\* generateUniqueUsername looks at most once more than there are accounts,
\* however many signups overtake it: its search for a free username ends if the
\* accounts are finitely many.  This is the safety part of SignupsEnd.
THEOREM SearchIsBounded ==
    ASSUME IsFiniteSet(Emails), Bases \subseteq Seq(STRING \cup Nat)
    PROVE  Spec => []SearchBounded
<1>1. IInv => SearchBounded
  <2>. SUFFICES ASSUME IInv, NEW r \in Requests, request[r].at \in {"name", "insert"}
                PROVE  request[r].n <= Cardinality(Known) + 1
    BY DEF SearchBounded
  <2>. DEFINE b == request[r].base
              n == request[r].n
              tried == 1..(n - 1)
              holder == [k \in tried |-> CHOOSE e \in Known : Username(e) = Candidate(b, k)]
  <2>1. b \in Bases /\ n \in Nat \ {0}
    BY Shape DEF IInv, TypeOK, SignupState
  <2>2. \A k \in tried : \E e \in Known : Username(e) = Candidate(b, k)
    BY DEF IInv, RequestInv, SignupInv, Taken
  <2>. HIDE DEF b, n
  <2>3. \A k \in tried : holder[k] \in Known /\ Username(holder[k]) = Candidate(b, k)
    BY <2>2
  <2>4. holder \in [tried -> Known]
    BY <2>3
  <2>5. IsFiniteSet(Known) /\ Cardinality(Known) \in Nat
    BY FS_Subset, FS_CardinalityType DEF Known
  <2>6. IsFiniteSet(tried) /\ Cardinality(tried) = n - 1
    <3>1. n - 1 \in Nat
      BY <2>1
    <3>. QED  BY <2>1, <3>1, FS_Interval
  <2>7. ASSUME Cardinality(Known) < n - 1
        PROVE  FALSE
    <3>. HIDE DEF holder
    <3>1. PICK k \in tried, m \in tried : k # m /\ holder[k] = holder[m]
      <4>. HIDE DEF tried
      <4>. QED  BY <2>4, <2>5, <2>6, <2>7, FS_PigeonHole
    <3>2. k \in Nat \ {0} /\ m \in Nat \ {0}
      BY <2>1
    <3>3. Candidate(b, k) = Candidate(b, m)
      BY <2>3, <3>1
    <3>. QED  BY <2>1, <3>1, <3>2, <3>3, CandidatesDiffer
  <2>8. n <= Cardinality(Known) + 1
    BY <2>1, <2>5, <2>7
  <2>. QED  BY <2>8 DEF n
<1>. QED  BY <1>1, Invariant, PTL
=============================================================================
