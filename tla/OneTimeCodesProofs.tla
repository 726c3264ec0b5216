------------------------ MODULE OneTimeCodesProofs -------------------------
(***************************************************************************)
(* Theorems about OneTimeCodes, for any subscriptions and merchants and    *)
(* any number of codes and overlapping requests.                           *)
(***************************************************************************)
EXTENDS OneTimeCodes, TLAPS

----------------------------------------------------------------------------
(* The inductive invariant.                                                *)

\* A check has found its code and not ended.
InHand(r) == check[r].at \in {"found", "acted", "dropped"}

Pending(r) == ask[r].at \in {"asked", "cleared"}

\* A code not yet drawn is nowhere.
FreshUnused ==
    \A c \in Codes : owner[c] = None =>
        /\ c \notin rows \cup known \cup accepted
        /\ spent[c] = 0
        /\ \A r \in Asks : ask[r].at = "stored" => ask[r].code # c
        /\ \A r \in Checks : check[r].at # "idle" => check[r].code # c

\* A code that is not shared is in at most one hand, and what it has brought
\* follows from where that hand is; in no hand, a spent code is deleted.
HandsApart ==
    \A c \in Codes \ shared :
        /\ \A q, r \in Checks :
              InHand(q) /\ InHand(r) /\ check[q].code = c /\ check[r].code = c => q = r
        /\ \A r \in Checks : InHand(r) /\ check[r].code = c =>
              spent[c] = IF check[r].at = "acted" THEN 1 ELSE 0
        /\ \A r \in Checks : check[r].at = "dropped" /\ check[r].code = c => c \notin rows
        /\ spent[c] <= 1
        /\ spent[c] > 0 =>
              c \notin rows \/ \E r \in Checks : check[r].at = "acted" /\ check[r].code = c

\* A holder that is not crowded has one request between its start and the
\* insertion, and no code left once that request has deleted.
AsksApart ==
    \A h \in Holders \ crowded :
        /\ \A q, r \in Asks :
              Pending(q) /\ Pending(r) /\ ask[q].who = h /\ ask[r].who = h => q = r
        /\ \A r \in Asks : \A c \in rows :
              ask[r].at = "cleared" /\ ask[r].who = h => owner[c] # h
        /\ \A c, d \in rows : owner[c] = h /\ owner[d] = h => c = d

\* Only a request that has announced itself, or a check that has accepted the
\* code, can take a code away.
Kept ==
    /\ \A c \in Codes \ (stale \cup accepted) :
          owner[c] # None /\ Exists(owner[c]) => c \in rows
    /\ \A r \in Asks : \A c \in Codes :
          ask[r].at = "asked" /\ owner[c] = ask[r].who => c \in stale
    /\ \A r \in Checks : InHand(r) => check[r].code \in accepted

----------------------------------------------------------------------------
(* Every step preserves it.                                                *)

LEMMA CheckMoves ==
    ASSUME TypeOK, NEW r \in Checks, NEW place \in CheckState, check[r].at # "idle",
           CheckGoto(r, place)
    PROVE  /\ check' \in [Checks -> [at : CheckState, who : Holders \cup {None}, code : Codes \cup {None}]]
           /\ check'[r].at = place /\ check'[r].who = check[r].who /\ check'[r].code = check[r].code
           /\ check[r].who \in Holders /\ check[r].code \in Codes
           /\ \A q \in Checks : q # r => check'[q] = check[q]
BY DEF TypeOK, CheckGoto

LEMMA TypeStep ==
    ASSUME TypeOK, [Next]_vars
    PROVE  TypeOK'
<1>. USE NamesAssumption DEF Holders
<1>1. ASSUME NEW r \in Asks, NEW h \in Holders, AskBegins(r, h)
      PROVE  TypeOK'
  BY <1>1 DEF AskBegins, TypeOK, AskState, CheckState, Idle, CodesOf, facts
<1>2. ASSUME NEW r \in Asks, AskClears(r)
      PROVE  TypeOK'
  BY <1>2 DEF AskClears, AskGoto, TypeOK, AskState, CheckState, Idle, CodesOf, facts
<1>3. ASSUME NEW r \in Asks, AskStores(r)
      PROVE  TypeOK'
  BY <1>3 DEF AskStores, AskGoto, TypeOK, AskState, CheckState, Idle, CodesOf, facts
<1>4. ASSUME NEW r \in Asks, AskMails(r)
      PROVE  TypeOK'
  BY <1>4 DEF AskMails, AskGoto, TypeOK, AskState, CheckState, Idle, CodesOf, facts
<1>5. ASSUME NEW r \in Asks, AskFails(r)
      PROVE  TypeOK'
  BY <1>5 DEF AskFails, AskGoto, TypeOK, AskState, CheckState, Idle, CodesOf, facts
<1>6. ASSUME NEW r \in Checks, NEW h \in Holders, NEW c \in Codes, CheckBegins(r, h, c)
      PROVE  TypeOK'
  BY <1>6 DEF CheckBegins, TypeOK, AskState, CheckState, Idle, CodesOf, facts
<1>7. ASSUME NEW r \in Checks, CheckRejects(r)
      PROVE  TypeOK'
  BY <1>7 DEF CheckRejects, CheckGoto, CheckEnds, Valid, Spend, TypeOK, AskState, CheckState, Idle, CodesOf, facts
<1>8. ASSUME NEW r \in Checks, CheckFinds(r)
      PROVE  TypeOK'
  BY <1>8 DEF CheckFinds, CheckGoto, CheckEnds, Valid, Spend, TypeOK, AskState, CheckState, Idle, CodesOf, facts
<1>9. ASSUME NEW r \in Checks, CheckCancels(r)
      PROVE  TypeOK'
  BY <1>9 DEF CheckCancels, CheckGoto, CheckEnds, Valid, Spend, TypeOK, AskState, CheckState, Idle, CodesOf, facts
<1>10. ASSUME NEW r \in Checks, CheckDrops(r)
      PROVE  TypeOK'
  <2>1. CASE check[r].at = "acted"
    <3>1. expired' \subseteq rows' /\ rows' \subseteq Codes
      BY <1>10 DEF CheckDrops, TypeOK
    <3>2. UNCHANGED <<status, owner, known, ask, facts, stale, crowded>> /\ CheckEnds(r)
      BY <1>10, <2>1 DEF CheckDrops
    <3>3. /\ check' \in [Checks -> [at : CheckState, who : Holders \cup {None}, code : Codes \cup {None}]]
          /\ \A q \in Checks : check'[q].at # "idle" => check'[q] = check[q]
      BY <3>2 DEF CheckEnds, Idle, CheckState, TypeOK
    <3>. QED
      BY <3>1, <3>2, <3>3 DEF TypeOK, facts
  <2>2. CASE check[r].at = "found" /\ check[r].who \in Merchants
    <3>1. CheckGoto(r, "dropped") /\ rows' = rows \ {check[r].code}
      BY <1>10, <2>2 DEF CheckDrops
    <3>2. UNCHANGED <<status, owner, known, ask, facts, stale, crowded>>
      BY <1>10 DEF CheckDrops
    <3>3. expired' \subseteq rows'
      BY <1>10, <3>1 DEF CheckDrops, TypeOK
    <3>4. "dropped" \in CheckState /\ check[r].at # "idle"
      BY <2>2 DEF CheckState
    <3>5. check' \in [Checks -> [at : CheckState, who : Holders \cup {None}, code : Codes \cup {None}]]
      BY <3>1, <3>4, CheckMoves
    <3>6. \A q \in Checks : check'[q].at # "idle" => check'[q].who \in Holders /\ check'[q].code \in Codes
      BY <3>1, <3>4, CheckMoves DEF TypeOK
    <3>. QED
      BY <3>1, <3>2, <3>3, <3>5, <3>6 DEF TypeOK, facts
  <2>. QED
    BY <1>10, <2>1, <2>2 DEF CheckDrops
<1>11. ASSUME NEW r \in Checks, CheckSigns(r)
      PROVE  TypeOK'
  BY <1>11 DEF CheckSigns, CheckGoto, CheckEnds, Valid, Spend, TypeOK, AskState, CheckState, Idle, CodesOf, facts
<1>12. ASSUME NEW r \in Checks, CheckFails(r)
      PROVE  TypeOK'
  BY <1>12 DEF CheckFails, CheckGoto, CheckEnds, Valid, Spend, TypeOK, AskState, CheckState, Idle, CodesOf, facts
<1>13. ASSUME NEW c \in Codes, CodeExpires(c)
      PROVE  TypeOK'
  BY <1>13 DEF CodeExpires, TypeOK, AskState, CheckState, Idle, CodesOf, facts
<1>14. ASSUME NEW s \in Subs, StatusChanges(s)
      PROVE  TypeOK'
  BY <1>14 DEF StatusChanges, TypeOK, AskState, CheckState, Idle, CodesOf, facts
<1>15. ASSUME NEW s \in Subs, PlanDeleted(s)
      PROVE  TypeOK'
  BY <1>15 DEF PlanDeleted, TypeOK, AskState, CheckState, Idle, CodesOf, facts
<1>16. CASE UNCHANGED vars
  BY <1>16 DEF vars, TypeOK, AskState, CheckState, Idle, CodesOf, facts
<1>. QED
  BY <1>1, <1>2, <1>3, <1>4, <1>5, <1>6, <1>7, <1>8, <1>9, <1>10, <1>11, <1>12, <1>13, <1>14, <1>15, <1>16 DEF Next, AskStep, CheckStep

LEMMA FreshStep ==
    ASSUME TypeOK, FreshUnused, [Next]_vars
    PROVE  FreshUnused'
<1>. USE NamesAssumption DEF Holders
<1>1. ASSUME NEW r \in Asks, NEW h \in Holders, AskBegins(r, h)
      PROVE  FreshUnused'
  BY <1>1 DEF AskBegins, TypeOK, FreshUnused, AskState, CheckState, Idle, CodesOf, facts
<1>2. ASSUME NEW r \in Asks, AskClears(r)
      PROVE  FreshUnused'
  BY <1>2 DEF AskClears, AskGoto, TypeOK, FreshUnused, AskState, CheckState, Idle, CodesOf, facts
<1>3. ASSUME NEW r \in Asks, AskStores(r)
      PROVE  FreshUnused'
  BY <1>3 DEF AskStores, AskGoto, TypeOK, FreshUnused, AskState, CheckState, Idle, CodesOf, facts
<1>4. ASSUME NEW r \in Asks, AskMails(r)
      PROVE  FreshUnused'
  BY <1>4 DEF AskMails, AskGoto, TypeOK, FreshUnused, AskState, CheckState, Idle, CodesOf, facts
<1>5. ASSUME NEW r \in Asks, AskFails(r)
      PROVE  FreshUnused'
  BY <1>5 DEF AskFails, AskGoto, TypeOK, FreshUnused, AskState, CheckState, Idle, CodesOf, facts
<1>6. ASSUME NEW r \in Checks, NEW h \in Holders, NEW c \in Codes, CheckBegins(r, h, c)
      PROVE  FreshUnused'
  BY <1>6 DEF CheckBegins, TypeOK, FreshUnused, AskState, CheckState, Idle, CodesOf, facts
<1>7. ASSUME NEW r \in Checks, CheckRejects(r)
      PROVE  FreshUnused'
  BY <1>7 DEF CheckRejects, CheckGoto, CheckEnds, Valid, Spend, TypeOK, FreshUnused, AskState, CheckState, Idle, CodesOf, facts
<1>8. ASSUME NEW r \in Checks, CheckFinds(r)
      PROVE  FreshUnused'
  BY <1>8 DEF CheckFinds, CheckGoto, CheckEnds, Valid, Spend, TypeOK, FreshUnused, AskState, CheckState, Idle, CodesOf, facts
<1>9. ASSUME NEW r \in Checks, CheckCancels(r)
      PROVE  FreshUnused'
  BY <1>9 DEF CheckCancels, CheckGoto, CheckEnds, Valid, Spend, TypeOK, FreshUnused, AskState, CheckState, Idle, CodesOf, facts
<1>10. ASSUME NEW r \in Checks, CheckDrops(r)
      PROVE  FreshUnused'
  <2>1. /\ rows' = rows \ {check[r].code}
        /\ UNCHANGED <<status, owner, known, ask, spent, accepted, stale>>
    BY <1>10 DEF CheckDrops, facts
  <2>2. CASE check[r].at = "acted"
    BY <1>10, <2>1, <2>2 DEF CheckDrops, CheckEnds, TypeOK, FreshUnused, Idle
  <2>3. CASE check[r].at = "found" /\ CheckGoto(r, "dropped")
    BY <2>1, <2>3, CheckMoves DEF TypeOK, FreshUnused, Idle, CheckState
  <2>. QED
    BY <1>10, <2>2, <2>3 DEF CheckDrops
<1>11. ASSUME NEW r \in Checks, CheckSigns(r)
      PROVE  FreshUnused'
  BY <1>11 DEF CheckSigns, CheckGoto, CheckEnds, Valid, Spend, TypeOK, FreshUnused, AskState, CheckState, Idle, CodesOf, facts
<1>12. ASSUME NEW r \in Checks, CheckFails(r)
      PROVE  FreshUnused'
  BY <1>12 DEF CheckFails, CheckGoto, CheckEnds, Valid, Spend, TypeOK, FreshUnused, AskState, CheckState, Idle, CodesOf, facts
<1>13. ASSUME NEW c \in Codes, CodeExpires(c)
      PROVE  FreshUnused'
  BY <1>13 DEF CodeExpires, TypeOK, FreshUnused, AskState, CheckState, Idle, CodesOf, facts
<1>14. ASSUME NEW s \in Subs, StatusChanges(s)
      PROVE  FreshUnused'
  BY <1>14 DEF StatusChanges, TypeOK, FreshUnused, AskState, CheckState, Idle, CodesOf, facts
<1>15. ASSUME NEW s \in Subs, PlanDeleted(s)
      PROVE  FreshUnused'
  BY <1>15 DEF PlanDeleted, TypeOK, FreshUnused, AskState, CheckState, Idle, CodesOf, facts
<1>16. CASE UNCHANGED vars
  BY <1>16 DEF vars, TypeOK, FreshUnused, AskState, CheckState, Idle, CodesOf, facts
<1>. QED
  BY <1>1, <1>2, <1>3, <1>4, <1>5, <1>6, <1>7, <1>8, <1>9, <1>10, <1>11, <1>12, <1>13, <1>14, <1>15, <1>16 DEF Next, AskStep, CheckStep

LEMMA HandsStep ==
    ASSUME TypeOK, FreshUnused, HandsApart, [Next]_vars
    PROVE  HandsApart'
<1>. USE NamesAssumption DEF Holders
<1>1. ASSUME NEW r \in Asks, NEW h \in Holders, AskBegins(r, h)
      PROVE  HandsApart'
  BY <1>1 DEF AskBegins, TypeOK, FreshUnused, HandsApart, InHand, Idle, CodesOf, facts
<1>2. ASSUME NEW r \in Asks, AskClears(r)
      PROVE  HandsApart'
  BY <1>2 DEF AskClears, AskGoto, TypeOK, FreshUnused, HandsApart, InHand, Idle, CodesOf, facts
<1>3. ASSUME NEW r \in Asks, AskStores(r)
      PROVE  HandsApart'
  BY <1>3 DEF AskStores, AskGoto, TypeOK, FreshUnused, HandsApart, InHand, Idle, CodesOf, facts
<1>4. ASSUME NEW r \in Asks, AskMails(r)
      PROVE  HandsApart'
  BY <1>4 DEF AskMails, AskGoto, TypeOK, FreshUnused, HandsApart, InHand, Idle, CodesOf, facts
<1>5. ASSUME NEW r \in Asks, AskFails(r)
      PROVE  HandsApart'
  BY <1>5 DEF AskFails, AskGoto, TypeOK, FreshUnused, HandsApart, InHand, Idle, CodesOf, facts
<1>6. ASSUME NEW r \in Checks, NEW h \in Holders, NEW c \in Codes, CheckBegins(r, h, c)
      PROVE  HandsApart'
  BY <1>6 DEF CheckBegins, TypeOK, FreshUnused, HandsApart, InHand, Idle, CodesOf, facts
<1>7. ASSUME NEW r \in Checks, CheckRejects(r)
      PROVE  HandsApart'
  BY <1>7 DEF CheckRejects, CheckGoto, CheckEnds, Valid, Spend, TypeOK, FreshUnused, HandsApart, InHand, Idle, CodesOf, facts
<1>8. ASSUME NEW r \in Checks, CheckFinds(r)
      PROVE  HandsApart'
  BY <1>8 DEF CheckFinds, CheckGoto, CheckEnds, Valid, Spend, TypeOK, FreshUnused, HandsApart, InHand, Idle, CodesOf, facts
<1>9. ASSUME NEW r \in Checks, CheckCancels(r)
      PROVE  HandsApart'
  BY <1>9 DEF CheckCancels, CheckGoto, CheckEnds, Valid, Spend, TypeOK, FreshUnused, HandsApart, InHand, Idle, CodesOf, facts
<1>10. ASSUME NEW r \in Checks, CheckDrops(r)
      PROVE  HandsApart'
  <2>1. CASE check[r].at = "acted"
    <3>1. /\ rows' = rows \ {check[r].code}
          /\ UNCHANGED <<spent, shared>>
      BY <1>10 DEF CheckDrops, facts
    <3>2. ~InHand(r)' /\ check'[r].at = "idle" /\ \A q \in Checks : q # r => check'[q] = check[q]
      BY <1>10, <2>1 DEF CheckDrops, CheckEnds, Idle, TypeOK, InHand
    <3>3. spent \in [Codes -> 0..2]
      BY DEF TypeOK
    <3>. QED
      BY <2>1, <3>1, <3>2, <3>3 DEF HandsApart, InHand
  <2>2. CASE check[r].at = "found" /\ check[r].who \in Merchants
    <3>1. CheckGoto(r, "dropped") /\ rows' = rows \ {check[r].code}
      BY <1>10, <2>2 DEF CheckDrops
    <3>2. UNCHANGED <<status, owner, known, ask, facts, stale, crowded>>
      BY <1>10 DEF CheckDrops
    <3>. QED
      BY <2>2, <3>1, <3>2, CheckMoves DEF HandsApart, InHand, facts, CheckState
  <2>. QED
    BY <1>10, <2>1, <2>2 DEF CheckDrops
<1>11. ASSUME NEW r \in Checks, CheckSigns(r)
      PROVE  HandsApart'
  BY <1>11 DEF CheckSigns, CheckGoto, CheckEnds, Valid, Spend, TypeOK, FreshUnused, HandsApart, InHand, Idle, CodesOf, facts
<1>12. ASSUME NEW r \in Checks, CheckFails(r)
      PROVE  HandsApart'
  BY <1>12 DEF CheckFails, CheckGoto, CheckEnds, Valid, Spend, TypeOK, FreshUnused, HandsApart, InHand, Idle, CodesOf, facts
<1>13. ASSUME NEW c \in Codes, CodeExpires(c)
      PROVE  HandsApart'
  BY <1>13 DEF CodeExpires, TypeOK, FreshUnused, HandsApart, InHand, Idle, CodesOf, facts
<1>14. ASSUME NEW s \in Subs, StatusChanges(s)
      PROVE  HandsApart'
  BY <1>14 DEF StatusChanges, TypeOK, FreshUnused, HandsApart, InHand, Idle, CodesOf, facts
<1>15. ASSUME NEW s \in Subs, PlanDeleted(s)
      PROVE  HandsApart'
  BY <1>15 DEF PlanDeleted, TypeOK, FreshUnused, HandsApart, InHand, Idle, CodesOf, facts
<1>16. CASE UNCHANGED vars
  BY <1>16 DEF vars, TypeOK, FreshUnused, HandsApart, InHand, Idle, CodesOf, facts
<1>. QED
  BY <1>1, <1>2, <1>3, <1>4, <1>5, <1>6, <1>7, <1>8, <1>9, <1>10, <1>11, <1>12, <1>13, <1>14, <1>15, <1>16 DEF Next, AskStep, CheckStep

LEMMA AsksStep ==
    ASSUME TypeOK, FreshUnused, AsksApart, [Next]_vars
    PROVE  AsksApart'
<1>. USE NamesAssumption DEF Holders
<1>1. ASSUME NEW r \in Asks, NEW h \in Holders, AskBegins(r, h)
      PROVE  AsksApart'
  BY <1>1 DEF AskBegins, TypeOK, FreshUnused, AsksApart, Pending, OtherAsk, Idle, CodesOf, facts
<1>2. ASSUME NEW r \in Asks, AskClears(r)
      PROVE  AsksApart'
  BY <1>2 DEF AskClears, AskGoto, TypeOK, FreshUnused, AsksApart, Pending, OtherAsk, Idle, CodesOf, facts
<1>3. ASSUME NEW r \in Asks, AskStores(r)
      PROVE  AsksApart'
  BY <1>3 DEF AskStores, AskGoto, TypeOK, FreshUnused, AsksApart, Pending, OtherAsk, Idle, CodesOf, facts
<1>4. ASSUME NEW r \in Asks, AskMails(r)
      PROVE  AsksApart'
  BY <1>4 DEF AskMails, AskGoto, TypeOK, FreshUnused, AsksApart, Pending, OtherAsk, Idle, CodesOf, facts
<1>5. ASSUME NEW r \in Asks, AskFails(r)
      PROVE  AsksApart'
  BY <1>5 DEF AskFails, AskGoto, TypeOK, FreshUnused, AsksApart, Pending, OtherAsk, Idle, CodesOf, facts
<1>6. ASSUME NEW r \in Checks, NEW h \in Holders, NEW c \in Codes, CheckBegins(r, h, c)
      PROVE  AsksApart'
  BY <1>6 DEF CheckBegins, TypeOK, FreshUnused, AsksApart, Pending, OtherAsk, Idle, CodesOf, facts
<1>7. ASSUME NEW r \in Checks, CheckRejects(r)
      PROVE  AsksApart'
  BY <1>7 DEF CheckRejects, CheckGoto, CheckEnds, Valid, Spend, TypeOK, FreshUnused, AsksApart, Pending, OtherAsk, Idle, CodesOf, facts
<1>8. ASSUME NEW r \in Checks, CheckFinds(r)
      PROVE  AsksApart'
  BY <1>8 DEF CheckFinds, CheckGoto, CheckEnds, Valid, Spend, TypeOK, FreshUnused, AsksApart, Pending, OtherAsk, Idle, CodesOf, facts
<1>9. ASSUME NEW r \in Checks, CheckCancels(r)
      PROVE  AsksApart'
  BY <1>9 DEF CheckCancels, CheckGoto, CheckEnds, Valid, Spend, TypeOK, FreshUnused, AsksApart, Pending, OtherAsk, Idle, CodesOf, facts
<1>10. ASSUME NEW r \in Checks, CheckDrops(r)
      PROVE  AsksApart'
  BY <1>10 DEF CheckDrops, CheckGoto, CheckEnds, Valid, Spend, TypeOK, FreshUnused, AsksApart, Pending, OtherAsk, Idle, CodesOf, facts
<1>11. ASSUME NEW r \in Checks, CheckSigns(r)
      PROVE  AsksApart'
  BY <1>11 DEF CheckSigns, CheckGoto, CheckEnds, Valid, Spend, TypeOK, FreshUnused, AsksApart, Pending, OtherAsk, Idle, CodesOf, facts
<1>12. ASSUME NEW r \in Checks, CheckFails(r)
      PROVE  AsksApart'
  BY <1>12 DEF CheckFails, CheckGoto, CheckEnds, Valid, Spend, TypeOK, FreshUnused, AsksApart, Pending, OtherAsk, Idle, CodesOf, facts
<1>13. ASSUME NEW c \in Codes, CodeExpires(c)
      PROVE  AsksApart'
  BY <1>13 DEF CodeExpires, TypeOK, FreshUnused, AsksApart, Pending, OtherAsk, Idle, CodesOf, facts
<1>14. ASSUME NEW s \in Subs, StatusChanges(s)
      PROVE  AsksApart'
  BY <1>14 DEF StatusChanges, TypeOK, FreshUnused, AsksApart, Pending, OtherAsk, Idle, CodesOf, facts
<1>15. ASSUME NEW s \in Subs, PlanDeleted(s)
      PROVE  AsksApart'
  BY <1>15 DEF PlanDeleted, TypeOK, FreshUnused, AsksApart, Pending, OtherAsk, Idle, CodesOf, facts
<1>16. CASE UNCHANGED vars
  BY <1>16 DEF vars, TypeOK, FreshUnused, AsksApart, Pending, OtherAsk, Idle, CodesOf, facts
<1>. QED
  BY <1>1, <1>2, <1>3, <1>4, <1>5, <1>6, <1>7, <1>8, <1>9, <1>10, <1>11, <1>12, <1>13, <1>14, <1>15, <1>16 DEF Next, AskStep, CheckStep

LEMMA KeptStep ==
    ASSUME TypeOK, FreshUnused, Kept, [Next]_vars
    PROVE  Kept'
<1>. USE NamesAssumption DEF Holders
<1>1. ASSUME NEW r \in Asks, NEW h \in Holders, AskBegins(r, h)
      PROVE  Kept'
  BY <1>1 DEF AskBegins, TypeOK, FreshUnused, Kept, InHand, OtherAsk, Exists, Idle, CodesOf, facts
<1>2. ASSUME NEW r \in Asks, AskClears(r)
      PROVE  Kept'
  BY <1>2 DEF AskClears, AskGoto, TypeOK, FreshUnused, Kept, InHand, OtherAsk, Exists, Idle, CodesOf, facts
<1>3. ASSUME NEW r \in Asks, AskStores(r)
      PROVE  Kept'
  BY <1>3 DEF AskStores, AskGoto, TypeOK, FreshUnused, Kept, InHand, OtherAsk, Exists, Idle, CodesOf, facts
<1>4. ASSUME NEW r \in Asks, AskMails(r)
      PROVE  Kept'
  BY <1>4 DEF AskMails, AskGoto, TypeOK, FreshUnused, Kept, InHand, OtherAsk, Exists, Idle, CodesOf, facts
<1>5. ASSUME NEW r \in Asks, AskFails(r)
      PROVE  Kept'
  BY <1>5 DEF AskFails, AskGoto, TypeOK, FreshUnused, Kept, InHand, OtherAsk, Exists, Idle, CodesOf, facts
<1>6. ASSUME NEW r \in Checks, NEW h \in Holders, NEW c \in Codes, CheckBegins(r, h, c)
      PROVE  Kept'
  BY <1>6 DEF CheckBegins, TypeOK, FreshUnused, Kept, InHand, OtherAsk, Exists, Idle, CodesOf, facts
<1>7. ASSUME NEW r \in Checks, CheckRejects(r)
      PROVE  Kept'
  BY <1>7 DEF CheckRejects, CheckGoto, CheckEnds, Valid, Spend, TypeOK, FreshUnused, Kept, InHand, OtherAsk, Exists, Idle, CodesOf, facts
<1>8. ASSUME NEW r \in Checks, CheckFinds(r)
      PROVE  Kept'
  BY <1>8 DEF CheckFinds, CheckGoto, CheckEnds, Valid, Spend, TypeOK, FreshUnused, Kept, InHand, OtherAsk, Exists, Idle, CodesOf, facts
<1>9. ASSUME NEW r \in Checks, CheckCancels(r)
      PROVE  Kept'
  BY <1>9 DEF CheckCancels, CheckGoto, CheckEnds, Valid, Spend, TypeOK, FreshUnused, Kept, InHand, OtherAsk, Exists, Idle, CodesOf, facts
<1>10. ASSUME NEW r \in Checks, CheckDrops(r)
      PROVE  Kept'
  <2>1. /\ rows' = rows \ {check[r].code}
        /\ UNCHANGED <<status, owner, known, ask, spent, accepted, stale>>
    BY <1>10 DEF CheckDrops, facts
  <2>2. CASE check[r].at = "acted"
    BY <1>10, <2>1, <2>2 DEF CheckDrops, CheckEnds, TypeOK, FreshUnused, Kept, InHand, Exists, Idle
  <2>3. CASE check[r].at = "found" /\ CheckGoto(r, "dropped")
    BY <2>1, <2>3, CheckMoves DEF TypeOK, FreshUnused, Kept, InHand, Exists, Idle, CheckState
  <2>. QED
    BY <1>10, <2>2, <2>3 DEF CheckDrops
<1>11. ASSUME NEW r \in Checks, CheckSigns(r)
      PROVE  Kept'
  BY <1>11 DEF CheckSigns, CheckGoto, CheckEnds, Valid, Spend, TypeOK, FreshUnused, Kept, InHand, OtherAsk, Exists, Idle, CodesOf, facts
<1>12. ASSUME NEW r \in Checks, CheckFails(r)
      PROVE  Kept'
  BY <1>12 DEF CheckFails, CheckGoto, CheckEnds, Valid, Spend, TypeOK, FreshUnused, Kept, InHand, OtherAsk, Exists, Idle, CodesOf, facts
<1>13. ASSUME NEW c \in Codes, CodeExpires(c)
      PROVE  Kept'
  BY <1>13 DEF CodeExpires, TypeOK, FreshUnused, Kept, InHand, OtherAsk, Exists, Idle, CodesOf, facts
<1>14. ASSUME NEW s \in Subs, StatusChanges(s)
      PROVE  Kept'
  BY <1>14 DEF StatusChanges, TypeOK, FreshUnused, Kept, InHand, OtherAsk, Exists, Idle, CodesOf, facts
<1>15. ASSUME NEW s \in Subs, PlanDeleted(s)
      PROVE  Kept'
  BY <1>15 DEF PlanDeleted, TypeOK, FreshUnused, Kept, InHand, OtherAsk, Exists, Idle, CodesOf, facts
<1>16. CASE UNCHANGED vars
  BY <1>16 DEF vars, TypeOK, FreshUnused, Kept, InHand, OtherAsk, Exists, Idle, CodesOf, facts
<1>. QED
  BY <1>1, <1>2, <1>3, <1>4, <1>5, <1>6, <1>7, <1>8, <1>9, <1>10, <1>11, <1>12, <1>13, <1>14, <1>15, <1>16 DEF Next, AskStep, CheckStep

CodesInv == TypeOK /\ FreshUnused /\ HandsApart /\ AsksApart /\ Kept

LEMMA CodesInit == Init => CodesInv
BY NamesAssumption DEF Init, CodesInv, TypeOK, FreshUnused, HandsApart, AsksApart, Kept,
   Idle, AskState, CheckState, InHand, Pending, Holders

LEMMA CodesStep == CodesInv /\ [Next]_vars => CodesInv'
BY TypeStep, FreshStep, HandsStep, AsksStep, KeptStep DEF CodesInv

----------------------------------------------------------------------------
(* The theorems.                                                           *)

\* Every variable keeps its range; a request to be mailed always has a code.
THEOREM TypeCorrect == Spec => []TypeOK
<1>1. CodesInv => TypeOK
  BY DEF CodesInv
<1>. QED
  BY <1>1, CodesInit, CodesStep, PTL DEF Spec

\* However many requests overlap and fail, a code brings a second result only
\* if two checks had it in hand, or one broke off before deleting it.
THEOREM CodesSpentOnce == Spec => []SpentOnce
<1>1. CodesInv => SpentOnce
  BY DEF CodesInv, HandsApart, SpentOnce, TypeOK
<1>. QED
  BY <1>1, CodesInit, CodesStep, PTL DEF Spec

\* A holder whose requests did not overlap since its codes were last deleted
\* undisturbed has at most one code.
THEOREM NewestOnly == Spec => []OnlyNewest
<1>1. CodesInv => OnlyNewest
  BY DEF CodesInv, AsksApart, OnlyNewest
<1>. QED
  BY <1>1, CodesInit, CodesStep, PTL DEF Spec

\* No request of another holder and no failure takes a mailed code away.
THEOREM MailedStaysValid == Spec => []MailedCodeWorks
<1>1. CodesInv => MailedCodeWorks
  BY DEF CodesInv, FreshUnused, Kept, MailedCodeWorks, TypeOK
<1>. QED
  BY <1>1, CodesInit, CodesStep, PTL DEF Spec
=============================================================================
