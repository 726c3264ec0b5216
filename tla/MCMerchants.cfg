\* Two requests at a time, two accounts, one key.
SPECIFICATION Spec
CONSTANTS
    Emails = {e1, e2}
    Bases <- MCBases
    Passwords = {p1, p2}
    Keys = {k1}
    Requests = {r1, r2}
    None = None
INVARIANTS
    TypeOK
    CountersDense
    OnlyRacesCollide
    ConfirmedHolds
PROPERTIES
    SignupsEnd
