\* Two payments of any kind, two webhook requests at a time, two faults.
SPECIFICATION Spec
CONSTANTS
    Payments = {p1, p2}
    Handlers = {h1, h2}
    MaxFaults = 2
INVARIANTS
    SettledIsGranted
PROPERTIES
    LedgerKept
    OldNewsIgnored
    PaidIsSettled
CHECK_DEADLOCK FALSE
