\* Amounts that do not divide evenly; Scale is a multiple of 7, 28, 29, 30, 31.
\* Renewals and plan changes run out: the system may stop.
SPECIFICATION CyclesSpec
CONSTANTS
    FirstYear = 2023
    Starts <- MCStarts
    Intervals = {"weekly", "monthly", "yearly"}
    Amounts = {35, 104}
    Scale = 377580
    MaxRenewals = 14
    MaxLate = 2
    MaxChanges = 2
    ChangeAfter = 0
CHECK_DEADLOCK FALSE
INVARIANTS
    AnchorHolds
    ChargesFit
