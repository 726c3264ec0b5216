\* Every kind of fault (a decline is classified as a database error is), and a
\* crash at any moment, after an outage or without one.
SPECIFICATION Spec
CONSTRAINT OutageBeforeCrash
CONSTANTS
    Subs = {s1}
    Slots = {k1}
    MaxGrace = 1
    Faults = {"network", "ambiguous", "database", "outage"}
    MaxCrashes = 1
    MaxDlq = 1
    MaxChanges = 0
PROPERTIES
    GivenUpOnlyWhenSpent
    NoFreePeriod
CHECK_DEADLOCK FALSE
