\* A charge fails with a 5xx.
SPECIFICATION Spec
CONSTANTS
    Subs = {s1}
    Slots = {k1}
    MaxGrace = 2
    Faults = {"server"}
    MaxCrashes = 0
    MaxDlq = 1
    MaxChanges = 0
PROPERTY
    RetryIsMade
CHECK_DEADLOCK FALSE
