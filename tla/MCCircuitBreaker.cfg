SPECIFICATION Spec
CONSTANTS
    ChargeSlots = {w1}
    DunningSlots = {d1}
    CheckoutCalls = {k1}
    FailureThreshold = 3
    MaxCount = 5
INVARIANTS
    BreakerMatchesCount
PROPERTIES
    OpenDrains
    OpenEnds
    PausedQueueResumes
CHECK_DEADLOCK TRUE
