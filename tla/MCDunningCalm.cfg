\* Charge jobs of one subscription overlap, two replays of a letter as well, and
\* the merchant changes the grace period once.  A decline is classified either
\* way, so it stands for the other failed charges too.
SPECIFICATION Spec
CONSTRAINT NoCheckoutWhenTermsChange
CONSTANTS
    Subs = {s1}
    Slots = {k1, k2}
    MaxGrace = 2
    Faults = {"declined"}
    MaxCrashes = 0
    MaxDlq = 1
    MaxChanges = 1
INVARIANTS
    RetriesCountUp
    OneRetryAtATime
PROPERTIES
    GivenUpOnlyWhenSpent
    DunningResolves
CHECK_DEADLOCK FALSE
