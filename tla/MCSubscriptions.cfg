\* One plan, one email with room for two customers, one subscription; a checkout
\* and a registration can overlap, so can two of everything that writes the row.
\* Ids and days run out: the system may stop.
SPECIFICATION Spec
CONSTANTS
    Plans = {p1}
    Emails = {e1}
    Customers = {c1, c2}
    Subs = {s1}
    Signups = {r1}
    Deletions = {d1}
    Workers = {w1, w2}
    None = None
    Period = 1
    MaxGrace = 1
    MaxDay = 3
    MaxAsks = 2
SYMMETRY Symmetry
CHECK_DEADLOCK FALSE
INVARIANTS
    TypeOK
PROPERTIES
    LifecycleKept
    DeletionSparesSeen
    PaidIsKept
