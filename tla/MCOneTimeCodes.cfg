\* One subscription and one merchant, two codes, two requests of each kind at
\* a time.  The codes run out, so the system may stop.
SPECIFICATION Spec
CONSTANTS
    Subs = {s1}
    Merchants = {m1}
    Codes = {c1, c2}
    Asks = {a1, a2}
    Checks = {k1, k2}
    None = None
SYMMETRY Symmetry
CHECK_DEADLOCK FALSE
INVARIANTS
    SpentOnce
    OnlyNewest
    MailedCodeWorks
