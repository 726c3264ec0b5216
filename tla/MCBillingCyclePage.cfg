\* A full page of due subscriptions.
SPECIFICATION Spec
CONSTANTS
    Subs = {1, 2}
    PageSize = 2
    Ticks = {t1}
    MaxFailures = 0
    MaxJobs = 2
INVARIANT
    OncePerTick
