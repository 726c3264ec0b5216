\* Fewer subscriptions than a page holds; one tick fails.
SPECIFICATION Spec
CONSTANTS
    Subs = {1, 2}
    PageSize = 3
    Ticks = {t1}
    MaxFailures = 1
    MaxJobs = 1
INVARIANTS
    OncePerTick
PROPERTIES
    TickCovers
    DueIsBilled
    TrialsResolve
