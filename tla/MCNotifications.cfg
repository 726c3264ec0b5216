\* One merchant and two chats, one event, two /start messages at a time, and
\* as many crashes as it takes to fail a redelivered job.
SPECIFICATION Spec
CONSTANTS
    Merchants = {m1}
    Chats = {c1, c2}
    Events = {e1}
    Updates = {u1, u2}
    MaxCrashes = 2
    None = None
INVARIANTS
    LoggedOnce
    DeliveredWasAccepted
    AlertedOnce
    ToldIsBound
PROPERTY
    EventsSettle
