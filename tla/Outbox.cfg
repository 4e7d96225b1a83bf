SPECIFICATION MCOutboxSpec
CONSTANTS
    StatusChanges = {c1}
    StepChanges = {g1}
    Dispatchers = {d1, d2}
    NoTx = NoTx
    PageSize = 1
    Entries <- MCEntries
    MaxAttempts = 2
    MaxMishaps = 1
INVARIANT Gapless
INVARIANT NoUpdateSkipped
INVARIANT DispatchedIsDelivered
INVARIANT DeliveredOncePerDispatcher
PROPERTY EntrySettles
CHECK_DEADLOCK FALSE
