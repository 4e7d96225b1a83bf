SPECIFICATION FairJobSpec
CONSTANTS
    Polls = {p1}
    MaxRetries = 2
    Faults = {"adapterError", "crash", "timeout", "raise", "cancel", "webhook", "reattach"}
INVARIANT NoFalseSuccess
PROPERTY WaiterReturns
PROPERTY PollsStop
CHECK_DEADLOCK FALSE
