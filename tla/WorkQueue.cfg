SPECIFICATION FairQueueSpec
CONSTANTS
    StepIds = {s1, s2}
    Claimers = {c1, c2}
    MaxAttempts = 3
    Batch = 2
    s1 = s1
    s2 = s2
    c1 = c1
    c2 = c2
INVARIANT AttemptsAccounted
PROPERTY QueueDrains
