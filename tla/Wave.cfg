SPECIFICATION FairSpec
CONSTANTS
    Workflow <- MCCycle
    NoNode = NoNode
    StepIds = {1, 2, 3, 4, 5, 6, 7, 8}
    Claimers = {c1}
    MaxAttempts = 1
    Batch = 1
    MaxTransitions = 6
    Allowed = {"cancel", "stepError", "timeLimit"}
    c1 = c1
    Null = Null
INVARIANT NoHandlerLeft
INVARIANT StepsLimited
PROPERTY JoinWaitsForAll
PROPERTY Stops
CHECK_DEADLOCK FALSE
