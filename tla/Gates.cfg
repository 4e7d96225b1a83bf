SPECIFICATION FairGatesSpec
CONSTANTS
    Workflow <- MCGatePair
    NoNode = NoNode
    StepIds = {1, 2}
    Workers = {w1}
    Claimers = {c1}
    Procs = {}
    Evals = {e1, e2}
    Allowed = {"cancel", "procCrash", "stepError"}
    MaxAttempts = 1
    Batch = 2
    MaxTransitions = 3
PROPERTY GateDecidedOnce
PROPERTY EndFrozen
PROPERTY DueIsDecided
PROPERTY PassedGoesOn
CHECK_DEADLOCK FALSE
