SPECIFICATION Spec
CONSTANTS
    Workflow <- MCFork
    NoNode = NoNode
    StepIds = {1, 2, 3, 4, 5}
    Workers = {w1, w2}
    Claimers = {c1}
    Procs = {}
    CmdIds = {}
    CmdTypes = {}
    Allowed = {}
    MaxAttempts = 2
    Batch = 2
INVARIANT CompletedIsDone
CHECK_DEADLOCK FALSE
