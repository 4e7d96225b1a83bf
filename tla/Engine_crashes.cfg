SPECIFICATION Spec
CONSTANTS
    Workflow <- MCMerge
    NoNode = NoNode
    StepIds = {1, 2, 3, 4}
    Workers = {w1, w2}
    w1 = w1
    w2 = w2
    Claimers = {c1}
    Procs = {}
    CmdIds = {}
    CmdTypes = {}
    Allowed = {"workerCrash", "claimerCrash"}
    MaxAttempts = 2
    Batch = 1
SYMMETRY Alike
INVARIANT TypeOK
INVARIANT PendingIsQueued
INVARIANT NoDoubleRun
INVARIANT OneActiveStepPerNode
INVARIANT RunsCounted
PROPERTY BranchLostByDeath
CHECK_DEADLOCK FALSE
