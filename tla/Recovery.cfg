SPECIFICATION FairRecoverySpec
CONSTANTS
    Workflow <- MCFan
    NoNode = NoNode
    StepIds = {1, 2, 3, 4, 5}
    Workers = {w1}
    Claimers = {c1}
    Procs = {r1, r2}
    Allowed = {"workerCrash", "claimerCrash", "launcherCrash", "procCrash", "stepError"}
    MaxAttempts = 2
    Batch = 2
    MaxCrashes = 1
    Platforms = {"c"}
INVARIANT ParentFollowsChild
INVARIANT RecoveredOnce
 
CHECK_DEADLOCK FALSE
PROPERTY Recovers
