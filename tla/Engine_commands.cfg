SPECIFICATION Spec
CONSTANTS
    Workflow <- MCGate
    NoNode = NoNode
    StepIds = {1, 2, 3, 4}
    Workers = {w1}
    Claimers = {c1}
    Procs = {p1}
    CmdIds = {1, 2}
    CmdTypes = {"approve", "reject", "timeout", "cancel", "resume"}
    Allowed = {"cancel", "procCrash", "commandError", "buildError"}
    MaxAttempts = 2
    Batch = 2
    w1 = w1
    c1 = c1
    p1 = p1
PROPERTY TerminalFrozen
PROPERTY EndedStepsFinal
PROPERTY RouteJustified
PROPERTY QueueSpec
CHECK_DEADLOCK FALSE
