--------------------------- MODULE ExecutionStore ---------------------------
(***************************************************************************)
(* The rows of one execution that every component shares: its status       *)
(* (EXECUTIONS) and its steps (EXECUTION_STEPS), with the queries of       *)
(* infra/repositories.py.  A step is identified by its step_order, unique  *)
(* within the execution (models.py, unique_together); a row that does not  *)
(* exist has status "none".  The step's own row in the work queue has the  *)
(* same index.                                                             *)
(***************************************************************************)
EXTENDS StateMachine, WorkflowGraph, WorkQueue, FiniteSetsExt

CONSTANTS
    Workflow,       \* the definition the execution runs
    NoNode,         \* the config_step_id of a step that does not exist
    Allowed         \* the failures and requests an instance includes

ASSUME StoreAssumption ==
    /\ IsWorkflow(Workflow)
    /\ IsFiniteSet(DOMAIN Workflow) /\ DOMAIN Workflow # {}
    /\ NoNode \notin DOMAIN Workflow
    /\ IsFiniteSet(StepIds) /\ StepIds = 1 .. Cardinality(StepIds)
    /\ Allowed \subseteq {"workerCrash", "claimerCrash", "launcherCrash",
                          "procCrash", "buildError", "commandError", "cancel",
                          "lateTask", "stepError", "timeLimit"}

VARIABLES exec, steps

storeVars == <<exec, steps>>

Nodes == DOMAIN Workflow

NoStep == [node |-> NoNode, status |-> "none"]

StoreTypeOK ==
    /\ exec \in ExecStatuses
    /\ steps \in [StepIds -> [node : Nodes \cup {NoNode},
                              status : StepStatuses \cup {"none"}]]
    /\ \A o \in StepIds : steps[o].status = "none" <=> steps[o].node = NoNode

StoreInit ==
    /\ exec = "SUBMITTED"
    /\ steps = [o \in StepIds |-> NoStep]

Exists(o) == steps[o].status # "none"

(* get_max_step_order, 0 when there is no step.                            *)
MaxOrder == Max({o \in StepIds : Exists(o)} \cup {0})

HasStep(st, n, statuses) ==
    \E o \in StepIds : st[o].node = n /\ st[o].status \in statuses

(* Fault: only steps at work count.                                        *)
ExistsAtWork(n) == HasStep(steps, n, {"PENDING", "RUNNING"})

(* step_exists_active                                                      *)
ExistsActive(n) ==
    HasStep(steps, n, {"PENDING", "RUNNING", "COMPLETED", "WAITING"})

(* step_exists_for_resume: a WAITING step does not count.                  *)
ExistsForResume(st, n) == HasStep(st, n, {"PENDING", "RUNNING", "COMPLETED"})

AnyStep(statuses) == \E o \in StepIds : steps[o].status \in statuses

Pending(n) == [node |-> n, status |-> "PENDING"]

SetStep(o, status) == steps' = [steps EXCEPT ![o].status = status]
=============================================================================
