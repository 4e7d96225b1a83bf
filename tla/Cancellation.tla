---------------------------- MODULE Cancellation ----------------------------
(***************************************************************************)
(* The cancellation of an execution by its user, views/execution_views.py. *)
(* cancel is how far the request has come.                                 *)
(***************************************************************************)
EXTENDS ExecutionStore

VARIABLE cancel

CancelTypeOK == cancel \in {"none", "steps", "rows", "done"}

CancelInit == cancel = "none"

Cancellable == exec \in {"SUBMITTED", "RUNNING"}

CancelledSteps ==
    [o \in StepIds |->
        IF steps[o].status \in {"PENDING", "RUNNING", "WAITING"}
        THEN [steps[o] EXCEPT !.status = "FAILED"] ELSE steps[o]]

(* ExecutionCancelView.patch: three statements that commit one by one.     *)
CancelRequest ==
    /\ "cancel" \in Allowed
    /\ cancel = "none"
    /\ Cancellable
    /\ exec' = "CANCELLED"
    /\ cancel' = "steps"
    /\ UNCHANGED <<steps, queueVars>>

CancelSteps ==
    /\ cancel = "steps"
    /\ steps' = CancelledSteps
    /\ cancel' = "rows"
    /\ UNCHANGED <<exec, queueVars>>

CancelRows ==
    /\ cancel = "rows"
    /\ DeleteRows(StepIds)
    /\ cancel' = "done"
    /\ UNCHANGED storeVars

Cancel == CancelRequest \/ CancelSteps \/ CancelRows
=============================================================================
