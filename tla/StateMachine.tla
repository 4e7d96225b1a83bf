---------------------------- MODULE StateMachine ----------------------------
(***************************************************************************)
(* The two status machines of executions/domain/state_machine.py.  They    *)
(* are pure tables: callers are expected to consult them through           *)
(* assert_*_transition before they write a status, but nothing in the      *)
(* database enforces a transition, only the set of allowed values.         *)
(***************************************************************************)
ExecStatuses == {"SUBMITTED", "RUNNING", "INTEGRATION_ERROR",
                 "PENDING_APPROVAL", "COMPLETED", "FAILED", "CANCELLED",
                 "REJECTED"}

ExecTransitions ==
    [s \in ExecStatuses |->
        CASE s = "SUBMITTED" -> {"RUNNING", "FAILED", "CANCELLED",
                                 "INTEGRATION_ERROR"}
          [] s = "RUNNING" -> {"COMPLETED", "FAILED", "CANCELLED"}
          [] s = "INTEGRATION_ERROR" -> {"SUBMITTED"}
          [] OTHER -> {}]

ExecTerminal == {s \in ExecStatuses : ExecTransitions[s] = {}}

StepStatuses == {"PENDING", "RUNNING", "WAITING", "COMPLETED", "FAILED",
                 "SKIPPED"}

StepTransitions ==
    [s \in StepStatuses |->
        CASE s = "PENDING" -> {"RUNNING", "SKIPPED"}
          [] s = "RUNNING" -> {"COMPLETED", "FAILED", "WAITING", "PENDING"}
          [] s = "WAITING" -> {"COMPLETED", "FAILED"}
          [] s = "FAILED" -> {"PENDING"}
          [] OTHER -> {}]

StepTerminal == {s \in StepStatuses : StepTransitions[s] = {}}

LegalExec(from, to) == to \in ExecTransitions[from]

LegalStep(from, to) == to \in StepTransitions[from]
=============================================================================
