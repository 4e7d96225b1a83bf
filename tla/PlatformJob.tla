---------------------------- MODULE PlatformJob -----------------------------
(***************************************************************************)
(* One job on an external platform, from the executor that asks for it to  *)
(* its answer: platform_step_executor.py, tasks/trigger.py,                *)
(* tasks/polling.py, ExecutionService.update_status and the webhooks of    *)
(* GitHub and Terraform.  The job has a child execution with one step.     *)
(*                                                                         *)
(*   exec, step   the child execution; its step with the job's id stored   *)
(*   waiter       the executor, which watches the step and gives up after  *)
(*                an hour: who called it (a task of the queue or the wave  *)
(*                loop), what it saw of the step, the verdict for the step *)
(*                of the parent and the status it answers with             *)
(*   trig         the trigger task: a message sent once, with its copy of  *)
(*                the step                                                 *)
(*   job          the job on the platform                                  *)
(*   polls[p]     a chain of poll tasks: what it read of the job and its   *)
(*                copy of the step; a reconciler may start a second chain  *)
(*   hooks        webhooks that are under way, in any order                *)
(*                                                                         *)
(* The job, and a failed call to it, are modelled from how src/adapters    *)
(* reports them.                                                           *)
(***************************************************************************)
EXTENDS Naturals, StateMachine

CONSTANTS Polls,        \* chains of poll tasks that may run at once
          MaxRetries,   \* MAX_POLLING_RETRIES
          Faults        \* the faults that may happen

ASSUME RetriesAssumption == MaxRetries \in Nat
ASSUME FaultsAssumption ==
    Faults \subseteq {"adapterError", "crash", "timeout", "raise", "cancel",
                      "webhook", "reattach"}

VARIABLES exec, step, waiter, trig, job, polls, hooks, cancel

vars == <<exec, step, waiter, trig, job, polls, hooks, cancel>>

JobRunning == {"queued", "running"}
JobEnded   == {"ok", "failed", "canceled"}

(* status_mappers.py.                                                      *)
IdpStatus == [j \in JobRunning \cup JobEnded |->
    CASE j = "queued"   -> "SUBMITTED"
      [] j = "running"  -> "RUNNING"
      [] j = "ok"       -> "COMPLETED"
      [] j = "failed"   -> "FAILED"
      [] j = "canceled" -> "CANCELLED"]

StepEnded == {"COMPLETED", "FAILED"}
Final     == {"COMPLETED", "FAILED", "CANCELLED"}

NoStep == [status |-> "none", id |-> FALSE]

(* A chain between two polls: only its retries, and whether the job was    *)
(* complete, are kept from one to the next.                                *)
Chain(pc, retry, complete) ==
    [pc |-> pc, retry |-> retry, seen |-> "SUBMITTED", complete |-> complete,
     mem |-> NoStep]

NoPoll == Chain("off", 0, FALSE)

Init ==
    /\ exec = "SUBMITTED"
    /\ step = NoStep
    /\ waiter \in [pc : {"create"}, caller : {"worker", "loop"}, saw : {"none"},
                   verdict : {"none"}, answer : {"none"}]
    /\ trig = [pc |-> "off", mem |-> NoStep]
    /\ job = "none"
    /\ polls = [p \in Polls |-> NoPoll]
    /\ hooks = {}
    /\ cancel = "none"
-----------------------------------------------------------------------------
ValidTransitions == [s \in ExecStatuses |->
    CASE s = "SUBMITTED" -> {"RUNNING", "CANCELLED", "FAILED", "INTEGRATION_ERROR"}
      [] s = "RUNNING"   -> Final
      [] OTHER           -> {}]

(* ExecutionService.update_status: the row is locked, and a transition its *)
(* table does not have changes nothing.                                    *)
UpdateStatus(s) == exec' = IF s \in ValidTransitions[exec] THEN s ELSE exec

(* _run_child_execution, up to the wait: three writes, none of which looks *)
(* at the status of the execution.                                         *)
WaiterCreates ==
    /\ waiter.pc = "create"
    /\ step' = [status |-> "RUNNING", id |-> FALSE]
    /\ waiter' = [waiter EXCEPT !.pc = "run"]
    /\ UNCHANGED <<exec, trig, job, polls, hooks, cancel>>

WaiterRuns ==
    /\ waiter.pc = "run"
    /\ exec' = "RUNNING"
    /\ waiter' = [waiter EXCEPT !.pc = "send"]
    /\ UNCHANGED <<step, trig, job, polls, hooks, cancel>>

WaiterSends ==
    /\ waiter.pc = "send"
    /\ trig' = [trig EXCEPT !.pc = "sent"]
    /\ waiter' = [waiter EXCEPT !.pc = "wait"]
    /\ UNCHANGED <<exec, step, job, polls, hooks, cancel>>

WaiterSees ==
    /\ waiter.pc = "wait" /\ step.status \in StepEnded
    /\ waiter' = [waiter EXCEPT !.pc = "write", !.saw = step.status]
    /\ UNCHANGED <<exec, step, trig, job, polls, hooks, cancel>>

(* Fault: a job that was started is waited for without a limit.            *)
WaiterTimesOutUnstarted ==
    /\ "timeout" \in Faults
    /\ waiter.pc = "wait" /\ ~step.id
    /\ step' = [step EXCEPT !.status = "FAILED"]
    /\ waiter' = [waiter EXCEPT !.pc = "late"]
    /\ UNCHANGED <<exec, trig, job, polls, hooks, cancel>>

(* PLATFORM_ACTION_MAX_WAIT_SECONDS have passed; the step may have ended   *)
(* since it was last looked at, and is failed all the same.                *)
WaiterTimesOut ==
    /\ "timeout" \in Faults
    /\ waiter.pc = "wait"
    /\ step' = [step EXCEPT !.status = "FAILED"]
    /\ waiter' = [waiter EXCEPT !.pc = "late"]
    /\ UNCHANGED <<exec, trig, job, polls, hooks, cancel>>

WaiterRefreshes ==
    /\ waiter.pc = "late"
    /\ waiter' = [waiter EXCEPT !.pc = "write", !.saw = step.status]
    /\ UNCHANGED <<exec, step, trig, job, polls, hooks, cancel>>

(* The status of the execution follows the step, over any status it has.   *)
WaiterWrites ==
    /\ waiter.pc = "write"
    /\ exec' = IF waiter.saw = "COMPLETED" THEN "COMPLETED" ELSE "FAILED"
    /\ waiter' = [waiter EXCEPT !.pc = "back", !.saw = "none"]
    /\ UNCHANGED <<step, trig, job, polls, hooks, cancel>>

Answer(verdict, answer) ==
    waiter' = [waiter EXCEPT !.pc = "over", !.verdict = verdict, !.answer = answer]

(* Fault: both callers take for completed what has not failed.             *)
WaiterAnswersAlike ==
    /\ waiter.pc = "back"
    /\ Answer(IF exec = "FAILED" THEN "FAILED" ELSE "COMPLETED", exec)
    /\ UNCHANGED <<exec, step, trig, job, polls, hooks, cancel>>

(* The step of the parent follows the execution, read once more.  A task   *)
(* (execute_worker_platform_step) completes it for a COMPLETED child, the  *)
(* wave loop (execute_platform_step) for any child that is not FAILED.     *)
(* Both answer with the status of the child.                               *)
WaiterAnswers ==
    LET completes == IF waiter.caller = "worker" THEN exec = "COMPLETED"
                     ELSE exec # "FAILED"
    IN  /\ waiter.pc = "back"
        /\ Answer(IF completes THEN "COMPLETED" ELSE "FAILED", exec)
        /\ UNCHANGED <<exec, step, trig, job, polls, hooks, cancel>>

(* An exception fails both, whatever the execution has become.             *)
WaiterRaises ==
    /\ "raise" \in Faults
    /\ waiter.pc \in {"create", "run", "send", "wait", "late", "write", "back"}
    /\ exec' = "FAILED"
    /\ Answer("FAILED", "FAILED")
    /\ UNCHANGED <<step, trig, job, polls, hooks, cancel>>

Waiter ==
    \/ WaiterCreates \/ WaiterRuns \/ WaiterSends \/ WaiterSees
    \/ WaiterTimesOut \/ WaiterRefreshes \/ WaiterWrites \/ WaiterAnswers
-----------------------------------------------------------------------------
(* trigger_platform_job.                                                   *)
TriggerLoads ==
    /\ trig.pc = "sent"
    /\ trig' = [pc |-> "loaded", mem |-> step]
    /\ UNCHANGED <<exec, step, waiter, job, polls, hooks, cancel>>

(* The call starts the job; an answer without the id of the job leaves     *)
(* nothing to save and nothing to poll.                                    *)
TriggerCalls ==
    /\ trig.pc = "loaded"
    /\ job' = "queued"
    /\ \/ trig' = [trig EXCEPT !.pc = "called"]
       \/ trig' = [pc |-> "done", mem |-> NoStep]
    /\ UNCHANGED <<exec, step, waiter, polls, hooks, cancel>>

(* The whole copy of the step is saved, its status included.               *)
TriggerSaves ==
    /\ trig.pc = "called"
    /\ step' = [trig.mem EXCEPT !.id = TRUE]
    /\ trig' = [pc |-> "saved", mem |-> [trig.mem EXCEPT !.id = TRUE]]
    /\ UNCHANGED <<exec, waiter, job, polls, hooks, cancel>>

TriggerPolls ==
    /\ trig.pc = "saved"
    /\ \E p \in Polls :
          /\ polls[p].pc = "off"
          /\ polls' = [polls EXCEPT ![p] = Chain("ask", 0, FALSE)]
    /\ trig' = [pc |-> "done", mem |-> NoStep]
    /\ UNCHANGED <<exec, step, waiter, job, hooks, cancel>>

(* The call, or sending the poll, raises; a call that timed out may have   *)
(* started the job.  _handle_trigger_error saves the copy of the step ...  *)
TriggerFails ==
    /\ "adapterError" \in Faults
    /\ trig.pc \in {"loaded", "called", "saved"}
    /\ step' = [trig.mem EXCEPT !.status = "FAILED"]
    /\ trig' = [pc |-> "read", mem |-> NoStep]
    /\ UNCHANGED <<exec, waiter, job, polls, hooks, cancel>>

(* ... and then reads the execution and writes it.                         *)
TriggerReadsExec ==
    /\ trig.pc = "read"
    /\ trig' = [trig EXCEPT !.pc = IF exec \in Final THEN "done" ELSE "write"]
    /\ UNCHANGED <<exec, step, waiter, job, polls, hooks, cancel>>

TriggerWritesExec ==
    /\ trig.pc = "write"
    /\ exec' = "INTEGRATION_ERROR"
    /\ trig' = [pc |-> "done", mem |-> NoStep]
    /\ UNCHANGED <<step, waiter, job, polls, hooks, cancel>>

(* The task is killed; it was acknowledged and is not delivered again.     *)
TriggerCrash ==
    /\ "crash" \in Faults
    /\ trig.pc \notin {"off", "sent", "done"}
    /\ trig' = [pc |-> "done", mem |-> NoStep]
    /\ UNCHANGED <<exec, step, waiter, job, polls, hooks, cancel>>

Trigger ==
    \/ TriggerLoads \/ TriggerCalls \/ TriggerSaves \/ TriggerPolls
    \/ TriggerReadsExec \/ TriggerWritesExec
-----------------------------------------------------------------------------
(* The platform; it tells of a job only while one watches for webhooks.    *)
JobMoves ==
    \E to \in {"running"} \cup JobEnded :
        /\ job \in JobRunning /\ to # job
        /\ job' = to
        /\ hooks' = IF "webhook" \in Faults THEN hooks \cup {to} ELSE hooks
        /\ UNCHANGED <<exec, step, waiter, trig, polls, cancel>>

(* A webhook finds the execution by the stored id of the job; before that  *)
(* is there it is dropped.  The step is left alone.                        *)
Webhook(h) ==
    /\ h \in hooks
    /\ hooks' = hooks \ {h}
    /\ IF step.id THEN UpdateStatus(IdpStatus[h]) ELSE UNCHANGED exec
    /\ UNCHANGED <<step, waiter, trig, job, polls, cancel>>
-----------------------------------------------------------------------------
(* poll_platform_job_status: get_status, then get_job_logs, which asks the *)
(* platform again.                                                         *)
PollAsks(p) ==
    /\ polls[p].pc = "ask"
    /\ polls' = [polls EXCEPT ![p].pc = "logs", ![p].seen = IdpStatus[job]]
    /\ UNCHANGED <<exec, step, waiter, trig, job, hooks, cancel>>

PollLogs(p) ==
    /\ polls[p].pc = "logs"
    /\ polls' = [polls EXCEPT ![p].pc = "exec", ![p].complete = job \in JobEnded]
    /\ UNCHANGED <<exec, step, waiter, trig, job, hooks, cancel>>

(* Fault: a retry starts the count again.                                  *)
PollFailsForever(p) ==
    /\ "adapterError" \in Faults
    /\ polls[p].pc \in {"ask", "logs"}
    /\ polls' = [polls EXCEPT ![p] = Chain("ask", 0, FALSE)]
    /\ UNCHANGED <<exec, step, waiter, trig, job, hooks, cancel>>

(* _mark_execution_polling_exhausted, one transaction.                     *)
Exhausted ==
    /\ exec' = IF exec \in Final THEN exec ELSE "FAILED"
    /\ step' = IF exec \notin Final /\ step.id /\ step.status \notin StepEnded
               THEN [step EXCEPT !.status = "FAILED"] ELSE step

(* A read raises: try again, and give up after MaxRetries or, at any time, *)
(* on the soft time limit.                                                 *)
PollFails(p) ==
    /\ "adapterError" \in Faults
    /\ polls[p].pc \in {"ask", "logs"}
    /\ \/ /\ polls[p].retry < MaxRetries
          /\ polls' = [polls EXCEPT ![p] = Chain("ask", polls[p].retry + 1, FALSE)]
          /\ UNCHANGED <<exec, step>>
       \/ /\ polls[p].retry >= MaxRetries \/ "timeout" \in Faults
          /\ polls' = [polls EXCEPT ![p] = NoPoll]
          /\ Exhausted
    /\ UNCHANGED <<waiter, trig, job, hooks, cancel>>

(* _update_execution_from_poll.                                            *)
PollUpdatesExec(p) ==
    /\ polls[p].pc = "exec"
    /\ UpdateStatus(polls[p].seen)
    /\ polls' = [polls EXCEPT ![p].pc = "step"]
    /\ UNCHANGED <<step, waiter, trig, job, hooks, cancel>>

PollReadsStep(p) ==
    /\ polls[p].pc = "step"
    /\ polls' = [polls EXCEPT ![p] = IF step.id THEN [@ EXCEPT !.pc = "save", !.mem = step]
                  ELSE Chain("next", 0, polls[p].complete)]
    /\ UNCHANGED <<exec, step, waiter, trig, job, hooks, cancel>>

(* The whole copy of the step is saved, its status included.               *)
PollSaves(p) ==
    /\ polls[p].pc = "save"
    /\ step' = IF polls[p].seen \notin Final \/ polls[p].mem.status \in StepEnded
               THEN polls[p].mem
               ELSE [polls[p].mem EXCEPT !.status =
                        IF polls[p].seen = "COMPLETED" THEN "COMPLETED" ELSE "FAILED"]
    /\ polls' = [polls EXCEPT ![p] = Chain("next", 0, polls[p].complete)]
    /\ UNCHANGED <<exec, waiter, trig, job, hooks, cancel>>

(* The chain goes on until the job is complete by the logs.                *)
PollEnds(p) ==
    /\ polls[p].pc = "next"
    /\ polls' = [polls EXCEPT ![p] = IF polls[p].complete THEN NoPoll
                                     ELSE Chain("ask", 0, FALSE)]
    /\ UNCHANGED <<exec, step, waiter, trig, job, hooks, cancel>>

(* The worker that polls is killed and the chain is broken.                *)
PollCrash(p) ==
    /\ "crash" \in Faults
    /\ polls[p].pc # "off"
    /\ polls' = [polls EXCEPT ![p] = NoPoll]
    /\ UNCHANGED <<exec, step, waiter, trig, job, hooks, cancel>>

Poll(p) ==
    \/ PollAsks(p) \/ PollLogs(p) \/ PollUpdatesExec(p) \/ PollReadsStep(p)
    \/ PollSaves(p) \/ PollEnds(p)

(* The reconciler takes the execution for stale and starts another chain   *)
(* (_reattach_poll), beside one that still runs.                           *)
Reattach(p) ==
    /\ "reattach" \in Faults
    /\ exec = "RUNNING" /\ step.status = "RUNNING" /\ step.id
    /\ polls[p].pc = "off"
    /\ polls' = [polls EXCEPT ![p] = Chain("ask", 0, FALSE)]
    /\ UNCHANGED <<exec, step, waiter, trig, job, hooks, cancel>>
-----------------------------------------------------------------------------
(* The user cancels the parent, which cancels the child alone, or the      *)
(* child, with its step in a statement of its own.                         *)
CancelParent ==
    /\ "cancel" \in Faults /\ cancel = "none"
    /\ exec \in {"SUBMITTED", "RUNNING"}
    /\ exec' = "CANCELLED"
    /\ cancel' = "done"
    /\ UNCHANGED <<step, waiter, trig, job, polls, hooks>>

CancelChild ==
    /\ "cancel" \in Faults /\ cancel = "none"
    /\ exec \in {"SUBMITTED", "RUNNING"}
    /\ exec' = "CANCELLED"
    /\ cancel' = "step"
    /\ UNCHANGED <<step, waiter, trig, job, polls, hooks>>

CancelStep ==
    /\ cancel = "step"
    /\ step' = IF step.status = "RUNNING" THEN [step EXCEPT !.status = "FAILED"] ELSE step
    /\ cancel' = "done"
    /\ UNCHANGED <<exec, waiter, trig, job, polls, hooks>>
-----------------------------------------------------------------------------
Next ==
    \/ Waiter \/ WaiterRaises
    \/ Trigger \/ TriggerFails \/ TriggerCrash
    \/ JobMoves \/ \E h \in hooks : Webhook(h)
    \/ \E p \in Polls : Poll(p) \/ PollFails(p) \/ PollCrash(p) \/ Reattach(p)
    \/ CancelParent \/ CancelChild \/ CancelStep

JobSpec == Init /\ [][Next]_vars

(* The executor and the tasks go on; neither a call that raises nor the    *)
(* job's end is certain, the end of the hour is.                           *)
FairJobSpec ==
    /\ JobSpec
    /\ WF_vars(Waiter) /\ WF_vars(Trigger)
    /\ \A p \in Polls : WF_vars(Poll(p))
-----------------------------------------------------------------------------
StepRows == [status : {"none", "RUNNING"} \cup StepEnded, id : BOOLEAN]

Waiters ==
    [pc : {"create", "run", "send", "wait", "late", "write", "back", "over"},
     caller : {"worker", "loop"}, saw : {"none", "RUNNING"} \cup StepEnded,
     verdict : {"none"} \cup StepEnded, answer : {"none"} \cup ExecStatuses]

Triggers ==
    [pc : {"off", "sent", "loaded", "called", "saved", "read", "write", "done"},
     mem : StepRows]

Chains ==
    [pc : {"off", "ask", "logs", "exec", "step", "save", "next"},
     retry : 0 .. MaxRetries, seen : {"SUBMITTED", "RUNNING"} \cup Final,
     complete : BOOLEAN, mem : StepRows]

JobTypeOK ==
    /\ exec \in ExecStatuses
    /\ step \in StepRows /\ waiter \in Waiters /\ trig \in Triggers
    /\ job \in {"none"} \cup JobRunning \cup JobEnded
    /\ polls \in [Polls -> Chains]
    /\ hooks \subseteq {"running"} \cup JobEnded
    /\ cancel \in {"none", "step", "done"}

(* Neither the step, nor the execution, nor what the parent is told is     *)
(* COMPLETED unless the job succeeded on the platform: no cancellation,    *)
(* timeout, stale copy or late message makes a success of anything else.   *)
(* The step of the parent has one exception, in the wave loop alone: the   *)
(* trigger, which failed, writes INTEGRATION_ERROR over the FAILED of the  *)
(* executor, and execute_platform_step completes its step over that.       *)
NoFalseSuccess ==
    /\ "COMPLETED" \in {step.status, exec, waiter.answer} => job = "ok"
    /\ waiter.verdict = "COMPLETED" =>
          \/ job = "ok"
          \/ waiter.caller = "loop" /\ waiter.answer = "INTEGRATION_ERROR"

(* The parent gets an answer, whatever becomes of job, polls and trigger.  *)
WaiterReturns == waiter.pc # "over" ~> waiter.pc = "over"

(* Once the job has ended every chain of polls comes to its end.           *)
PollsStop ==
    \A p \in Polls :
        job \in JobEnded /\ polls[p].pc # "off" ~> polls[p].pc = "off"

(* polling.py on the status of the step: "stays RUNNING until polling      *)
(* detects completion".  When no poll is left of a complete job the step   *)
(* has ended.                                                              *)
CompletionDetected ==
    [][\A p \in Polls :
          (polls[p].pc = "next" /\ polls[p].complete /\ polls'[p].pc = "off")
             => (step.status \in StepEnded)]_vars
=============================================================================
