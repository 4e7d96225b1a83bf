-------------------------- MODULE CommandProcessor --------------------------
(***************************************************************************)
(* Durable commands (app/command_processor.py): an approver's decision is  *)
(* a row of WORKFLOW_COMMANDS, applied later by process_pending_commands.  *)
(* The cancellation endpoint bypasses the commands and runs beside them.   *)
(*                                                                         *)
(*   cmds[i]  one command: its type, the step it is about (0 when it has   *)
(*            none), the node a resume names, and its status               *)
(*   proc[p]  one processor: how far it is, its command, and the status of *)
(*            the step when the handler read it                            *)
(*                                                                         *)
(* A pass handles a batch in one transaction; here it handles one command, *)
(* since a longer transaction only shows its effects later.                *)
(***************************************************************************)
EXTENDS Finalizer, Cancellation

CONSTANTS
    CmdIds,         \* the commands that may be written
    CmdTypes        \* the types written in the instance

ASSUME CommandAssumption ==
    /\ CmdIds \subseteq Nat \ {0}
    /\ CmdTypes \subseteq {"approve", "reject", "timeout", "cancel", "resume"}

VARIABLES cmds, proc

commandVars == <<cmds, proc, cancel>>

NoCmd == [type |-> "none", step |-> 0, node |-> NoNode, status |-> "none"]

ProcIdle == [pc |-> "idle", cmd |-> 0, mem |-> "none"]

CommandTypeOK ==
    /\ cmds \in [CmdIds ->
          [type : CmdTypes \cup {"none"}, step : StepIds \cup {0},
           node : Nodes \cup {NoNode},
           status : {"none", "pending", "processed", "failed"}]]
    /\ proc \in [Procs ->
          [pc : {"idle", "selected", "locked", "read"}, cmd : CmdIds \cup {0},
           mem : StepStatuses \cup {"none"}]]
    /\ CancelTypeOK

CommandInit ==
    /\ cmds = [i \in CmdIds |-> NoCmd]
    /\ proc = [p \in Procs |-> ProcIdle]
    /\ CancelInit
-----------------------------------------------------------------------------
(* write_command behind the approval endpoints, which check, without a     *)
(* lock, that the gate is WAITING.  Several approvers may write.  The      *)
(* other types are written through the service.                            *)
WriteCommand(i) ==
    /\ cmds[i] = NoCmd
    /\ \/ \E type \in CmdTypes \cap {"approve", "reject", "timeout"},
             s \in {o \in StepIds : steps[o].status = "WAITING"} :
             cmds' = [cmds EXCEPT ![i] = [type |-> type, step |-> s,
                                          node |-> NoNode, status |-> "pending"]]
       \/ /\ "cancel" \in CmdTypes
          /\ cmds' = [cmds EXCEPT ![i] = [type |-> "cancel", step |-> 0,
                                          node |-> NoNode, status |-> "pending"]]
       \/ /\ "resume" \in CmdTypes
          /\ \E s \in {o \in StepIds : steps[o].status \in {"COMPLETED", "FAILED"}} :
             \E n \in Targets(Workflow, steps[s].node) :
                cmds' = [cmds EXCEPT ![i] = [type |-> "resume", step |-> 0,
                                             node |-> n, status |-> "pending"]]
    /\ UNCHANGED <<storeVars, queueVars, fin, proc, cancel>>

(* process_pending_commands: the id of a pending command, without a lock.  *)
CmdSelect(p, i) ==
    /\ proc[p].pc = "idle" /\ fin[p] = Off
    /\ cmds[i].status = "pending"
    /\ proc' = [proc EXCEPT ![p] = [ProcIdle EXCEPT !.pc = "selected", !.cmd = i]]
    /\ UNCHANGED <<storeVars, queueVars, fin, cmds, cancel>>

(* Its row FOR UPDATE SKIP LOCKED; the status is not looked at again.      *)
CmdLock(p) ==
    LET held == \E q \in Procs \ {p} : /\ proc[q].pc \in {"locked", "read"}
                                       /\ proc[q].cmd = proc[p].cmd
    IN  /\ proc[p].pc = "selected"
        /\ proc' = [proc EXCEPT ![p] =
                      IF held THEN ProcIdle ELSE [@ EXCEPT !.pc = "locked"]]
        /\ UNCHANGED <<storeVars, queueVars, fin, cmds, cancel>>

(* The handler reads the step of the command, without a lock.              *)
CmdRead(p) ==
    /\ proc[p].pc = "locked"
    /\ LET s == cmds[proc[p].cmd].step
       IN  proc' = [proc EXCEPT
                      ![p].pc = "read",
                      ![p].mem = IF s = 0 THEN "none" ELSE steps[s].status]
    /\ UNCHANGED <<storeVars, queueVars, fin, cmds, cancel>>

(* The handler of p's command is of this type and has read the step.       *)
Handles(p, type) == proc[p].pc = "read" /\ cmds[proc[p].cmd].type = type

(* Fault: a decision applies to any step that was once a gate's.           *)
Undecided(p) == proc[p].mem # "none"

(* The gate was still waiting when the handler read it.                    *)
StillWaiting(p) == proc[p].mem = "WAITING"

(* The command is processed and everything commits.                        *)
Processed(p) ==
    /\ cmds' = [cmds EXCEPT ![proc[p].cmd].status = "processed"]
    /\ proc' = [proc EXCEPT ![p] = ProcIdle]
    /\ UNCHANGED cancel

(* _enqueue_resume_steps on the steps st this transaction has written so   *)
(* far: each target without an active step, WAITING not counting as one,   *)
(* gets the next step_order, read under the lock of the execution, and a   *)
(* row in the queue.  The rows of the steps in gone were deleted before.   *)
QueueResumed(st, targets, gone) ==
    LET new      == {i \in DOMAIN targets : ~ExistsForResume(st, targets[i])}
        order(i) == MaxOrder + Cardinality({j \in new : j <= i})
        added    == {order(i) : i \in new}
    IN  /\ added \subseteq StepIds
        /\ steps' = [o \in StepIds |->
              IF o \in added THEN Pending(targets[CHOOSE i \in new : order(i) = o])
              ELSE st[o]]
        /\ Post(gone, added)

Decided(s, status) == [steps EXCEPT ![s].status = status]

(* _handle_approve of a step read as WAITING: the save does not look at    *)
(* the row again.  A step without success targets falls back to the linear *)
(* order; without any next step the execution is finalized after the       *)
(* commit.                                                                 *)
Approve(p) ==
    LET s == cmds[proc[p].cmd].step
        n == steps[s].node
        next == IF Workflow[n].success # << >> THEN Workflow[n].success
                ELSE LinearNext(Workflow, n)
    IN  /\ Handles(p, "approve")
        /\ StillWaiting(p)
        /\ QueueResumed(Decided(s, "COMPLETED"), next, {})
        /\ IF next = << >> THEN StartFinalize(p, "COMPLETED") ELSE UNCHANGED fin
        /\ Processed(p)
        /\ UNCHANGED exec

(* _handle_reject and _handle_timeout: to the error targets, or            *)
(* _force_finalize_execution.  A timeout also releases the row.            *)
Refuse(p) ==
    LET s == cmds[proc[p].cmd].step
        next == Workflow[steps[s].node].error
    IN  /\ Handles(p, "reject") \/ Handles(p, "timeout")
        /\ StillWaiting(p)
        /\ QueueResumed(Decided(s, "FAILED"), next,
                        IF Handles(p, "timeout") THEN {s} ELSE {})
        /\ exec' = IF next = << >> /\ exec = "RUNNING" THEN "FAILED" ELSE exec
        /\ Processed(p)
        /\ UNCHANGED fin

(* The three handlers do nothing to a step that is not WAITING any more.   *)
AlreadyDecided(p) ==
    /\ Handles(p, "approve") \/ Handles(p, "reject") \/ Handles(p, "timeout")
    /\ ~StillWaiting(p)
    /\ Processed(p)
    /\ UNCHANGED <<storeVars, queueVars, fin>>

(* _handle_cancel, all in one transaction.                                 *)
CancelCommand(p) ==
    /\ Handles(p, "cancel")
    /\ \/ /\ Cancellable
          /\ exec' = "CANCELLED"
          /\ steps' = CancelledSteps
          /\ DeleteRows(StepIds)
       \/ /\ ~Cancellable
          /\ UNCHANGED <<storeVars, queueVars>>
    /\ Processed(p)
    /\ UNCHANGED fin

(* _handle_resume                                                          *)
ResumeCommand(p) ==
    /\ Handles(p, "resume")
    /\ \/ /\ exec = "RUNNING"
          /\ QueueResumed(steps, << cmds[proc[p].cmd].node >>, {})
       \/ /\ exec # "RUNNING"
          /\ UNCHANGED <<steps, queueVars>>
    /\ Processed(p)
    /\ UNCHANGED <<exec, fin>>

(* A handler raises: its savepoint rolls back, the command is FAILED and   *)
(* nobody tries it again.                                                  *)
CmdFails(p) ==
    /\ "commandError" \in Allowed
    /\ proc[p].pc = "read"
    /\ cmds' = [cmds EXCEPT ![proc[p].cmd].status = "failed"]
    /\ proc' = [proc EXCEPT ![p] = ProcIdle]
    /\ UNCHANGED <<storeVars, queueVars, fin, cancel>>

(* The processor dies: its transaction rolls back, or, after the commit,   *)
(* the finalization it owed is lost.                                       *)
ProcCrash(p) ==
    /\ "procCrash" \in Allowed
    /\ proc[p] # ProcIdle \/ fin[p] # Off
    /\ proc' = [proc EXCEPT ![p] = ProcIdle]
    /\ fin' = [fin EXCEPT ![p] = Off]
    /\ UNCHANGED <<storeVars, queueVars, cmds, cancel>>
-----------------------------------------------------------------------------
Process(p) ==
    \/ \E i \in CmdIds : CmdSelect(p, i)
    \/ CmdLock(p) \/ CmdRead(p)
    \/ Approve(p) \/ Refuse(p) \/ AlreadyDecided(p)
    \/ CancelCommand(p) \/ ResumeCommand(p) \/ CmdFails(p)

ProcFinalize(p) == Finalize(p) /\ UNCHANGED commandVars

CommandNext ==
    \/ \E i \in CmdIds : WriteCommand(i)
    \/ \E p \in Procs : Process(p) \/ ProcFinalize(p) \/ ProcCrash(p)
    \/ Cancel /\ UNCHANGED <<fin, cmds, proc>>
=============================================================================
