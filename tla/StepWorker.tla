----------------------------- MODULE StepWorker -----------------------------
(***************************************************************************)
(* The queue-driven engine of app/orchestrator.py and the two methods of   *)
(* ContainerWorkflowRuntime it stands on: run(), which starts an execution *)
(* and queues its entry steps, and execute_single_step(), which runs one   *)
(* step that is already in the database.                                   *)
(*                                                                         *)
(*   launcher    the web request inside run(): entries still to queue and  *)
(*               its in-memory step order counter                          *)
(*   claimed[c]  rows claimer c has committed and not dispatched yet       *)
(*   inbox[s]    execute_single_runnable_step messages in the broker       *)
(*   wk[w]       one task: how far it is, its step, the status its         *)
(*               in-memory step object has, the step order counter of its  *)
(*               runtime, the outcome, the steps to queue next and whether *)
(*               it has queued one                                         *)
(*                                                                         *)
(* A task is acknowledged when it starts, so a task that dies is not       *)
(* redelivered: only the row it leaves in the queue brings the step back.  *)
(***************************************************************************)
EXTENDS Finalizer

VARIABLES launcher, claimed, inbox, wk

workerVars == <<launcher, claimed, inbox, wk>>

Idle == [pc |-> "idle", sid |-> 0, mem |-> "none", ctr |-> 0,
         out |-> "none", next |-> << >>, enq |-> FALSE]

Tasks ==
    [pc : {"idle", "ready", "begun", "running", "release", "enqueue"},
     sid : StepIds \cup {0}, mem : StepStatuses \cup {"none"}, ctr : Nat,
     out : Outcomes \cup {"none"}, next : Seq(Nodes), enq : BOOLEAN]

WorkerTypeOK ==
    /\ launcher \in [pc : {"ready", "create", "enqueue", "done"},
                     todo : Seq(Nodes), ctr : StepIds \cup {0}]
    /\ claimed \in [Claimers -> SUBSET StepIds]
    /\ inbox \in [StepIds -> Nat]
    /\ wk \in [Workers -> Tasks]

WorkerInit ==
    /\ launcher = [pc |-> "ready", todo |-> SetToSeq(EntrySteps(Workflow)), ctr |-> 0]
    /\ claimed = [c \in Claimers |-> {}]
    /\ inbox = [s \in StepIds |-> 0]
    /\ wk = [w \in Workers |-> Idle]
-----------------------------------------------------------------------------
(* run(): the compare and swap that starts the execution, once.            *)
Launch ==
    /\ launcher.pc = "ready"
    /\ IF exec = "SUBMITTED"
       THEN exec' = "RUNNING" /\ launcher' = [launcher EXCEPT !.pc = "create"]
       ELSE UNCHANGED exec /\ launcher' = [launcher EXCEPT !.pc = "done"]
    /\ UNCHANGED <<steps, queueVars, fin, claimed, inbox, wk>>

(* run(): the next entry step is created, in a transaction of its own.     *)
LaunchCreate ==
    LET o == launcher.ctr + 1
    IN  /\ launcher.pc = "create"
        /\ launcher.todo # << >>
        /\ o \in StepIds
        /\ ~Exists(o)
        /\ steps' = [steps EXCEPT ![o] = Pending(Head(launcher.todo))]
        /\ launcher' = [pc |-> "enqueue", todo |-> Tail(launcher.todo), ctr |-> o]
        /\ UNCHANGED <<exec, queueVars, fin, claimed, inbox, wk>>

(* run(): the step_order was taken by a worker meanwhile.  The unique key  *)
(* raises, and _launch_execution answers with INTEGRATION_ERROR whatever   *)
(* the status is by then.                                                  *)
LaunchCollides ==
    LET o == launcher.ctr + 1
    IN  /\ launcher.pc = "create"
        /\ launcher.todo # << >>
        /\ o \in StepIds
        /\ Exists(o)
        /\ exec' = "INTEGRATION_ERROR"
        /\ launcher' = [launcher EXCEPT !.pc = "done"]
        /\ UNCHANGED <<steps, queueVars, fin, claimed, inbox, wk>>

(* run(): the row of the entry step just created.                          *)
LaunchEnqueue ==
    /\ launcher.pc = "enqueue"
    /\ EnqueueRow(launcher.ctr)
    /\ launcher' = [launcher EXCEPT
                      !.pc = IF launcher.todo = << >> THEN "done" ELSE "create"]
    /\ UNCHANGED <<storeVars, fin, claimed, inbox, wk>>

(* The web process dies inside run().                                      *)
LauncherCrash ==
    /\ "launcherCrash" \in Allowed
    /\ launcher.pc \in {"create", "enqueue"}
    /\ launcher' = [launcher EXCEPT !.pc = "done"]
    /\ UNCHANGED <<storeVars, queueVars, fin, claimed, inbox, wk>>
-----------------------------------------------------------------------------
(* process_runnable_steps: one claim_batch ...                             *)
Claim(c) ==
    /\ claimed[c] = {}
    /\ \/ ClaimSelect(c) /\ UNCHANGED claimed
       \/ ClaimLock(c) /\ UNCHANGED claimed
       \/ ClaimCommit(c) /\ claimed' = [claimed EXCEPT ![c] = locked[c]]
    /\ UNCHANGED <<storeVars, fin, launcher, inbox, wk>>

(* ... then one task per row.                                              *)
Dispatch(c, s) ==
    /\ s \in claimed[c]
    /\ claimed' = [claimed EXCEPT ![c] = @ \ {s}]
    /\ inbox' = [inbox EXCEPT ![s] = @ + 1]
    /\ UNCHANGED <<storeVars, queueVars, fin, launcher, wk>>

(* The claiming task dies: an uncommitted claim rolls back, a committed    *)
(* one is left undispatched under its lease.                               *)
ClaimerCrash(c) ==
    /\ "claimerCrash" \in Allowed
    /\ \/ ClaimAbort(c) /\ UNCHANGED claimed
       \/ /\ claimed[c] # {}
          /\ claimed' = [claimed EXCEPT ![c] = {}]
          /\ UNCHANGED queueVars
    /\ UNCHANGED <<storeVars, fin, launcher, inbox, wk>>

Live(s) ==
    \/ inbox[s] > 0
    \/ \E c \in Claimers : s \in claimed[c]
    \/ \E w \in Workers : wk[w].pc # "idle" /\ wk[w].sid = s

(* Fault: the lease is shorter than a task.                                *)
LeaseRunsOutEarly(s) ==
    LeaseExpires(s) /\ UNCHANGED <<storeVars, fin, workerVars>>

(* A task is killed after 150 s and a lease lasts 300 s, so a lease only   *)
(* runs out behind a dead task, unless the broker held the message back    *)
(* ("lateTask").                                                           *)
LeaseRunsOut(s) ==
    /\ Live(s) => "lateTask" \in Allowed
    /\ LeaseExpires(s)
    /\ UNCHANGED <<storeVars, fin, workerVars>>

(* The reconciler's call of reclaim_expired_leases.                        *)
Reclaim == ReclaimExpired /\ UNCHANGED <<storeVars, fin, workerVars>>
-----------------------------------------------------------------------------
(* execute_single_runnable_step, from its start to the built runtime.  The *)
(* task goes no further without its row, for a step already processed      *)
(* (WAITING and RUNNING are not in that list) or an execution that is not  *)
(* RUNNING; the last two release the row.  The counter of the runtime is   *)
(* the greatest step_order there is now.                                   *)
TaskStart(w, s) ==
    LET processed == steps[s].status \in {"COMPLETED", "FAILED", "SKIPPED"}
    IN  /\ inbox[s] > 0
        /\ wk[w].pc = "idle" /\ fin[w] = Off
        /\ inbox' = [inbox EXCEPT ![s] = @ - 1]
        /\ \/ /\ ~Queued(s)
              /\ UNCHANGED <<queueVars, wk>>
           \/ /\ Queued(s)
              /\ processed \/ exec # "RUNNING"
              /\ DeleteRows({s})
              /\ UNCHANGED wk
           \/ /\ Queued(s)
              /\ ~processed /\ exec = "RUNNING"
              /\ wk' = [wk EXCEPT ![w] =
                          [Idle EXCEPT !.pc = "ready", !.sid = s,
                                       !.mem = steps[s].status, !.ctr = MaxOrder]]
              /\ UNCHANGED queueVars
        /\ UNCHANGED <<storeVars, fin, launcher, claimed>>

(* The step of task w ends: its status is saved whatever the row says now, *)
(* and the task goes on to release the row.                                *)
EndStep(w, status, outcome, next) ==
    /\ SetStep(wk[w].sid, status)
    /\ wk' = [wk EXCEPT ![w].pc = "release", ![w].mem = status,
                        ![w].out = outcome, ![w].next = next]
    /\ UNCHANGED <<exec, queueVars, fin, launcher, claimed, inbox>>

NodeOf(w) == steps[wk[w].sid].node

NextOf(w, outcome) == NextStepIds(Workflow, NodeOf(w), outcome)

(* The runtime cannot be built.                                            *)
BuildFails(w) ==
    /\ "buildError" \in Allowed
    /\ wk[w].pc = "ready"
    /\ EndStep(w, "FAILED", "FAILED", << >>)

(* Fault: the runtime answers with the status of the step.                 *)
SkipStepAsSuch(w) ==
    /\ wk[w].pc = "ready"
    /\ Workflow[NodeOf(w)].conditional
    /\ LegalStep(wk[w].mem, "SKIPPED")
    /\ EndStep(w, "SKIPPED", "SKIPPED", NextOf(w, "COMPLETED"))

(* execute_single_step: the condition of the step does not hold.           *)
SkipStep(w) ==
    /\ wk[w].pc = "ready"
    /\ Workflow[NodeOf(w)].conditional
    /\ LegalStep(wk[w].mem, "SKIPPED")
    /\ EndStep(w, "SKIPPED", "COMPLETED", NextOf(w, "COMPLETED"))

(* execute_single_step: PENDING -> RUNNING, checked on the in-memory step. *)
BeginStep(w) ==
    /\ wk[w].pc = "ready"
    /\ LegalStep(wk[w].mem, "RUNNING")
    /\ SetStep(wk[w].sid, "RUNNING")
    /\ wk' = [wk EXCEPT ![w].pc = "begun", ![w].mem = "RUNNING"]
    /\ UNCHANGED <<exec, queueVars, fin, launcher, claimed, inbox>>

(* The task of a row that was claimed again finds its step RUNNING or      *)
(* WAITING: the transition is illegal and the task records a failure.      *)
BeginRefused(w) ==
    /\ wk[w].pc = "ready"
    /\ ~LegalStep(wk[w].mem, "RUNNING")
    /\ EndStep(w, "FAILED", "FAILED", << >>)

(* The cancellation check, right after the step began.                     *)
CheckCancelled(w) ==
    /\ wk[w].pc = "begun"
    /\ \/ /\ exec = "CANCELLED"
          /\ EndStep(w, "FAILED", "CANCELLED", << >>)
       \/ /\ exec # "CANCELLED"
          /\ wk' = [wk EXCEPT ![w].pc = "running"]
          /\ UNCHANGED <<storeVars, queueVars, fin, launcher, claimed, inbox>>

(* The handler of a step that runs to completion returns.  A child that    *)
(* was cancelled fails its step and is routed like an error.               *)
FinishStep(w) ==
    /\ wk[w].pc = "running"
    /\ Workflow[NodeOf(w)].kind = "task"
    /\ \E outcome \in {"COMPLETED", "FAILED", "CANCELLED"} :
          EndStep(w, IF outcome = "COMPLETED" THEN "COMPLETED" ELSE "FAILED",
                  outcome, NextOf(w, outcome))

(* Nothing is routed after an exception nobody below handles, the soft     *)
(* time limit included, nor after a child workflow that is still at a gate *)
(* of its own when the step comes back from it.                            *)
BreakStep(w) ==
    /\ wk[w].pc = "running"
    /\ \/ EndStep(w, "FAILED", "FAILED", << >>)
       \/ /\ Workflow[NodeOf(w)].kind = "task"
          /\ EndStep(w, "FAILED", "RUNNING", << >>)

(* A gate opens: the step waits and there is nothing to queue.             *)
OpenGate(w) ==
    /\ wk[w].pc = "running"
    /\ Workflow[NodeOf(w)].kind = "gate"
    /\ EndStep(w, "WAITING", "RUNNING", << >>)

(* Fault: the lease is given back and the row stays.                       *)
ReleaseLease(w) ==
    /\ wk[w].pc = "release"
    /\ rows' = [rows EXCEPT ![wk[w].sid].lease = "free"]
    /\ UNCHANGED <<cand, locked>>
    /\ IF wk[w].next = << >>
       THEN wk' = [wk EXCEPT ![w] = Idle] /\ StartFinalize(w, wk[w].out)
       ELSE wk' = [wk EXCEPT ![w].pc = "enqueue"] /\ UNCHANGED fin
    /\ UNCHANGED <<storeVars, launcher, claimed, inbox>>

(* The row is released; the task queues the next steps or, without any,    *)
(* sees whether the execution is over.                                     *)
Release(w) ==
    /\ wk[w].pc = "release"
    /\ DeleteRows({wk[w].sid})
    /\ IF wk[w].next = << >>
       THEN wk' = [wk EXCEPT ![w] = Idle] /\ StartFinalize(w, wk[w].out)
       ELSE wk' = [wk EXCEPT ![w].pc = "enqueue"] /\ UNCHANGED fin
    /\ UNCHANGED <<storeVars, launcher, claimed, inbox>>

(* _enqueue_next_steps moves past the first target on its list, having     *)
(* queued it or not; a task that queued none of them finalizes.            *)
Advance(w, queued) ==
    LET rest == Tail(wk[w].next)
        enq  == wk[w].enq \/ queued
    IN  IF rest # << >>
        THEN /\ wk' = [wk EXCEPT ![w].next = rest, ![w].enq = enq,
                                 ![w].ctr = IF queued THEN @ + 1 ELSE @]
             /\ UNCHANGED fin
        ELSE /\ wk' = [wk EXCEPT ![w] = Idle]
             /\ IF enq THEN UNCHANGED fin ELSE StartFinalize(w, wk[w].out)

(* Fault: the loop over the targets ends at the first that exists.         *)
NextExistsReturns(w) ==
    /\ wk[w].pc = "enqueue"
    /\ ExistsActive(Head(wk[w].next))
    /\ wk' = [wk EXCEPT ![w] = Idle]
    /\ IF wk[w].enq THEN UNCHANGED fin ELSE StartFinalize(w, wk[w].out)
    /\ UNCHANGED <<storeVars, queueVars, launcher, claimed, inbox>>

(* _enqueue_next_steps, one transaction per target under the lock of the   *)
(* execution row.  A target that has an active step already is passed over.*)
NextExists(w) ==
    /\ wk[w].pc = "enqueue"
    /\ ExistsActive(Head(wk[w].next))
    /\ Advance(w, FALSE)
    /\ UNCHANGED <<storeVars, queueVars, launcher, claimed, inbox>>

(* Fault: the step is created without its row.                             *)
NextForgotten(w) ==
    LET o == wk[w].ctr + 1
    IN  /\ wk[w].pc = "enqueue"
        /\ ~ExistsActive(Head(wk[w].next))
        /\ o \in StepIds
        /\ ~Exists(o)
        /\ steps' = [steps EXCEPT ![o] = Pending(Head(wk[w].next))]
        /\ Advance(w, TRUE)
        /\ UNCHANGED <<exec, queueVars, launcher, claimed, inbox>>

(* Otherwise it gets the step_order after the counter the runtime read at  *)
(* its start, and a row in the queue.  The status of the execution is not  *)
(* looked at.                                                              *)
NextQueued(w) ==
    LET o == wk[w].ctr + 1
    IN  /\ wk[w].pc = "enqueue"
        /\ ~ExistsActive(Head(wk[w].next))
        /\ o \in StepIds
        /\ ~Exists(o)
        /\ steps' = [steps EXCEPT ![o] = Pending(Head(wk[w].next))]
        /\ EnqueueRow(o)
        /\ Advance(w, TRUE)
        /\ UNCHANGED <<exec, launcher, claimed, inbox>>

(* Another task used that step_order meanwhile: the unique key raises and  *)
(* the task dies with the targets it had left.                             *)
NextCollides(w) ==
    LET o == wk[w].ctr + 1
    IN  /\ wk[w].pc = "enqueue"
        /\ ~ExistsActive(Head(wk[w].next))
        /\ o \in StepIds
        /\ Exists(o)
        /\ wk' = [wk EXCEPT ![w] = Idle]
        /\ UNCHANGED <<storeVars, queueVars, fin, launcher, claimed, inbox>>

(* The task dies: killed at its time limit, or with its process.           *)
WorkerCrash(w) ==
    /\ "workerCrash" \in Allowed
    /\ wk[w] # Idle \/ fin[w] # Off
    /\ wk' = [wk EXCEPT ![w] = Idle]
    /\ fin' = [fin EXCEPT ![w] = Off]
    /\ UNCHANGED <<storeVars, queueVars, launcher, claimed, inbox>>
-----------------------------------------------------------------------------
Task(w) ==
    \/ \E s \in StepIds : TaskStart(w, s)
    \/ BuildFails(w) \/ SkipStep(w) \/ BeginStep(w) \/ BeginRefused(w)
    \/ CheckCancelled(w) \/ FinishStep(w) \/ BreakStep(w) \/ OpenGate(w)
    \/ Release(w) \/ NextExists(w) \/ NextQueued(w) \/ NextCollides(w)

WorkerFinalize(w) ==
    Finalize(w) /\ UNCHANGED <<launcher, claimed, inbox, wk>>

WorkerNext ==
    \/ Launch \/ LaunchCreate \/ LaunchCollides \/ LaunchEnqueue \/ LauncherCrash
    \/ \E c \in Claimers : Claim(c) \/ ClaimerCrash(c)
    \/ \E c \in Claimers, s \in StepIds : Dispatch(c, s)
    \/ \E s \in StepIds : LeaseRunsOut(s)
    \/ Reclaim
    \/ \E w \in Workers : Task(w) \/ WorkerFinalize(w) \/ WorkerCrash(w)
-----------------------------------------------------------------------------
(* What may still run step s: its claims to be dispatched, its messages in *)
(* the broker and its tasks.                                               *)
Runs(s) ==
    Cardinality({c \in Claimers : s \in claimed[c]})
        + inbox[s]
        + Cardinality({w \in Workers : wk[w].pc # "idle" /\ wk[w].sid = s})

(* Nothing runs a step that was not counted on its row: as long as the row *)
(* is there it has been claimed once for each run that may still come,     *)
(* however claims overlap, messages are late and tasks die, and without it *)
(* no more runs are left than the limit and the claims in flight allow.    *)
RunsCounted ==
    \A s \in StepIds :
        Runs(s) <= IF Queued(s) THEN rows[s].attempt
                   ELSE MaxAttempts + Cardinality(Claimers) - 1

(* Whatever the worker side refers to exists: a row of the queue its step, *)
(* the launcher the step it is about to queue, a task its step and the     *)
(* targets it has left.                                                    *)
RowsHeld == \A o \in StepIds : Queued(o) => Exists(o)

LauncherHeld ==
    launcher.pc = "enqueue" => launcher.ctr \in StepIds /\ Exists(launcher.ctr)

TasksHeld ==
    \A w \in Workers :
        /\ wk[w].pc # "idle" => wk[w].sid \in StepIds /\ Exists(wk[w].sid)
        /\ wk[w].pc = "enqueue" => wk[w].next # << >>
=============================================================================
