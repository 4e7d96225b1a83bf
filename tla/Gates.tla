-------------------------------- MODULE Gates -------------------------------
(***************************************************************************)
(* Gates that the system decides by itself (tasks/gates.py and             *)
(* gate_evaluator.py), beside the workers of the queue.  Every minute an   *)
(* evaluator goes through the gates that wait.  From a gate that is passed *)
(* a resume task takes the workflow on: it leaves the queue aside and runs *)
(* the wave loop of ContainerWorkflowRuntime (WaveRuntime) on the same     *)
(* execution, from the targets of the gate.                                *)
(*                                                                         *)
(*   evals[e]    one evaluate_waiting_gates: the gates it read and has not *)
(*               handled, the one it is at and what it decides             *)
(*   due[o]      what an evaluation of the gate o finds now: nothing,      *)
(*               conditions satisfied, or a timeout with its action        *)
(*   resume[o]   resume_container_workflow_from_gate messages of gate o    *)
(*   verdict, told   the decisions, and the continuations: GateLife        *)
(*   lost        an evaluator or a resume task died, or raised (one dies)  *)
(*                                                                         *)
(* One resume task runs at a time.                                         *)
(***************************************************************************)
EXTENDS StepWorker, Cancellation

CONSTANTS Evals, MaxTransitions

(* The resumed loop looks steps up in the whole definition, but the next   *)
(* one by the linear order only among those from its first target on       *)
(* (remaining_steps).  That makes no difference as long as every step has  *)
(* routing or none leads back, the definitions considered here.            *)
ASSUME GatesAssumption ==
    \/ \A n \in Nodes : Workflow[n].routed
    \/ \A n \in Nodes : \A m \in Targets(Workflow, n) :
          Workflow[n].order < Workflow[m].order

VARIABLES loop, thread, result, evals, due, resume, verdict, told, lost

Resumed == INSTANCE WaveRuntime

Life == INSTANCE GateLife
            WITH Gates <- StepIds,
                 waiting <- {o \in StepIds : steps[o].status = "WAITING"}

queueSide == <<launcher, claimed, inbox, wk, fin>>
loopVars  == <<loop, thread, result>>
gateVars  == <<evals, due, resume, verdict, told, lost>>

vars == <<storeVars, queueVars, queueSide, cancel, loopVars, gateVars>>

EvalIdle == [pc |-> "idle", todo |-> {}, at |-> 0, verdict |-> "none"]

GatesInit ==
    /\ StoreInit /\ QueueInit /\ FinInit /\ WorkerInit /\ CancelInit
    /\ loop = [pc |-> "idle", wave |-> {}, order |-> 0, count |-> 0, final |-> "none"]
    /\ thread = [n \in Nodes |-> Resumed!NoThread]
    /\ result = [n \in Nodes |-> "none"]
    /\ evals = [e \in Evals |-> EvalIdle]
    /\ due = [o \in StepIds |-> "no"]
    /\ resume = [o \in StepIds |-> 0]
    /\ verdict = [o \in StepIds |-> "none"]
    /\ told = [o \in StepIds |-> 0]
    /\ lost = FALSE
-----------------------------------------------------------------------------
(* GateEvaluator.evaluate: the conditions of a gate come to hold and cease *)
(* to ...                                                                  *)
GateDue(o) ==
    /\ steps[o].status = "WAITING"
    /\ \/ due[o] = "no" /\ due' = [due EXCEPT ![o] = "satisfied"]
       \/ due[o] = "satisfied" /\ due' = [due EXCEPT ![o] = "no"]
    /\ UNCHANGED <<storeVars, queueVars, queueSide, cancel, loopVars,
                   evals, resume, verdict, told, lost>>

(* ... and its timeout, which is tested first, runs out for good.          *)
GateTimesOut(o) ==
    /\ steps[o].status = "WAITING"
    /\ due[o] \in {"no", "satisfied"}
    /\ \E action \in {"SKIPPED", "FAILED"} : due' = [due EXCEPT ![o] = action]
    /\ UNCHANGED <<storeVars, queueVars, queueSide, cancel, loopVars,
                   evals, resume, verdict, told, lost>>

(* The gates that wait, read once.  At most 100 are, the oldest ones; an   *)
(* execution has fewer.                                                    *)
EvalStart(e) ==
    LET waiting == {o \in StepIds : steps[o].status = "WAITING"}
    IN  /\ evals[e] = EvalIdle
        /\ exec = "RUNNING" /\ waiting # {}
        /\ evals' = [evals EXCEPT ![e] = [EvalIdle EXCEPT !.pc = "judge", !.todo = waiting]]
        /\ UNCHANGED <<storeVars, queueVars, queueSide, cancel, loopVars,
                       due, resume, verdict, told, lost>>

(* The evaluator is done with the gate it was at.                          *)
NextGate(e) ==
    evals' = [evals EXCEPT ![e] =
        IF evals[e].todo = {} THEN EvalIdle
        ELSE [EvalIdle EXCEPT !.pc = "judge", !.todo = evals[e].todo]]

(* One gate with nothing due: its next_poll_at is ahead, its evaluation    *)
(* raises or finds nothing.  What is then noted in the output of the step, *)
(* the next_poll_at among it, is left out.                                 *)
EvalPass(e, o) ==
    LET rest == evals[e].todo \ {o}
    IN  /\ evals[e].pc = "judge" /\ o \in evals[e].todo
        /\ due[o] = "no"
        /\ evals' = [evals EXCEPT ![e] = IF rest = {} THEN EvalIdle
                                         ELSE [@ EXCEPT !.todo = rest]]
        /\ UNCHANGED <<storeVars, queueVars, queueSide, cancel, loopVars,
                       due, resume, verdict, told, lost>>

(* Fault: a timeout is not looked at.                                      *)
EvalJudgeNoTimeout(e, o) ==
    LET rest == evals[e].todo \ {o}
    IN  /\ evals[e].pc = "judge" /\ o \in evals[e].todo
        /\ due[o] # "no"
        /\ evals' = [evals EXCEPT ![e] =
               IF due[o] = "satisfied"
               THEN [pc |-> "decide", todo |-> rest, at |-> o, verdict |-> due[o]]
               ELSE IF rest = {} THEN EvalIdle ELSE [@ EXCEPT !.todo = rest]]
        /\ UNCHANGED <<storeVars, queueVars, queueSide, cancel, loopVars,
                       due, resume, verdict, told, lost>>

EvalJudge(e, o) ==
    /\ evals[e].pc = "judge" /\ o \in evals[e].todo
    /\ due[o] # "no"
    /\ evals' = [evals EXCEPT ![e] = [pc |-> "decide", todo |-> @.todo \ {o},
                                      at |-> o, verdict |-> due[o]]]
    /\ UNCHANGED <<storeVars, queueVars, queueSide, cancel, loopVars,
                   due, resume, verdict, told, lost>>

Decided(v) == IF v = "satisfied" THEN "RUNNING" ELSE v

(* Fault: the decision trusts the status that was read.                    *)
EvalDecideBlind(e) ==
    LET o == evals[e].at
    IN  /\ evals[e].pc = "decide"
        /\ SetStep(o, Decided(evals[e].verdict))
        /\ verdict' = [verdict EXCEPT ![o] = evals[e].verdict]
        /\ evals' = [evals EXCEPT ![e].pc = "cleanup"]
        /\ UNCHANGED <<exec, queueVars, queueSide, cancel, loopVars,
                       due, resume, told, lost>>

(* _perform_step_transition, _perform_timeout_step_update: a compare and   *)
(* swap from WAITING.  A gate that is satisfied stays RUNNING for good.    *)
EvalDecide(e) ==
    LET o == evals[e].at
    IN  /\ evals[e].pc = "decide"
        /\ \/ /\ steps[o].status = "WAITING"
              /\ SetStep(o, Decided(evals[e].verdict))
              /\ verdict' = [verdict EXCEPT ![o] = evals[e].verdict]
              /\ evals' = [evals EXCEPT ![e].pc = "cleanup"]
              /\ due' = [due EXCEPT ![o] = "no"]
           \/ /\ steps[o].status # "WAITING"
              /\ NextGate(e)
              /\ UNCHANGED <<steps, verdict, due>>
        /\ UNCHANGED <<exec, queueVars, queueSide, cancel, loopVars,
                       resume, told, lost>>

(* _cleanup_step_resources, after the commit.                              *)
EvalCleanup(e) ==
    /\ evals[e].pc = "cleanup"
    /\ DeleteRows({evals[e].at})
    /\ evals' = [evals EXCEPT ![e].pc = "continue"]
    /\ UNCHANGED <<storeVars, queueSide, cancel, loopVars,
                   due, resume, verdict, told, lost>>

(* _resume_workflow_after_gate: without targets on success the step that   *)
(* follows by the order of the list, also when the list of targets is      *)
(* there and empty.                                                        *)
GateTargets(n) ==
    IF Workflow[n].success # << >> THEN ToSet(Workflow[n].success)
    ELSE ToSet(LinearNext(Workflow, n))

Passed(e) == evals[e].verdict # "FAILED"

EvalTold(e) ==
    /\ told' = [told EXCEPT ![evals[e].at] = @ + 1]
    /\ NextGate(e)
    /\ UNCHANGED <<steps, queueVars, queueSide, cancel, loopVars,
                   due, verdict, lost>>

(* A gate passed: a message that resumes the workflow from its targets.    *)
EvalResumes(e) ==
    LET o == evals[e].at
    IN  /\ evals[e].pc = "continue"
        /\ Passed(e) /\ GateTargets(steps[o].node) # {}
        /\ resume' = [resume EXCEPT ![o] = @ + 1]
        /\ EvalTold(e)
        /\ UNCHANGED exec

(* Fault: the end of the execution is written over any status.             *)
EvalCompletesBlind(e) ==
    /\ evals[e].pc = "continue"
    /\ Passed(e) /\ GateTargets(steps[evals[e].at].node) = {}
    /\ exec' = "COMPLETED"
    /\ EvalTold(e)
    /\ UNCHANGED resume

(* Fault: behind a gate that is the last step nothing ends the execution.  *)
EvalCompletesNothing(e) ==
    /\ evals[e].pc = "continue"
    /\ Passed(e) /\ GateTargets(steps[evals[e].at].node) = {}
    /\ EvalTold(e)
    /\ UNCHANGED <<exec, resume>>

(* Behind the last step the execution is over, whatever else is still      *)
(* running in it.                                                          *)
EvalCompletes(e) ==
    /\ evals[e].pc = "continue"
    /\ Passed(e) /\ GateTargets(steps[evals[e].at].node) = {}
    /\ exec' = IF exec = "RUNNING" THEN "COMPLETED" ELSE exec
    /\ EvalTold(e)
    /\ UNCHANGED resume

(* A gate whose timeout fails it fails the execution.                      *)
EvalFailsExec(e) ==
    /\ evals[e].pc = "continue"
    /\ ~Passed(e)
    /\ exec' = IF exec \in {"COMPLETED", "FAILED", "CANCELLED"} THEN exec ELSE "FAILED"
    /\ EvalTold(e)
    /\ UNCHANGED resume

(* The evaluator is killed at its time limit, or its message is refused by *)
(* the broker: a gate may be decided and the workflow not taken on.        *)
EvalCrash(e) ==
    /\ "procCrash" \in Allowed /\ ~lost
    /\ evals[e] # EvalIdle
    /\ evals' = [evals EXCEPT ![e] = EvalIdle]
    /\ lost' = TRUE
    /\ UNCHANGED <<storeVars, queueVars, queueSide, cancel, loopVars,
                   due, resume, verdict, told>>

Evaluate(e) ==
    \/ EvalStart(e) \/ EvalDecide(e) \/ EvalCleanup(e)
    \/ EvalResumes(e) \/ EvalCompletes(e) \/ EvalFailsExec(e)
    \/ \E o \in StepIds : EvalPass(e, o) \/ EvalJudge(e, o)
-----------------------------------------------------------------------------
gatesAside == <<fin, launcher, claimed, inbox, wk, evals, due, verdict, told>>

(* resume_container_workflow_from_gate up to the loop: nothing is left to  *)
(* do for an execution that is not RUNNING, nor when a step of a target is *)
(* RUNNING or COMPLETED.  The check takes no lock.                         *)
ResumeStart(o) ==
    LET next  == GateTargets(steps[o].node)
        there == \E n \in next : HasStep(steps, n, {"RUNNING", "COMPLETED"})
    IN  /\ resume[o] > 0
        /\ loop.pc \in {"idle", "done", "paused"}
        /\ resume' = [resume EXCEPT ![o] = @ - 1]
        /\ \/ /\ exec # "RUNNING" \/ there
              /\ UNCHANGED loop
           \/ /\ exec = "RUNNING" /\ ~there
              /\ loop' = [pc |-> "wave", wave |-> next, order |-> MaxOrder,
                          count |-> 0, final |-> "none"]
        /\ UNCHANGED <<storeVars, queueVars, cancel, thread, result, gatesAside, lost>>

(* The loop and its threads.                                               *)
ResumeLoop ==
    /\ \/ Resumed!WaveCancelled \/ Resumed!BeginSingle \/ Resumed!BeginFanOut
       \/ Resumed!EndSingle \/ Resumed!EndFanOut \/ Resumed!FinalizeWave
       \/ Resumed!WaveTimeout
       \/ \E n \in Nodes : Resumed!WaveStep(n) \/ Resumed!Collect(n)
    /\ UNCHANGED <<gatesAside, resume, lost>>

(* An exception in a thread: the step_order was taken by a worker of the   *)
(* queue, or the database raised.  A fan-out counts the step as failed;    *)
(* the loop passes it on, and the task swallows it.                        *)
ResumeBreaks(n) ==
    /\ thread[n].pc \in {"ready", "running"}
    /\ \/ "stepError" \in Allowed
       \/ /\ thread[n].pc = "ready"
          /\ thread[n].order \in StepIds /\ Exists(thread[n].order)
    /\ \/ /\ loop.pc = "single"
          /\ loop' = Resumed!LoopAt("done", {})
          /\ thread' = [thread EXCEPT ![n] = Resumed!NoThread]
          /\ lost' = TRUE
       \/ /\ loop.pc \in {"fan", "drain"}
          /\ thread' = [thread EXCEPT ![n].pc = "done", ![n].out = "broken"]
          /\ UNCHANGED <<loop, lost>>
    /\ UNCHANGED <<storeVars, queueVars, cancel, result, gatesAside, resume>>

(* The resume task dies with its threads; it is not delivered again.       *)
ResumeCrash ==
    /\ "procCrash" \in Allowed /\ ~lost
    /\ loop.pc \notin {"idle", "done", "paused"}
    /\ loop' = Resumed!LoopAt("done", {})
    /\ thread' = [n \in Nodes |-> Resumed!NoThread]
    /\ lost' = TRUE
    /\ UNCHANGED <<storeVars, queueVars, cancel, result, gatesAside, resume>>

ResumeTask == ResumeLoop \/ \E o \in StepIds : ResumeStart(o)

QueueSide == WorkerNext /\ UNCHANGED <<cancel, loopVars, gateVars>>

(* A web request: it leaves the queue's side and the evaluators alone.     *)
CancelSide == Cancel /\ UNCHANGED <<queueSide, loopVars, gateVars>>

GatesNext ==
    \/ QueueSide \/ CancelSide \/ ResumeTask \/ ResumeCrash
    \/ \E o \in StepIds : GateDue(o) \/ GateTimesOut(o)
    \/ \E e \in Evals : Evaluate(e) \/ EvalCrash(e)
    \/ \E n \in Nodes : ResumeBreaks(n)

GatesSpec == GatesInit /\ [][GatesNext]_vars

(* The beat starts an evaluator every minute and next_poll_at is at most   *)
(* five minutes ahead; a task that has begun goes on, and messages arrive. *)
FairGatesSpec ==
    /\ GatesSpec
    /\ \A e \in Evals : WF_vars(Evaluate(e))
    /\ WF_vars(ResumeTask)
-----------------------------------------------------------------------------
(* The evaluation keeps the promise of GateLife.                           *)
GateDecidedOnce == Life!LifeSpec

(* What is over stays over: where one step follows another no evaluator,   *)
(* resume task or worker writes over a final status of the execution.      *)
EndFrozen == [][(exec \in ExecTerminal) => (exec' = exec)]_vars

(* A gate that is due for as long as it takes is decided.                  *)
DueIsDecided ==
    \A o \in StepIds :
        steps[o].status = "WAITING" ~>
            steps[o].status # "WAITING" \/ due[o] = "no" \/ exec # "RUNNING"

(* From a gate that was passed the workflow goes on: a target starts or    *)
(* the execution ends, unless a process died on the way.                   *)
PassedGoesOn ==
    \A o \in StepIds :
        verdict[o] \in {"satisfied", "SKIPPED"} ~>
            \/ exec # "RUNNING" \/ lost
            \/ \E q \in StepIds :
                  steps[o].node # NoNode /\ steps[q].node \in GateTargets(steps[o].node)
=============================================================================
