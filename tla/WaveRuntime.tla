---------------------------- MODULE WaveRuntime -----------------------------
(***************************************************************************)
(* run_sync() of ContainerWorkflowRuntime: a nested workflow runs to its   *)
(* end inside the task of its parent's step, wave by wave.  A wave of one  *)
(* step runs in the loop itself, a larger one in a thread per step.        *)
(*                                                                         *)
(*   loop       the main thread: where it is, the wave, the two counters   *)
(*              (step orders given out, transitions made) and the status   *)
(*              it ends with                                               *)
(*   thread[n]  the handler of step n: its step_order and its outcome      *)
(*   result[n]  what the main thread knows of step n of a fan-out          *)
(*                                                                         *)
(* The pool has 5 threads and waves are smaller here.  A gate in a fan-out *)
(* is rejected when a definition is saved (catalog/validation.py), and     *)
(* fails its step here.  Allowed holds the failures that may happen:       *)
(* "stepError", an exception outside a handler, and "timeLimit", the soft  *)
(* time limit of the task, which Celery raises in the main thread.         *)
(***************************************************************************)
EXTENDS Cancellation

CONSTANT MaxTransitions         \* settings.MAX_STEP_TRANSITIONS (100)

ASSUME WaveAssumption == MaxTransitions \in Nat

VARIABLES loop, thread, result

waveVars == <<loop, thread, result>>

vars == <<storeVars, queueVars, cancel, waveVars>>

(* What a step answers: the status its child ends with, or RUNNING.        *)
Results == {"COMPLETED", "FAILED", "CANCELLED", "RUNNING", "INTEGRATION_ERROR"}

NoThread == [pc |-> "off", order |-> 0, out |-> "none"]

LoopAt(pc, wave) == [loop EXCEPT !.pc = pc, !.wave = wave]

Loops ==
    [pc : {"idle", "wave", "single", "fan", "drain", "cut", "left", "end",
           "paused", "done"},
     wave : SUBSET Nodes, order : Nat, count : Nat, final : Results \cup {"none"}]

Threads ==
    [pc : {"off", "ready", "running", "done"}, order : Nat,
     out : Results \cup {"none", "broken"}]

WaveTypeOK ==
    /\ StoreTypeOK
    /\ CancelTypeOK
    /\ loop \in Loops
    /\ thread \in [Nodes -> Threads]
    /\ result \in [Nodes -> Results \cup {"none", "broken"}]

Init ==
    /\ StoreInit
    /\ QueueInit
    /\ CancelInit
    /\ loop = [pc |-> "idle", wave |-> {}, order |-> 0, count |-> 0,
               final |-> "none"]
    /\ thread = [n \in Nodes |-> NoThread]
    /\ result = [n \in Nodes |-> "none"]
-----------------------------------------------------------------------------
(* run_sync(): the compare and swap, or an execution that runs already.    *)
RunSync ==
    /\ loop.pc = "idle"
    /\ \/ /\ exec \in {"SUBMITTED", "RUNNING"}
          /\ exec' = "RUNNING"
          /\ loop' = LoopAt("wave", EntrySteps(Workflow))
       \/ /\ exec \notin {"SUBMITTED", "RUNNING"}
          /\ loop' = LoopAt("done", {})
          /\ UNCHANGED exec
    /\ UNCHANGED <<steps, queueVars, cancel, thread, result>>

(* The loop goes on with a wave, or has come to the end of the workflow.   *)
GoOn(wave) ==
    IF wave = {} THEN loop' = [LoopAt("end", {}) EXCEPT !.final = "COMPLETED"]
    ELSE loop' = LoopAt("wave", wave)

EndWith(status) == loop' = [LoopAt("end", {}) EXCEPT !.final = status]

(* The check before each wave.                                             *)
WaveCancelled ==
    /\ loop.pc = "wave"
    /\ exec = "CANCELLED"
    /\ EndWith("CANCELLED")
    /\ UNCHANGED <<storeVars, queueVars, cancel, thread, result>>

(* Fault: nothing limits the steps of the loop.                            *)
BeginSingleUnlimited ==
    /\ loop.pc = "wave" /\ exec # "CANCELLED"
    /\ Cardinality(loop.wave) = 1
    /\ \E n \in loop.wave :
          thread' = [thread EXCEPT
             ![n] = [pc |-> "ready", order |-> loop.order + 1, out |-> "none"]]
    /\ loop' = [loop EXCEPT !.pc = "single", !.order = @ + 1, !.count = @ + 1]
    /\ UNCHANGED <<storeVars, queueVars, cancel, result>>

(* _execute_step in the loop: the counters go up and, over the limit, the  *)
(* step fails without having been created (and is still routed).  Nothing  *)
(* reads the counters after that, so they stop there.                      *)
BeginSingle ==
    /\ loop.pc = "wave" /\ exec # "CANCELLED"
    /\ Cardinality(loop.wave) = 1
    /\ \E n \in loop.wave :
          \/ /\ loop.count < MaxTransitions
             /\ thread' = [thread EXCEPT
                   ![n] = [pc |-> "ready", order |-> loop.order + 1, out |-> "none"]]
             /\ loop' = [loop EXCEPT !.pc = "single", !.order = @ + 1, !.count = @ + 1]
          \/ /\ loop.count >= MaxTransitions
             /\ thread' = [thread EXCEPT
                   ![n] = [pc |-> "done", order |-> 0, out |-> "FAILED"]]
             /\ loop' = [loop EXCEPT !.pc = "single"]
    /\ UNCHANGED <<storeVars, queueVars, cancel, result>>

(* The threads of a fan-out: step orders are given out before any runs.    *)
Submit ==
    LET k     == Cardinality(loop.wave)
        order == SetToSeq(loop.wave)
    IN  /\ loop' = [loop EXCEPT !.pc = "fan", !.order = @ + k, !.count = @ + k]
        /\ thread' = [n \in Nodes |->
              IF n \in loop.wave
              THEN [pc |-> "ready", out |-> "none",
                    order |-> loop.order + CHOOSE i \in 1 .. k : order[i] = n]
              ELSE thread[n]]
        /\ result' = [n \in Nodes |-> "none"]

(* Fault: the limit is tested before the wave is counted.                  *)
BeginFanOutUncounted ==
    /\ loop.pc = "wave" /\ exec # "CANCELLED"
    /\ Cardinality(loop.wave) > 1
    /\ \/ loop.count < MaxTransitions /\ Submit
       \/ /\ loop.count >= MaxTransitions
          /\ EndWith("FAILED")
          /\ UNCHANGED <<thread, result>>
    /\ UNCHANGED <<storeVars, queueVars, cancel>>

(* _execute_fan_out: the limit is that of the whole wave.                  *)
BeginFanOut ==
    LET k == Cardinality(loop.wave)
    IN  /\ loop.pc = "wave" /\ exec # "CANCELLED"
        /\ k > 1
        /\ \/ loop.count + k <= MaxTransitions /\ Submit
           \/ /\ loop.count + k > MaxTransitions
              /\ EndWith("FAILED")
              /\ UNCHANGED <<thread, result>>
        /\ UNCHANGED <<storeVars, queueVars, cancel>>
-----------------------------------------------------------------------------
(* The step of thread n exists from now on, SKIPPED or RUNNING.            *)
StepCreated(n, status) ==
    /\ thread[n].pc = "ready"
    /\ thread[n].order \in StepIds
    /\ ~Exists(thread[n].order)
    /\ steps' = [steps EXCEPT ![thread[n].order] = [node |-> n, status |-> status]]
    /\ UNCHANGED <<exec, queueVars, cancel, loop, result>>

(* _create_skipped_step: the condition does not hold.                      *)
SkipWaveStep(n) ==
    /\ Workflow[n].conditional
    /\ StepCreated(n, "SKIPPED")
    /\ thread' = [thread EXCEPT ![n].pc = "done", ![n].out = "COMPLETED"]

(* The handler starts.                                                     *)
StartWaveStep(n) ==
    /\ StepCreated(n, "RUNNING")
    /\ thread' = [thread EXCEPT ![n].pc = "running"]

(* The handler of n ends and saves its step over whatever the row says.    *)
Ended(n, status, outcome) ==
    /\ thread[n].pc = "running"
    /\ SetStep(thread[n].order, status)
    /\ thread' = [thread EXCEPT ![n].pc = "done", ![n].out = outcome]
    /\ UNCHANGED <<exec, queueVars, cancel, loop, result>>

(* A step answers with the status of its child.  Any but FAILED leaves the *)
(* step COMPLETED: the child of a platform job whose answer could not be   *)
(* read, one that was cancelled, one that is still at a gate of its own.   *)
FinishWaveStep(n) ==
    /\ Workflow[n].kind = "task"
    /\ \E outcome \in Results :
          Ended(n, IF outcome = "FAILED" THEN "FAILED" ELSE "COMPLETED", outcome)

(* The step of a gate that opens waits in the loop and fails in a fan-out; *)
(* one whose handler raises fails.                                         *)
GateWaveStep(n) ==
    /\ Workflow[n].kind = "gate"
    /\ \/ loop.pc = "single" /\ Ended(n, "WAITING", "RUNNING")
       \/ Ended(n, "FAILED", "FAILED")

(* An exception outside the handler, the database's: the row stays as it   *)
(* is.  A fan-out counts the step as failed; in the loop it goes up to the *)
(* parent, which writes FAILED over whatever status the execution has.     *)
BreakWaveStep(n) ==
    /\ "stepError" \in Allowed
    /\ thread[n].pc \in {"ready", "running"}
    /\ \/ /\ loop.pc = "single"
          /\ exec' = "FAILED"
          /\ loop' = LoopAt("done", {})
       \/ /\ loop.pc # "single"
          /\ UNCHANGED <<exec, loop>>
    /\ thread' = [thread EXCEPT ![n].pc = "done", ![n].out = "broken"]
    /\ UNCHANGED <<steps, queueVars, cancel, result>>

WaveStep(n) ==
    SkipWaveStep(n) \/ StartWaveStep(n) \/ FinishWaveStep(n) \/ GateWaveStep(n)
-----------------------------------------------------------------------------
(* The loop has the outcome of its only step.  Only COMPLETED takes the    *)
(* success edges and only FAILED ends the workflow: INTEGRATION_ERROR goes *)
(* on to the error targets and, without any, ends it COMPLETED.            *)
EndSingle ==
    \E n \in loop.wave :
        LET out  == thread[n].out
            next == ToSet(NextStepIds(Workflow, n, out))
        IN  /\ loop.pc = "single"
            /\ thread[n].pc = "done"
            /\ \/ out = "RUNNING" /\ loop' = LoopAt("paused", {})
               \/ out = "CANCELLED" /\ EndWith("CANCELLED")
               \/ out = "FAILED" /\ next = {} /\ EndWith("FAILED")
               \/ out = "FAILED" /\ next # {} /\ GoOn(next)
               \/ out \in {"COMPLETED", "INTEGRATION_ERROR"} /\ GoOn(next)
            /\ thread' = [thread EXCEPT ![n] = NoThread]
            /\ UNCHANGED <<storeVars, queueVars, cancel, result>>

(* as_completed yields a step that is done.                                *)
Collect(n) ==
    /\ loop.pc = "fan"
    /\ n \in loop.wave
    /\ thread[n].pc = "done" /\ result[n] = "none"
    /\ result' = [result EXCEPT ![n] = thread[n].out]
    /\ UNCHANGED <<storeVars, queueVars, cancel, loop, thread>>

(* PARALLEL_GROUP_STEP_TIMEOUT_S runs out: steps that are not done count   *)
(* as failed.  One that is done and was not yielded gets no result at all. *)
WaveTimeout ==
    /\ loop.pc = "fan"
    /\ \E n \in loop.wave : result[n] = "none"
    /\ result' = [n \in Nodes |->
          IF n \in loop.wave /\ thread[n].pc # "done" THEN "broken" ELSE result[n]]
    /\ loop' = LoopAt("drain", loop.wave)
    /\ UNCHANGED <<storeVars, queueVars, cancel, thread>>

(* The results as the join sees them: a step without one has failed, and   *)
(* a broken one leads nowhere.                                             *)
Known(n) ==
    [status |-> IF result[n] \in Results THEN result[n] ELSE "FAILED",
     next   |-> IF result[n] \in Results THEN NextStepIds(Workflow, n, result[n])
                ELSE << >>]

(* What the results of a wave make of the loop.                            *)
Conclude ==
    LET next   == ApplyJoinPolicy(Workflow, loop.wave, [n \in loop.wave |-> Known(n)])
        has(S) == \E n \in loop.wave : result[n] \in S
    IN  /\ \/ loop.pc = "drain"
           \/ loop.pc = "fan" /\ ~has({"none"})
        /\ \/ has({"CANCELLED"}) /\ EndWith("CANCELLED")
           \/ /\ ~has({"CANCELLED"}) /\ next = {} /\ has({"FAILED", "broken"})
              /\ EndWith("FAILED")
           \/ /\ ~has({"CANCELLED"})
              /\ next # {} \/ ~has({"FAILED", "broken"})
              /\ GoOn(next)

(* Fault: the pool is left without waiting for its threads.                *)
EndFanOutAtOnce ==
    /\ Conclude
    /\ UNCHANGED <<storeVars, queueVars, cancel, thread, result>>

(* The pool waits for its threads, those timed out included; then the wave *)
(* is over.                                                                *)
EndFanOut ==
    /\ \A n \in loop.wave : thread[n].pc = "done"
    /\ Conclude
    /\ thread' = [n \in Nodes |-> IF n \in loop.wave THEN NoThread ELSE thread[n]]
    /\ UNCHANGED <<storeVars, queueVars, cancel, result>>

(* The soft time limit of the task strikes in the main thread, outside the *)
(* handler of a single step.  While a result is read it only makes that    *)
(* result a failure.  Else it leaves the loop: at once between two waves;  *)
(* in a fan-out by the exit of the pool, which waits for the threads; and  *)
(* when it strikes that very wait, after a wave timeout, without them.     *)
TimeLimit ==
    /\ "timeLimit" \in Allowed
    /\ \/ /\ loop.pc = "fan"
          /\ \E n \in loop.wave :
                /\ thread[n].pc = "done" /\ result[n] = "none"
                /\ result' = [result EXCEPT ![n] = "broken"]
          /\ UNCHANGED <<exec, loop>>
       \/ /\ loop.pc = "fan"
          /\ loop' = LoopAt("cut", loop.wave)
          /\ UNCHANGED <<exec, result>>
       \/ /\ loop.pc \in {"wave", "drain", "end"}
          /\ exec' = "FAILED"
          /\ loop' = IF loop.pc = "drain" THEN LoopAt("left", loop.wave)
                     ELSE LoopAt("done", {})
          /\ UNCHANGED result
    /\ UNCHANGED <<steps, queueVars, cancel, thread>>

(* The threads of the fan-out cut short are done: the exception goes up to *)
(* the parent, which writes FAILED.                                        *)
CutOff ==
    /\ loop.pc = "cut"
    /\ \A n \in loop.wave : thread[n].pc = "done"
    /\ exec' = "FAILED"
    /\ loop' = LoopAt("done", {})
    /\ thread' = [n \in Nodes |-> IF n \in loop.wave THEN NoThread ELSE thread[n]]
    /\ UNCHANGED <<steps, queueVars, cancel, result>>

(* _finalize_workflow_execution: a compare and swap.                       *)
FinalizeWave ==
    /\ loop.pc = "end"
    /\ exec' = IF exec \in {"COMPLETED", "FAILED", "CANCELLED"} THEN exec ELSE loop.final
    /\ loop' = LoopAt("done", {})
    /\ UNCHANGED <<steps, queueVars, cancel, thread, result>>
-----------------------------------------------------------------------------
Loop ==
    \/ RunSync \/ WaveCancelled \/ BeginSingle \/ BeginFanOut
    \/ EndSingle \/ EndFanOut \/ CutOff \/ FinalizeWave

Next ==
    \/ Loop \/ WaveTimeout \/ TimeLimit
    \/ \E n \in Nodes : WaveStep(n) \/ BreakWaveStep(n) \/ Collect(n)
    \/ Cancel /\ UNCHANGED waveVars

Spec == Init /\ [][Next]_vars

(* The task gets on with the loop and its threads; a handler returns, or   *)
(* is given up by its own time limit.                                      *)
FairSpec ==
    /\ Spec
    /\ WF_vars(Loop)
    /\ \A n \in Nodes : WF_vars(WaveStep(n)) /\ WF_vars(Collect(n))
-----------------------------------------------------------------------------
(* The barrier between waves: when the loop moves on, ends, gives up or is *)
(* cut off, no handler it started is still at work, one that timed out     *)
(* included.  Only a time limit that strikes the wait for handlers after a *)
(* wave timeout leaves them behind.                                        *)
NoHandlerLeft ==
    loop.pc \notin {"single", "fan", "drain", "cut", "left"} =>
        \A n \in Nodes : thread[n].pc \notin {"ready", "running"}

(* MAX_STEP_TRANSITIONS bounds the steps of an execution, whatever the     *)
(* shape of the workflow and the size of its waves.                        *)
StepsLimited == MaxOrder <= MaxTransitions

(* join_policy all_success: a target of several steps of the wave that     *)
(* ended is in the next wave only when the rows of all of them say that    *)
(* they succeeded, whatever timed out, broke or was cancelled on the way.  *)
JoinWaitsForAll ==
    [][\A t \in loop'.wave \ loop.wave :
          LET preds == {n \in loop.wave : t \in Targets(Workflow, n)}
          IN  Cardinality(preds) > 1 /\ Workflow[t].join = "all_success"
              => \A n \in preds :
                    steps[thread[n].order].status \in {"COMPLETED", "SKIPPED"}]_vars

(* The loop comes to an end or to a gate, also in a workflow with a cycle  *)
(* and when the time limit cuts it short.                                  *)
Stops == loop.pc # "idle" ~> loop.pc \in {"done", "paused", "left"}
=============================================================================
