------------------------------ MODULE Recovery ------------------------------
(***************************************************************************)
(* The reconciler (tasks/reconcile.py) beside the queue-driven engine, for *)
(* one execution whose tasks, claims and launcher may die.                 *)
(*                                                                         *)
(*   stale      updated_at of the execution is older than the threshold    *)
(*   child[o]   the child execution that platform step o started: its      *)
(*              status, RUNNING for any that is not over                   *)
(*   rec[r]     one reconcile_stale_executions: how far it is, the steps   *)
(*              it read as RUNNING and has not handled, the one it is at,  *)
(*              whether one was brought back (back) and whether one was    *)
(*              settled from its child (synced), and the wave it queues    *)
(*              with its step order counter                                *)
(*   crashes    how many processes have died, MaxCrashes at most           *)
(*                                                                         *)
(* The reconciler takes no lock on the execution: it saves the statuses it *)
(* holds in memory.  It finalizes as the actor r of Procs.                 *)
(***************************************************************************)
EXTENDS StepWorker

CONSTANTS
    Platforms,      \* the steps that run a child execution of their own
    MaxCrashes

ASSUME RecoveryAssumption ==
    /\ Platforms \subseteq DOMAIN Workflow
    /\ MaxCrashes \in Nat

VARIABLES stale, child, rec, crashes

recoveryVars == <<stale, child, rec, crashes>>

vars == <<storeVars, queueVars, fin, workerVars>>

allVars == <<vars, recoveryVars>>

RecIdle == [pc |-> "idle", todo |-> {}, at |-> 0, back |-> FALSE,
            synced |-> FALSE, next |-> << >>, ctr |-> 0]

RecoveryInit ==
    /\ StoreInit /\ QueueInit /\ FinInit /\ WorkerInit
    /\ stale = FALSE
    /\ child = [o \in StepIds |-> "none"]
    /\ rec = [r \in Procs |-> RecIdle]
    /\ crashes = 0
-----------------------------------------------------------------------------
(* A worker's task, with the child execution of a platform step: the step  *)
(* takes over the child's status, and an exception under it fails both.    *)
(* Every task that finds its row touches the heartbeat, whatever it then   *)
(* decides about the step.                                                 *)
TaskAndChild(w) ==
    LET o == wk[w].sid
    IN  /\ Task(w) \/ WorkerFinalize(w)
        /\ IF /\ wk[w].pc = "running" /\ wk'[w].pc = "release"
              /\ child[o] # "none"
           THEN /\ wk'[w].out # "FAILED" => child[o] = wk'[w].out
                /\ child' = [child EXCEPT ![o] = wk'[w].out]
           ELSE UNCHANGED child
        /\ stale' = (stale /\ ~(exec = "RUNNING" /\
                        \E s \in StepIds : inbox'[s] < inbox[s] /\ Queued(s)))
        /\ UNCHANGED <<rec, crashes>>

(* execute_worker_platform_step creates the child execution, names it in   *)
(* the step by a second commit, and waits for it; the child comes to its   *)
(* end whether or not somebody still waits.  child[o] is the execution the *)
(* step names: a task that dies between the two commits leaves a SUBMITTED *)
(* one that nothing names and nobody runs, and to all that read the step   *)
(* its death is one before this action.                                    *)
ChildStarts(w) ==
    /\ wk[w].pc = "running"
    /\ NodeOf(w) \in Platforms
    /\ child[wk[w].sid] = "none"
    /\ child' = [child EXCEPT ![wk[w].sid] = "RUNNING"]
    /\ UNCHANGED <<vars, stale, rec, crashes>>

ChildEnds(o) ==
    /\ child[o] = "RUNNING"
    /\ \E status \in {"COMPLETED", "FAILED", "CANCELLED"} :
          child' = [child EXCEPT ![o] = status]
    /\ UNCHANGED <<vars, stale, rec, crashes>>

(* No claim, no message and no row that could be claimed now.              *)
NothingOnOffer ==
    /\ \A c \in Claimers : cand[c] = {} /\ claimed[c] = {}
    /\ \A s \in StepIds : inbox[s] = 0 /\ ~Claimable(s)

(* Ten minutes pass without a heartbeat.  Every task touches it when it    *)
(* starts and is over within 150 s, a web request sooner, and a row that   *)
(* has attempts left is claimed, after a lease of 300 s at the latest,     *)
(* within five seconds: so none of these is left.                          *)
GrowsStale ==
    /\ exec = "RUNNING" /\ ~stale
    /\ launcher.pc \in {"ready", "done"}
    /\ NothingOnOffer
    /\ \A s \in StepIds : Queued(s) => rows[s].attempt >= MaxAttempts
    /\ \A w \in Workers : wk[w] = Idle /\ fin[w] = Off
    /\ stale' = TRUE
    /\ UNCHANGED <<vars, child, rec, crashes>>
-----------------------------------------------------------------------------
(* What the reconciler's own steps leave alone.                            *)
Aside == UNCHANGED <<workerVars, crashes>>

RecDone(r) == rec' = [rec EXCEPT ![r] = [RecIdle EXCEPT !.pc = "rest"]]

(* The next reconciler starts five minutes later: by then the queue has    *)
(* handed out what this one put into it.                                   *)
RecNextBeat(r) ==
    /\ rec[r].pc = "rest" /\ fin[r] = Off
    /\ NothingOnOffer
    /\ rec' = [rec EXCEPT ![r] = RecIdle]
    /\ UNCHANGED <<storeVars, queueVars, fin, stale, child>> /\ Aside

(* _mark_execution_failed: the status in memory is the RUNNING of the      *)
(* listing, and the save does not look at the row.                         *)
MarkFailed(r) == exec' = "FAILED" /\ RecDone(r)

(* reconcile_stale_executions lists the execution ...                      *)
RecList(r) ==
    /\ rec[r] = RecIdle /\ fin[r] = Off
    /\ exec = "RUNNING" /\ stale
    /\ rec' = [rec EXCEPT ![r].pc = "listed"]
    /\ UNCHANGED <<storeVars, queueVars, fin, stale, child>> /\ Aside

(* ... and _reconcile_execution reads its RUNNING steps.                   *)
RecScan(r) ==
    LET running == {o \in StepIds : steps[o].status = "RUNNING"}
    IN  /\ rec[r].pc = "listed"
        /\ rec' = [rec EXCEPT ![r].pc = IF running = {} THEN "wave" ELSE "step",
                              ![r].todo = running]
        /\ UNCHANGED <<storeVars, queueVars, fin, stale, child>> /\ Aside

(* _reset_and_enqueue_step of a step without platform_job_id: one save ... *)
RecReset(r) ==
    /\ rec[r].pc = "step"
    /\ \E o \in rec[r].todo :
          /\ child[o] = "none"
          /\ SetStep(o, "PENDING")
          /\ rec' = [rec EXCEPT ![r].pc = "row", ![r].at = o, ![r].todo = @ \ {o}]
    /\ UNCHANGED <<exec, queueVars, fin, stale, child>> /\ Aside

(* ... then the row, which is only written when the step has none; an      *)
(* exception fails the step.                                               *)
RecRow(r) ==
    LET o == rec[r].at
    IN  /\ rec[r].pc = "row"
        /\ \/ /\ EnqueueRow(o)
              /\ rec' = [rec EXCEPT ![r].pc = "step", ![r].at = 0, ![r].back = TRUE]
              /\ UNCHANGED steps
           \/ /\ "stepError" \in Allowed
              /\ SetStep(o, "FAILED")
              /\ rec' = [rec EXCEPT ![r].pc = "step", ![r].at = 0]
              /\ UNCHANGED queueVars
        /\ UNCHANGED <<exec, fin, stale, child>> /\ Aside

(* Fault: a child that is over has completed.                              *)
RecSyncAssumed(r) ==
    /\ rec[r].pc = "step"
    /\ \E o \in rec[r].todo :
          /\ child[o] \in {"COMPLETED", "FAILED", "CANCELLED"}
          /\ SetStep(o, "COMPLETED")
          /\ rec' = [rec EXCEPT ![r].todo = @ \ {o}, ![r].back = TRUE,
                                ![r].synced = TRUE]
          /\ stale' = (stale /\ exec # "RUNNING")
          /\ UNCHANGED child
    /\ UNCHANGED <<exec, queueVars, fin>> /\ Aside

(* _reconcile_schedule_step: a COMPLETED child completes the step and      *)
(* counts as life; any other fails it, and one not over is failed first.   *)
RecSync(r) ==
    /\ rec[r].pc = "step"
    /\ \E o \in rec[r].todo :
          \/ /\ child[o] = "COMPLETED"
             /\ SetStep(o, "COMPLETED")
             /\ rec' = [rec EXCEPT ![r].todo = @ \ {o}, ![r].back = TRUE,
                                   ![r].synced = TRUE]
             /\ stale' = (stale /\ exec # "RUNNING")
             /\ UNCHANGED child
          \/ /\ child[o] \in {"RUNNING", "FAILED", "CANCELLED"}
             /\ SetStep(o, "FAILED")
             /\ rec' = [rec EXCEPT ![r].todo = @ \ {o}]
             /\ child' = [child EXCEPT ![o] = IF @ = "RUNNING" THEN "FAILED" ELSE @]
             /\ UNCHANGED stale
    /\ UNCHANGED <<exec, queueVars, fin>> /\ Aside

(* All of them are handled.                                                *)
RecJudge(r) ==
    LET over == rec[r].synced /\ ~AnyStep({"RUNNING"})
    IN  /\ rec[r].pc = "step" /\ rec[r].todo = {}
        /\ \/ /\ rec[r].back => over /\ AnyStep({"FAILED"})
              /\ MarkFailed(r)
           \/ /\ over /\ ~AnyStep({"FAILED"})
              /\ rec' = [rec EXCEPT ![r].pc = "wave"]
              /\ UNCHANGED exec
           \/ /\ rec[r].back /\ ~over
              /\ RecDone(r)
              /\ UNCHANGED exec
        /\ UNCHANGED <<steps, queueVars, fin, stale, child>> /\ Aside
-----------------------------------------------------------------------------
(* The steps _enqueue_recovery_steps takes as over; SKIPPED is not one.    *)
Over == {o \in StepIds : steps[o].status \in {"COMPLETED", "FAILED"}}

OverNodes == {steps[o].node : o \in Over}

(* The last of several steps of a node counts.                             *)
LastOf(n) == Max({o \in Over : steps[o].node = n})

(* The next wave: what the results of all those steps lead to, through the *)
(* join policies, less the nodes that are over.                            *)
RecoveryWave ==
    ApplyJoinPolicy(Workflow, OverNodes,
        [n \in OverNodes |->
            [status |-> steps[LastOf(n)].status,
             next |-> NextStepIds(Workflow, n, steps[LastOf(n)].status)]])
    \ OverNodes

(* Fault: without a COMPLETED step there is nothing to do.                 *)
RecWaveLenient(r) ==
    /\ rec[r].pc = "wave"
    /\ \/ /\ ~AnyStep({"COMPLETED"})
          /\ RecDone(r)
          /\ UNCHANGED fin
       \/ /\ AnyStep({"COMPLETED"}) /\ RecoveryWave = {}
          /\ RecDone(r) /\ StartFinalize(r, "COMPLETED")
       \/ /\ AnyStep({"COMPLETED"}) /\ RecoveryWave # {}
          /\ rec' = [rec EXCEPT ![r] = [RecIdle EXCEPT !.pc = "enqueue",
                        !.next = SetToSeq(RecoveryWave), !.ctr = MaxOrder]]
          /\ UNCHANGED fin
    /\ UNCHANGED <<storeVars, queueVars, stale, child>> /\ Aside

(* _enqueue_recovery_steps: without a COMPLETED step it raises, and the    *)
(* execution is failed; without a next wave it finalizes.                  *)
RecWave(r) ==
    /\ rec[r].pc = "wave"
    /\ \/ /\ ~AnyStep({"COMPLETED"})
          /\ MarkFailed(r)
          /\ UNCHANGED fin
       \/ /\ AnyStep({"COMPLETED"}) /\ RecoveryWave = {}
          /\ RecDone(r) /\ StartFinalize(r, "COMPLETED")
          /\ UNCHANGED exec
       \/ /\ AnyStep({"COMPLETED"}) /\ RecoveryWave # {}
          /\ rec' = [rec EXCEPT ![r] = [RecIdle EXCEPT !.pc = "enqueue",
                        !.next = SetToSeq(RecoveryWave), !.ctr = MaxOrder]]
          /\ UNCHANGED <<exec, fin>>
    /\ UNCHANGED <<steps, queueVars, stale, child>> /\ Aside

(* The reconciler moves past the first target of the wave.  One that       *)
(* queued nothing does not finalize.                                       *)
RecAdvance(r, queued) ==
    LET rest == Tail(rec[r].next)
    IN  IF rest = << >> THEN RecDone(r)
        ELSE rec' = [rec EXCEPT ![r].next = rest,
                                ![r].ctr = IF queued THEN @ + 1 ELSE @]

(* _enqueue_next_steps, as in NextExists, NextQueued and NextCollides.     *)
RecExists(r) ==
    /\ rec[r].pc = "enqueue"
    /\ ExistsActive(Head(rec[r].next))
    /\ RecAdvance(r, FALSE)
    /\ UNCHANGED <<storeVars, queueVars, fin, stale, child>> /\ Aside

(* Fault: the recovery does not see the steps that exist.                  *)
RecQueuedAnyway(r) ==
    LET o == rec[r].ctr + 1
    IN  /\ rec[r].pc = "enqueue"
        /\ o \in StepIds /\ ~Exists(o)
        /\ steps' = [steps EXCEPT ![o] = Pending(Head(rec[r].next))]
        /\ EnqueueRow(o)
        /\ RecAdvance(r, TRUE)
        /\ UNCHANGED <<exec, fin, stale, child>> /\ Aside

RecQueued(r) ==
    LET o == rec[r].ctr + 1
    IN  /\ rec[r].pc = "enqueue"
        /\ ~ExistsActive(Head(rec[r].next))
        /\ o \in StepIds /\ ~Exists(o)
        /\ steps' = [steps EXCEPT ![o] = Pending(Head(rec[r].next))]
        /\ EnqueueRow(o)
        /\ RecAdvance(r, TRUE)
        /\ UNCHANGED <<exec, fin, stale, child>> /\ Aside

(* Here a collision is caught, and the execution is failed.                *)
RecCollides(r) ==
    LET o == rec[r].ctr + 1
    IN  /\ rec[r].pc = "enqueue"
        /\ ~ExistsActive(Head(rec[r].next))
        /\ o \in StepIds /\ Exists(o)
        /\ MarkFailed(r)
        /\ UNCHANGED <<steps, queueVars, fin, stale, child>> /\ Aside

RecFinalize(r) ==
    rec[r].pc = "rest" /\ Finalize(r) /\ UNCHANGED recoveryVars /\ Aside

Reconcile(r) ==
    \/ RecNextBeat(r) \/ RecList(r) \/ RecScan(r) \/ RecReset(r) \/ RecRow(r) \/ RecSync(r)
    \/ RecJudge(r) \/ RecWave(r) \/ RecExists(r) \/ RecQueued(r)
    \/ RecCollides(r) \/ RecFinalize(r)

(* The reconciler is killed at its time limit, or with its process.        *)
RecCrash(r) ==
    /\ "procCrash" \in Allowed
    /\ rec[r].pc \notin {"idle", "rest"} \/ fin[r] # Off
    /\ RecDone(r)
    /\ fin' = [fin EXCEPT ![r] = Off]
    /\ UNCHANGED <<storeVars, queueVars, workerVars, stale, child>>

Crash ==
    /\ crashes < MaxCrashes
    /\ crashes' = crashes + 1
    /\ \/ /\ \/ LauncherCrash
             \/ \E c \in Claimers : ClaimerCrash(c)
             \/ \E w \in Workers : WorkerCrash(w)
          /\ UNCHANGED <<stale, child, rec>>
       \/ \E r \in Procs : RecCrash(r)
-----------------------------------------------------------------------------
Launching == Launch \/ LaunchCreate \/ LaunchCollides \/ LaunchEnqueue

Queueing ==
    \/ \E c \in Claimers : Claim(c) \/ \E s \in StepIds : Dispatch(c, s)
    \/ \E s \in StepIds : LeaseRunsOut(s)
    \/ Reclaim

RecoveryNext ==
    \/ (Launching \/ Queueing) /\ UNCHANGED recoveryVars
    \/ \E w \in Workers : TaskAndChild(w) \/ ChildStarts(w)
    \/ \E o \in StepIds : ChildEnds(o)
    \/ GrowsStale
    \/ \E r \in Procs : Reconcile(r)
    \/ Crash

RecoverySpec == RecoveryInit /\ [][RecoveryNext]_allVars

(* What has begun goes on; the beat starts claims every five seconds and   *)
(* the reconciler every five minutes; leases run out and time passes.      *)
FairRecoverySpec ==
    /\ RecoverySpec
    /\ WF_allVars(Launching /\ UNCHANGED recoveryVars)
    /\ WF_allVars((\E s \in StepIds : LeaseRunsOut(s))
                      /\ UNCHANGED recoveryVars)
    /\ \A c \in Claimers :
          WF_allVars((Claim(c) \/ \E s \in StepIds : Dispatch(c, s))
                        /\ UNCHANGED recoveryVars)
    /\ \A w \in Workers : WF_allVars(TaskAndChild(w))
    /\ WF_allVars(GrowsStale)
    /\ \A r \in Procs : WF_allVars(Reconcile(r))
-----------------------------------------------------------------------------
(* A PENDING step that the queue will never offer again.                   *)
Stranded(o) ==
    /\ steps[o].status = "PENDING"
    /\ Queued(o) => rows[o].attempt >= MaxAttempts

(* Crash recovery: whatever dies and whenever, an execution comes to its   *)
(* end, to a gate that waits for somebody, or is left with a step that the *)
(* queue will never offer.                                                 *)
Recovers ==
    exec = "RUNNING" ~> \/ exec # "RUNNING"
                        \/ AnyStep({"WAITING"})
                        \/ \E o \in StepIds : Stranded(o)


(* A step that completed over a child execution has a child that           *)
(* completed, whoever recorded the end of the two, in whatever order.      *)
ParentFollowsChild ==
    \A o \in StepIds :
        steps[o].status = "COMPLETED" => child[o] \in {"none", "COMPLETED"}

(* A definition step that is active or has COMPLETED is not created again  *)
(* by the recovery, which works out the wave anew from the steps.          *)
RecoveredOnce ==
    \A o, q \in StepIds :
        /\ o # q
        /\ steps[o].node = steps[q].node
        /\ {steps[o].status, steps[q].status}
              \subseteq {"PENDING", "RUNNING", "WAITING", "COMPLETED"}
        => FALSE
=============================================================================
