------------------------------- MODULE Engine -------------------------------
(***************************************************************************)
(* One workflow execution driven by the queue: the launcher, the claimers, *)
(* the worker tasks, the command processors and the cancellation request   *)
(* over the shared execution, step and queue rows.                         *)
(***************************************************************************)
EXTENDS StepWorker, CommandProcessor

vars == <<storeVars, queueVars, fin, workerVars, commandVars>>

TypeOK ==
    /\ StoreTypeOK
    /\ QueueTypeOK
    /\ FinTypeOK
    /\ WorkerTypeOK
    /\ CommandTypeOK

Init ==
    /\ StoreInit
    /\ QueueInit
    /\ FinInit
    /\ WorkerInit
    /\ CommandInit

Next ==
    \/ WorkerNext /\ UNCHANGED commandVars
    \/ CommandNext /\ UNCHANGED workerVars

Spec == Init /\ [][Next]_vars
-----------------------------------------------------------------------------
(* A terminal execution keeps its status: workers, processors, the         *)
(* launcher and a cancellation may all be about to write one, and only the *)
(* first does (the compare and swap of every writer).                      *)
TerminalFrozen == [][(exec \in ExecTerminal) => (exec' = exec)]_vars

(* An execution is COMPLETED only when nothing of it is left to do and     *)
(* nothing of it failed: what _finalize_execution_if_done is said to be    *)
(* race-free for, "when multiple workers/commands finalize concurrently    *)
(* (e.g. fan-out last steps)".  It is not: each of its queries sees what   *)
(* was committed before that query, and a branch between the release of    *)
(* its row and its next step shows in none of them.                        *)
CompletedIsDone ==
    exec = "COMPLETED" =>
        \A o \in StepIds : steps[o].status \in {"none", "COMPLETED", "SKIPPED"}

(* The targets of a step that ended well which have not been created yet.  *)
Missing(o) ==
    {n \in ToSet(NextStepIds(Workflow, steps[o].node, "COMPLETED")) :
        \A q \in StepIds : steps[q].node # n}

(* Task w is about to create all of them.                                  *)
InHand(o, w) ==
    /\ wk[w].pc \in {"release", "enqueue"}
    /\ wk[w].sid = o
    /\ Missing(o) \subseteq ToSet(wk[w].next)

BranchLost(o) ==
    /\ steps[o].status \in {"COMPLETED", "SKIPPED"}
    /\ Missing(o) # {}
    /\ \A w \in Workers : ~InHand(o, w)

(* A branch is never lost on the way but by the death of the very task     *)
(* that had it to create, killed or on a step_order used meanwhile: not by *)
(* another branch that has a target in common, not by a second task of the *)
(* step, a command, a cancellation or a redelivery.                        *)
BranchLostByDeath ==
    [][\/ UNCHANGED <<steps, wk>>
       \/ \A o \in StepIds :
             BranchLost(o)' =>
                \/ BranchLost(o)
                \/ \E w \in Workers :
                      InHand(o, w) /\ (WorkerCrash(w) \/ NextCollides(w))]_vars

(* Whatever a row, a task or a command refers to exists: a row of the      *)
(* queue its step, a task its step and the targets it has left, a command  *)
(* the step or the node it is about.                                       *)
CommandsHeld ==
    /\ \A i \in CmdIds :
          /\ cmds[i].type \in {"approve", "reject", "timeout"} =>
                cmds[i].step \in StepIds /\ Exists(cmds[i].step)
          /\ cmds[i].type = "resume" => cmds[i].node \in Nodes
    /\ \A p \in Procs : proc[p].pc # "idle" => proc[p].cmd \in CmdIds

HeldExists == RowsHeld /\ LauncherHeld /\ TasksHeld /\ CommandsHeld

(* No step waits for a worker that will never be told: a PENDING step of a *)
(* RUNNING execution has its row, or the launcher is about to write it.    *)
PendingIsQueued ==
    exec = "RUNNING" =>
        \A o \in StepIds : steps[o].status = "PENDING" =>
            Queued(o) \/ (launcher.pc = "enqueue" /\ launcher.ctr = o)

(* The lock on the execution row and the check under it: a definition step *)
(* has at most one step that is active, COMPLETED included.                *)
OneActiveStepPerNode ==
    \A o, q \in StepIds :
        /\ o # q
        /\ steps[o].node = steps[q].node
        /\ {steps[o].status, steps[q].status}
              \subseteq {"PENDING", "RUNNING", "WAITING", "COMPLETED"}
        => FALSE

(* The handler of a step is never run by two tasks at once.                *)
NoDoubleRun ==
    \A v, w \in Workers :
        /\ v # w
        /\ wk[v].pc \in {"begun", "running"} /\ wk[w].pc \in {"begun", "running"}
        => wk[v].sid # wk[w].sid

(* A COMPLETED or SKIPPED step is final, whoever else had read it earlier. *)
EndedStepsFinal ==
    [][\A o \in StepIds :
          steps[o].status \in StepTerminal => steps'[o] = steps[o]]_vars

(* Every step is justified: it is an entry, a resume command names it, or  *)
(* some step ended in a way that routes to it.                             *)
RouteJustified ==
    [][\A o \in StepIds :
          /\ ~Exists(o) /\ Exists(o)'
          /\ steps'[o].node \notin EntrySteps(Workflow)
          => \/ \E i \in CmdIds :
                   cmds[i].type = "resume" /\ cmds[i].node = steps'[o].node
             \/ \E q \in StepIds :
                   /\ steps'[q].status \in {"COMPLETED", "SKIPPED"}
                   /\ steps'[o].node \in
                        ToSet(NextStepIds(Workflow, steps'[q].node, "COMPLETED"))
             \/ \E q \in StepIds :
                   /\ steps'[q].status = "FAILED"
                   /\ steps'[o].node \in ToSet(Workflow[steps'[q].node].error)]_vars
=============================================================================
