---------------------------- MODULE EngineProofs ----------------------------
(***************************************************************************)
(* Proofs about Engine, for any workflow, number of tasks and faults.      *)
(*                                                                         *)
(* TypeOK is not inductive on its own: it stands on what WorkerProofs says *)
(* of the worker side (WorkInv) and on the steps that commands are about.  *)
(* Existing steps stay (StoreKept), so each actor's part of the invariant  *)
(* can only be disturbed by that actor.                                    *)
(*                                                                         *)
(* What is proved on top of it holds for every workflow and every mix of   *)
(* crashes, late messages, commands and cancellations, but where a theorem *)
(* names what it leaves out.  PendInv: nobody makes a step PENDING again,  *)
(* and whoever deletes a row has seen its step begin or the execution end. *)
(* LaunchOnce: the launcher of a workflow with one entry collides with     *)
(* nobody.  The last parts speak of single steps of the system: which of   *)
(* them may lose a branch, which may touch a step that ended, and which    *)
(* may add to what is about to run a step (FreshSteps).                    *)
(***************************************************************************)
EXTENDS Engine, WorkerProofs

Inv == TypeOK /\ HeldExists /\ LocksExclusive /\ FinTold

(* The invariant is that of the worker side and that of the commands.      *)
LEMMA InvParts == Inv <=> WorkInv /\ CommandTypeOK /\ CommandsHeld
BY DEF Inv, WorkInv, TypeOK, HeldExists

LEMMA InvPartsNext == Inv' <=> WorkInv' /\ CommandTypeOK' /\ CommandsHeld'
BY DEF Inv, WorkInv, TypeOK, HeldExists

LEMMA InitialTypes == Init => Inv
<1> SUFFICES ASSUME Init PROVE Inv
  OBVIOUS
<1>1. WorkInv
  BY WorkerInitial DEF Init
<1>2. CommandTypeOK
  BY
     DEF Init, CommandInit, CommandTypeOK, NoCmd, ProcIdle, CancelInit,
         CancelTypeOK
<1>3. CommandsHeld
  BY DEF Init, CommandsHeld, CommandInit, NoCmd, ProcIdle
<1> QED
  BY <1>1, <1>2, <1>3, InvParts

(* The command a processor has read is one of the commands, and the step a *)
(* decision is about exists.                                               *)
LEMMA HandledCommand ==
    ASSUME Inv, NEW p \in Procs, NEW type, Handles(p, type)
    PROVE  /\ proc[p].cmd \in CmdIds
           /\ cmds[proc[p].cmd].type = type
           /\ type = "resume" => cmds[proc[p].cmd].node \in Nodes
           /\ type \in {"approve", "reject", "timeout"} =>
                 /\ cmds[proc[p].cmd].step \in StepIds
                 /\ Exists(cmds[proc[p].cmd].step)
                 /\ steps[cmds[proc[p].cmd].step].node \in Nodes
<1>1. proc[p].cmd \in CmdIds /\ cmds[proc[p].cmd].type = type
  BY DEF Inv, HeldExists, CommandsHeld, Handles
<1>2. type = "resume" => cmds[proc[p].cmd].node \in Nodes
  BY <1>1 DEF Inv, HeldExists, CommandsHeld
<1>3. type \in {"approve", "reject", "timeout"} =>
         cmds[proc[p].cmd].step \in StepIds /\ Exists(cmds[proc[p].cmd].step)
  BY <1>1 DEF Inv, HeldExists, CommandsHeld
<1>4. \A o \in StepIds : Exists(o) => steps[o].node \in Nodes
  BY DEF Inv, TypeOK, StoreTypeOK, Exists
<1> QED
  BY <1>1, <1>2, <1>3, <1>4

(* What exists after the resume of some targets: the steps it started from *)
(* and new steps of the workflow, all of them within StepIds.              *)
LEMMA ResumedSteps ==
    ASSUME StoreTypeOK,
           NEW st \in [StepIds -> [node : Nodes \cup {NoNode},
                                  status : StepStatuses \cup {"none"}]],
           \A o \in StepIds : st[o].status = "none" <=> st[o].node = NoNode,
           \A o \in StepIds : Exists(o) => st[o].status # "none",
           NEW targets \in Seq(Nodes), NEW gone,
           QueueResumed(st, targets, gone)
    PROVE  /\ steps' \in [StepIds -> [node : Nodes \cup {NoNode},
                                      status : StepStatuses \cup {"none"}]]
           /\ \A o \in StepIds : steps'[o].status = "none" <=> steps'[o].node = NoNode
           /\ \A o \in StepIds : Exists(o) => Exists(o)'
           /\ \E added \in SUBSET StepIds :
                 Post(gone, added) /\ \A o \in added : Exists(o)'
<1> DEFINE new == {i \in DOMAIN targets : ~ExistsForResume(st, targets[i])}
<1> DEFINE order(i) == MaxOrder + Cardinality({j \in new : j <= i})
<1> DEFINE added == {order(i) : i \in new}
<1> DEFINE target(o) == targets[CHOOSE i \in new : order(i) = o]
<1>1. /\ added \subseteq StepIds
      /\ steps' = [o \in StepIds |-> IF o \in added THEN Pending(target(o)) ELSE st[o]]
      /\ Post(gone, added)
  BY DEF QueueResumed
<1>2. \A o \in added : target(o) \in Nodes
  <2>1. SUFFICES ASSUME NEW o \in added PROVE target(o) \in Nodes
    OBVIOUS
  <2>2. \E i \in new : order(i) = o
    OBVIOUS
  <2>3. (CHOOSE i \in new : order(i) = o) \in DOMAIN targets
    BY <2>2
  <2> QED
    BY <2>3
<1> HIDE DEF added, target
<1>3. NoNode \notin Nodes
  BY StoreAssumption DEF StoreAssumption, Nodes
<1>4. \A o \in added : steps'[o] = [node |-> target(o), status |-> "PENDING"]
  BY <1>1 DEF Pending
<1>5. \A o \in StepIds : o \notin added => steps'[o] = st[o]
  BY <1>1
<1>6. ASSUME NEW o \in StepIds
      PROVE  /\ steps'[o] \in [node : Nodes \cup {NoNode},
                               status : StepStatuses \cup {"none"}]
             /\ steps'[o].status = "none" <=> steps'[o].node = NoNode
             /\ Exists(o) => steps'[o].status # "none"
             /\ o \in added => steps'[o].status # "none"
  <2>1. CASE o \in added
    <3>1. target(o) \in Nodes /\ steps'[o] = [node |-> target(o), status |-> "PENDING"]
      BY <1>2, <1>4, <2>1
    <3>2. steps'[o].status = "PENDING" /\ steps'[o].node = target(o)
      BY <3>1
    <3> QED
      BY <1>3, <3>1, <3>2 DEF StepStatuses
  <2>2. CASE o \notin added
    BY <1>5, <2>2
  <2> QED
    BY <2>1, <2>2
<1>7. \A o \in StepIds : (Exists(o) => Exists(o)') /\ (o \in added => Exists(o)')
  BY <1>6 DEF Exists
<1>8. steps' \in [StepIds -> [node : Nodes \cup {NoNode},
                             status : StepStatuses \cup {"none"}]]
  BY <1>1, <1>6
<1> QED
  BY <1>1, <1>6, <1>7, <1>8
-----------------------------------------------------------------------------
(* The two halves of the typing of commands and of what they refer to.     *)
Commands ==
    [type : CmdTypes \cup {"none"}, step : StepIds \cup {0},
     node : Nodes \cup {NoNode},
     status : {"none", "pending", "processed", "failed"}]

Processors ==
    [pc : {"idle", "selected", "locked", "read"}, cmd : CmdIds \cup {0},
     mem : StepStatuses \cup {"none"}]

CmdsWell ==
    /\ cmds \in [CmdIds -> Commands]
    /\ \A i \in CmdIds :
          /\ cmds[i].type \in {"approve", "reject", "timeout"} =>
                cmds[i].step \in StepIds /\ Exists(cmds[i].step)
          /\ cmds[i].type = "resume" => cmds[i].node \in Nodes

ProcsWell ==
    /\ proc \in [Procs -> Processors]
    /\ \A p \in Procs : proc[p].pc # "idle" => proc[p].cmd \in CmdIds

(* Together they are the parts of Inv about commands.                      *)
LEMMA CommandsSplit ==
    CommandTypeOK /\ CommandsHeld <=> CmdsWell /\ ProcsWell /\ CancelTypeOK
BY DEF CommandTypeOK, CommandsHeld, CmdsWell, ProcsWell, Commands, Processors

(* Commands stay as they are, but for ...                                  *)
LEMMA CmdsSame ==
    ASSUME CmdsWell, StoreKept, UNCHANGED cmds PROVE CmdsWell'
BY DEF CmdsWell, StoreKept, Exists

(* The status a processor writes.                                          *)
LEMMA CmdMarked ==
    ASSUME CmdsWell, StoreKept, NEW i \in CmdIds,
           NEW status \in {"processed", "failed"},
           cmds' = [cmds EXCEPT ![i].status = status]
    PROVE  CmdsWell'
<1> DEFINE t == [cmds[i] EXCEPT !.status = status]
<1>1. cmds \in [CmdIds -> Commands] /\ cmds[i] \in Commands
  BY DEF CmdsWell
<1>2. /\ t \in Commands /\ t.type = cmds[i].type
      /\ t.step = cmds[i].step /\ t.node = cmds[i].node
  BY <1>1 DEF Commands
<1>3. cmds' = [cmds EXCEPT ![i] = t]
  BY <1>1
<1> HIDE DEF t
<1>4. cmds' \in [CmdIds -> Commands]
  BY <1>1, <1>2, <1>3
<1>5. ASSUME NEW j \in CmdIds
      PROVE  /\ cmds'[j].type = cmds[j].type
             /\ cmds'[j].step = cmds[j].step
             /\ cmds'[j].node = cmds[j].node
  BY <1>1, <1>2, <1>3
<1> QED
  BY <1>4, <1>5 DEF CmdsWell, StoreKept, Exists

(* A processor at rest.                                                    *)
LEMMA IdleProcessor == ProcIdle \in Processors /\ ProcIdle.pc = "idle"
BY DEF ProcIdle, Processors

(* A processor comes to rest ...                                           *)
LEMMA ProcRests ==
    ASSUME ProcsWell, NEW p \in Procs, proc' = [proc EXCEPT ![p] = ProcIdle]
    PROVE  ProcsWell'
BY IdleProcessor DEF ProcsWell

(* ... or it moves on with one of the commands.                            *)
LEMMA ProcMoves ==
    ASSUME ProcsWell, NEW p \in Procs, NEW t \in Processors,
           proc' = [proc EXCEPT ![p] = t], t.cmd \in CmdIds
    PROVE  ProcsWell'
BY DEF ProcsWell

(* What a step of an approver, a processor or a cancellation keeps.        *)
CommandKept ==
    /\ StoreKept /\ RowsKept
    /\ FinTypeOK' /\ FinTold'
    /\ CmdsWell' /\ ProcsWell' /\ CancelTypeOK'

(* A processed command leaves well-formed commands and processors.         *)
LEMMA CommandDone ==
    ASSUME Inv, NEW p \in Procs, proc[p].pc # "idle", Processed(p),
           StoreKept, RowsKept, FinTypeOK' /\ FinTold'
    PROVE  CommandKept
<1>1. CmdsWell /\ ProcsWell /\ CancelTypeOK
  BY CommandsSplit DEF Inv, TypeOK, HeldExists
<1>2. PICK i \in CmdIds : i = proc[p].cmd
  BY <1>1 DEF ProcsWell
<1>3. CmdsWell'
  BY <1>1, <1>2, CmdMarked DEF Processed
<1>4. ProcsWell' /\ CancelTypeOK'
  BY <1>1, ProcRests DEF Processed, CancelTypeOK
<1> QED
  BY <1>3, <1>4 DEF CommandKept

(* The steps with a decision about a gate: what QueueResumed starts from.  *)
LEMMA DecidedSteps ==
    ASSUME StoreTypeOK, NEW s \in StepIds, Exists(s), NEW status \in StepStatuses
    PROVE  /\ Decided(s, status) \in
                [StepIds -> [node : Nodes \cup {NoNode},
                             status : StepStatuses \cup {"none"}]]
           /\ \A o \in StepIds :
                 Decided(s, status)[o].status = "none"
                     <=> Decided(s, status)[o].node = NoNode
           /\ \A o \in StepIds : Exists(o) => Decided(s, status)[o].status # "none"
<1> DEFINE st == Decided(s, status)
<1>1. /\ \A o \in StepIds : st[o].node = steps[o].node
      /\ st[s].status = status
      /\ \A o \in StepIds : o # s => st[o] = steps[o]
  BY DEF Decided, StoreTypeOK
<1>2. st \in [StepIds -> [node : Nodes \cup {NoNode},
                          status : StepStatuses \cup {"none"}]]
  BY DEF Decided, StoreTypeOK
<1>3. steps[s].node # NoNode /\ status # "none"
  BY DEF StoreTypeOK, Exists, StepStatuses
<1> HIDE DEF st
<1>4. /\ \A o \in StepIds : st[o].status = "none" <=> st[o].node = NoNode
      /\ \A o \in StepIds : Exists(o) => st[o].status # "none"
  BY <1>1, <1>3 DEF StoreTypeOK, Exists
<1> QED
  BY <1>2, <1>4 DEF st

(* A resume from such steps keeps the rows.                                *)
LEMMA ResumeKept ==
    ASSUME StoreTypeOK, exec' \in ExecStatuses,
           NEW st \in [StepIds -> [node : Nodes \cup {NoNode},
                                  status : StepStatuses \cup {"none"}]],
           \A o \in StepIds : st[o].status = "none" <=> st[o].node = NoNode,
           \A o \in StepIds : Exists(o) => st[o].status # "none",
           NEW targets \in Seq(Nodes), NEW gone \in SUBSET StepIds,
           QueueResumed(st, targets, gone)
    PROVE  StoreKept /\ RowsKept
<1>1. PICK added \in SUBSET StepIds : Post(gone, added) /\ \A o \in added : Exists(o)'
  BY ResumedSteps
<1>2. StoreKept
  BY ResumedSteps DEF StoreKept, StoreTypeOK
<1>3. RowsKept
  BY <1>1, RowsPosted
<1> QED
  BY <1>2, <1>3

(* A new command is about a step that exists, or names a target of one.    *)
LEMMA CommandWritten ==
    ASSUME Inv, NEW i \in CmdIds, WriteCommand(i) PROVE CommandKept
<1>1. /\ StoreTypeOK /\ FinTypeOK /\ FinTold /\ exec' \in ExecStatuses
      /\ CmdsWell /\ ProcsWell /\ CancelTypeOK
      /\ UNCHANGED <<steps, queueVars, fin, proc, cancel>>
  BY CommandsSplit
     DEF Inv, TypeOK, HeldExists, StoreTypeOK, WriteCommand, storeVars
<1>2. StoreKept /\ RowsKept
  BY <1>1, StepsSame, RowsSame
<1>3. FinTypeOK' /\ FinTold' /\ ProcsWell' /\ CancelTypeOK'
  BY <1>1, FinSame DEF ProcsWell, CancelTypeOK
<1>4. ASSUME NEW t \in Commands, cmds' = [cmds EXCEPT ![i] = t],
             t.type \in {"approve", "reject", "timeout"} =>
                t.step \in StepIds /\ Exists(t.step),
             t.type = "resume" => t.node \in Nodes
      PROVE  CmdsWell'
  <2>1. cmds' \in [CmdIds -> Commands]
    BY <1>1, <1>4 DEF CmdsWell
  <2>2. ASSUME NEW j \in CmdIds
        PROVE  /\ (cmds[j].type \in {"approve", "reject", "timeout"} =>
                     cmds[j].step \in StepIds /\ Exists(cmds[j].step))'
               /\ cmds'[j].type = "resume" => cmds'[j].node \in Nodes
    <3>1. CASE j = i
      <4>1. cmds'[j] = t
        BY <1>1, <1>4, <3>1 DEF CmdsWell
      <4> QED
        BY <1>2, <1>4, <4>1 DEF StoreKept, Exists
    <3>2. CASE j # i
      <4>1. cmds'[j] = cmds[j]
        BY <1>1, <1>4, <3>2 DEF CmdsWell
      <4> QED
        BY <1>1, <1>2, <4>1 DEF CmdsWell, StoreKept, Exists
    <3> QED
      BY <3>1, <3>2
  <2> QED
    BY <2>1, <2>2 DEF CmdsWell
<1>5. ASSUME NEW type \in CmdTypes \cap {"approve", "reject", "timeout"},
             NEW s \in {o \in StepIds : steps[o].status = "WAITING"},
             cmds' = [cmds EXCEPT ![i] = [type |-> type, step |-> s,
                                          node |-> NoNode, status |-> "pending"]]
      PROVE  CmdsWell'
  <2> DEFINE t == [type |-> type, step |-> s, node |-> NoNode, status |-> "pending"]
  <2>1. t \in Commands /\ t.type = type /\ t.step = s
    BY DEF Commands
  <2>2. s \in StepIds /\ Exists(s)
    BY DEF Exists
  <2>3. t.type # "resume"
    BY <2>1
  <2> HIDE DEF t
  <2>4. t.step \in StepIds /\ Exists(t.step)
    BY <2>1, <2>2
  <2> QED
    BY <1>4, <1>5, <2>1, <2>3, <2>4 DEF t
<1>6. ASSUME "cancel" \in CmdTypes,
             cmds' = [cmds EXCEPT ![i] = [type |-> "cancel", step |-> 0,
                                          node |-> NoNode, status |-> "pending"]]
      PROVE  CmdsWell'
  <2> DEFINE t == [type |-> "cancel", step |-> 0, node |-> NoNode, status |-> "pending"]
  <2>1. t \in Commands /\ t.type = "cancel"
    BY <1>6 DEF Commands
  <2> HIDE DEF t
  <2> QED
    BY <1>4, <1>6, <2>1 DEF t
<1>7. ASSUME "resume" \in CmdTypes,
             NEW s \in {o \in StepIds : steps[o].status \in {"COMPLETED", "FAILED"}},
             NEW n \in Targets(Workflow, steps[s].node),
             cmds' = [cmds EXCEPT ![i] = [type |-> "resume", step |-> 0,
                                          node |-> n, status |-> "pending"]]
      PROVE  CmdsWell'
  <2> DEFINE t == [type |-> "resume", step |-> 0, node |-> n, status |-> "pending"]
  <2>1. steps[s].node \in Nodes
    BY <1>1 DEF StoreTypeOK
  <2>2. /\ Workflow[steps[s].node].success \in Seq(Nodes)
        /\ Workflow[steps[s].node].error \in Seq(Nodes)
    BY <2>1, NextStepIdsType
  <2>3. n \in Nodes
    BY <2>2 DEF Targets, ToSet
  <2>4. t \in Commands /\ t.type = "resume" /\ t.node = n
    BY <1>7, <2>3 DEF Commands
  <2> HIDE DEF t
  <2> QED
    BY <1>4, <1>7, <2>3, <2>4 DEF t
<1>8. CmdsWell'
  BY <1>5, <1>6, <1>7 DEF WriteCommand
<1> QED
  BY <1>2, <1>3, <1>8 DEF CommandKept

(* A processor selects, locks and reads; a handler fails; all without      *)
(* effect on the execution.                                                *)
LEMMA CommandTaken ==
    ASSUME Inv, NEW p \in Procs,
           \/ \E i \in CmdIds : CmdSelect(p, i)
           \/ CmdLock(p) \/ CmdRead(p) \/ CmdFails(p)
    PROVE  CommandKept
<1>1. /\ StoreTypeOK /\ FinTypeOK /\ FinTold /\ exec' \in ExecStatuses
      /\ CmdsWell /\ ProcsWell /\ CancelTypeOK
      /\ UNCHANGED <<steps, queueVars, fin, cancel>>
  BY CommandsSplit
     DEF Inv, TypeOK, HeldExists, StoreTypeOK, CmdSelect, CmdLock,
                       CmdRead, CmdFails, storeVars
<1>2. StoreKept /\ RowsKept
  BY <1>1, StepsSame, RowsSame
<1>3. FinTypeOK' /\ FinTold' /\ CancelTypeOK'
  BY <1>1, FinSame DEF CancelTypeOK
<1>4. ASSUME CmdsWell', ProcsWell' PROVE CommandKept
  BY <1>2, <1>3, <1>4 DEF CommandKept
<1>5. proc \in [Procs -> Processors] /\ proc[p] \in Processors
  BY <1>1 DEF ProcsWell
<1>6. ASSUME NEW i \in CmdIds, CmdSelect(p, i) PROVE CommandKept
  <2>0. PICK idle \in Processors : idle = ProcIdle
    BY IdleProcessor
  <2> DEFINE t == [idle EXCEPT !.pc = "selected", !.cmd = i]
  <2>1. t \in Processors /\ t.cmd = i
    BY DEF Processors
  <2>2. proc' = [proc EXCEPT ![p] = t] /\ UNCHANGED cmds
    BY <1>6, <2>0 DEF CmdSelect
  <2> HIDE DEF t
  <2> QED
    BY <1>1, <1>2, <1>4, <2>1, <2>2, CmdsSame, ProcMoves
<1>7. CASE CmdLock(p)
  <2> DEFINE t == [proc[p] EXCEPT !.pc = "locked"]
  <2>1. t \in Processors /\ t.cmd = proc[p].cmd
    BY <1>5 DEF Processors
  <2>2. /\ proc' = [proc EXCEPT ![p] = ProcIdle] \/ proc' = [proc EXCEPT ![p] = t]
        /\ UNCHANGED cmds
    BY <1>5, <1>7 DEF CmdLock
  <2>3. proc[p].cmd \in CmdIds
    BY <1>1, <1>7 DEF CmdLock, ProcsWell
  <2> HIDE DEF t
  <2> QED
    BY <1>1, <1>2, <1>4, <2>1, <2>2, <2>3, CmdsSame, ProcMoves, ProcRests
<1>8. CASE CmdRead(p)
  <2> DEFINE s == cmds[proc[p].cmd].step
  <2> DEFINE mem == IF s = 0 THEN "none" ELSE steps[s].status
  <2> DEFINE t == [proc[p] EXCEPT !.pc = "read", !.mem = mem]
  <2>1. proc[p].cmd \in CmdIds
    BY <1>1, <1>8 DEF CmdRead, ProcsWell
  <2>2. s \in StepIds \cup {0}
    BY <1>1, <2>1 DEF CmdsWell, Commands
  <2>3. mem \in StepStatuses \cup {"none"}
    BY <1>1, <2>2 DEF StoreTypeOK
  <2>4. proc' = [proc EXCEPT ![p] = t] /\ UNCHANGED cmds
    BY <1>5, <1>8 DEF CmdRead
  <2> HIDE DEF mem
  <2>5. t \in Processors /\ t.cmd = proc[p].cmd
    BY <1>5, <2>3 DEF Processors
  <2> HIDE DEF t
  <2> QED
    BY <1>1, <1>2, <1>4, <2>1, <2>4, <2>5, CmdsSame, ProcMoves
<1>9. CASE CmdFails(p)
  <2>1. PICK i \in CmdIds : i = proc[p].cmd
    BY <1>1, <1>9 DEF CmdFails, ProcsWell
  <2>2. CmdsWell'
    BY <1>1, <1>2, <1>9, <2>1, CmdMarked DEF CmdFails
  <2> QED
    BY <1>1, <1>4, <1>9, <2>2, ProcRests DEF CmdFails
<1> QED
  BY <1>6, <1>7, <1>8, <1>9

(* A decision about a gate.                                                *)
LEMMA CommandDecides ==
    ASSUME Inv, NEW p \in Procs, Approve(p) \/ Refuse(p) \/ AlreadyDecided(p)
    PROVE  CommandKept
<1>1. StoreTypeOK /\ FinTypeOK /\ FinTold /\ exec \in ExecStatuses
  BY DEF Inv, TypeOK, StoreTypeOK
<1>2. proc[p].pc # "idle" /\ Processed(p)
  BY DEF Approve, Refuse, AlreadyDecided, Handles
<1>3. PICK s \in StepIds : /\ s = cmds[proc[p].cmd].step
                           /\ Exists(s) /\ steps[s].node \in Nodes
  BY HandledCommand DEF Approve, Refuse, AlreadyDecided
<1>4. ASSUME exec' \in ExecStatuses, NEW status \in {"COMPLETED", "FAILED"},
             NEW targets \in Seq(Nodes), NEW gone \in SUBSET StepIds,
             QueueResumed(Decided(s, status), targets, gone)
      PROVE  StoreKept /\ RowsKept
  <2>1. status \in StepStatuses
    BY DEF StepStatuses
  <2>2. PICK st : st = Decided(s, status)
    OBVIOUS
  <2>3. /\ st \in [StepIds -> [node : Nodes \cup {NoNode},
                               status : StepStatuses \cup {"none"}]]
        /\ \A o \in StepIds : st[o].status = "none" <=> st[o].node = NoNode
        /\ \A o \in StepIds : Exists(o) => st[o].status # "none"
    BY <1>1, <1>3, <2>1, <2>2, DecidedSteps
  <2>4. QueueResumed(st, targets, gone)
    BY <1>4, <2>2
  <2> QED
    BY <1>1, <1>4, <2>3, <2>4, ResumeKept
<1>5. /\ Workflow[steps[s].node].success \in Seq(Nodes)
      /\ Workflow[steps[s].node].error \in Seq(Nodes)
      /\ LinearNext(Workflow, steps[s].node) \in Seq(Nodes)
  BY <1>3, NextStepIdsType, LinearNextType
<1>6. CASE Approve(p)
  <2>1. PICK next \in Seq(Nodes) :
           next = IF Workflow[steps[s].node].success # << >>
                  THEN Workflow[steps[s].node].success
                  ELSE LinearNext(Workflow, steps[s].node)
    BY <1>5
  <2>2. /\ QueueResumed(Decided(s, "COMPLETED"), next, {}) /\ UNCHANGED exec
        /\ UNCHANGED fin \/ StartFinalize(p, "COMPLETED")
    BY <1>3, <1>6, <2>1 DEF Approve
  <2>3. FinTypeOK' /\ FinTold'
    BY <1>1, <2>2, FinStarted, FinSame DEF Actors, Outcomes
  <2>4. StoreKept /\ RowsKept
    BY <1>1, <1>4, <2>2
  <2> QED
    BY <1>2, <2>3, <2>4, CommandDone
<1>7. CASE Refuse(p)
  <2>1. PICK next \in Seq(Nodes) : next = Workflow[steps[s].node].error
    BY <1>5
  <2>2. PICK gone \in SUBSET StepIds : gone = IF Handles(p, "timeout") THEN {s} ELSE {}
    OBVIOUS
  <2>3. QueueResumed(Decided(s, "FAILED"), next, gone)
    BY <1>3, <1>7, <2>1, <2>2 DEF Refuse
  <2>4. exec' \in ExecStatuses /\ UNCHANGED fin
    BY <1>1, <1>7 DEF Refuse, ExecStatuses
  <2>5. FinTypeOK' /\ FinTold'
    BY <1>1, <2>4, FinSame
  <2>6. StoreKept /\ RowsKept
    BY <1>4, <2>3, <2>4
  <2> QED
    BY <1>2, <2>5, <2>6, CommandDone
<1>8. CASE AlreadyDecided(p)
  <2>1. UNCHANGED <<exec, steps, queueVars, fin>>
    BY <1>8 DEF AlreadyDecided, storeVars
  <2>2. StoreKept /\ RowsKept /\ FinTypeOK' /\ FinTold'
    BY <1>1, <2>1, StepsSame, RowsSame, FinSame
  <2> QED
    BY <1>2, <2>2, CommandDone
<1> QED
  BY <1>6, <1>7, <1>8

(* A cancel command and a resume command.                                  *)
LEMMA CommandCancelsOrResumes ==
    ASSUME Inv, NEW p \in Procs, CancelCommand(p) \/ ResumeCommand(p)
    PROVE  CommandKept
<1>1. StoreTypeOK /\ FinTypeOK /\ FinTold /\ exec \in ExecStatuses
  BY DEF Inv, TypeOK, StoreTypeOK
<1>2. proc[p].pc # "idle" /\ Processed(p) /\ UNCHANGED fin
  BY DEF CancelCommand, ResumeCommand, Handles
<1>3. FinTypeOK' /\ FinTold'
  BY <1>1, <1>2, FinSame
<1>4. ASSUME UNCHANGED <<steps, queueVars>>, UNCHANGED exec PROVE StoreKept /\ RowsKept
  BY <1>1, <1>4, StepsSame, RowsSame
<1>5. CASE CancelCommand(p)
  <2>1. CASE exec' = "CANCELLED" /\ steps' = CancelledSteps /\ DeleteRows(StepIds)
    <3>1. exec' \in ExecStatuses
      BY <2>1 DEF ExecStatuses
    <3>2. StoreKept
      BY <1>1, <2>1, <3>1, StepsCancelled
    <3>3. RowsKept
      BY <2>1, RowsPosted DEF DeleteRows
    <3> QED
      BY <1>2, <1>3, <3>2, <3>3, CommandDone
  <2>2. CASE UNCHANGED <<storeVars, queueVars>>
    <3>1. StoreKept /\ RowsKept
      BY <1>4, <2>2 DEF storeVars
    <3> QED
      BY <1>2, <1>3, <3>1, CommandDone
  <2> QED
    BY <1>5, <2>1, <2>2 DEF CancelCommand
<1>6. CASE ResumeCommand(p)
  <2>1. UNCHANGED exec
    BY <1>6 DEF ResumeCommand
  <2>2. CASE QueueResumed(steps, << cmds[proc[p].cmd].node >>, {})
    <3>0. PICK n \in Nodes : n = cmds[proc[p].cmd].node
      BY <1>6, HandledCommand DEF ResumeCommand
    <3>1. PICK targets \in Seq(Nodes) : targets = << cmds[proc[p].cmd].node >>
      <4>1. << n >> \in Seq(Nodes)
        OBVIOUS
      <4> QED
        BY <3>0, <4>1
    <3>2. PICK st : st = steps
      OBVIOUS
    <3>3. /\ st \in [StepIds -> [node : Nodes \cup {NoNode},
                                 status : StepStatuses \cup {"none"}]]
          /\ \A o \in StepIds : st[o].status = "none" <=> st[o].node = NoNode
          /\ \A o \in StepIds : Exists(o) => st[o].status # "none"
      BY <1>1, <3>2 DEF StoreTypeOK, Exists
    <3>4. QueueResumed(st, targets, {})
      BY <2>2, <3>1, <3>2
    <3>5. StoreKept /\ RowsKept
      BY <1>1, <2>1, <3>3, <3>4, ResumeKept
    <3> QED
      BY <1>2, <1>3, <3>5, CommandDone
  <2>3. CASE UNCHANGED <<steps, queueVars>>
    <3>1. StoreKept /\ RowsKept
      BY <1>4, <2>1, <2>3
    <3> QED
      BY <1>2, <1>3, <3>1, CommandDone
  <2> QED
    BY <1>6, <2>2, <2>3 DEF ResumeCommand
<1> QED
  BY <1>5, <1>6

(* The cancellation request, which needs no command.                       *)
LEMMA CancelStep ==
    ASSUME Inv, Cancel, UNCHANGED <<fin, cmds, proc>> PROVE CommandKept
<1>1. /\ StoreTypeOK /\ FinTypeOK /\ FinTold /\ exec \in ExecStatuses
      /\ CmdsWell /\ ProcsWell
  BY CommandsSplit DEF Inv, TypeOK, HeldExists, StoreTypeOK
<1>2. exec' \in ExecStatuses /\ CancelTypeOK'
  BY <1>1 DEF Cancel, CancelRequest, CancelSteps, CancelRows, storeVars,
              CancelTypeOK, ExecStatuses
<1>3. StoreKept
  BY <1>1, <1>2, StepsSame, StepsCancelled
     DEF Cancel, CancelRequest, CancelSteps, CancelRows, storeVars
<1>4. RowsKept
  BY RowsSame, RowsPosted
     DEF Cancel, CancelRequest, CancelSteps, CancelRows, DeleteRows
<1>5. FinTypeOK' /\ FinTold' /\ CmdsWell' /\ ProcsWell'
  BY <1>1, <1>3, FinSame, CmdsSame DEF ProcsWell
<1> QED
  BY <1>2, <1>3, <1>4, <1>5 DEF CommandKept

(* Every step of the approvers, the processors and the cancellation.       *)
LEMMA CommandStep == Inv /\ CommandNext => CommandKept
<1> SUFFICES ASSUME Inv, CommandNext PROVE CommandKept
  OBVIOUS
<1>1. /\ StoreTypeOK /\ FinTypeOK /\ FinTold
      /\ CmdsWell /\ ProcsWell /\ CancelTypeOK
  BY CommandsSplit DEF Inv, TypeOK, HeldExists
<1>2. ASSUME NEW p \in Procs, Process(p) PROVE CommandKept
  BY <1>2, CommandTaken, CommandDecides, CommandCancelsOrResumes DEF Process
<1>3. ASSUME NEW p \in Procs, ProcFinalize(p) PROVE CommandKept
  <2>1. StoreKept /\ RowsKept /\ FinTypeOK' /\ FinTold'
    BY <1>1, <1>3, FinalizeStep DEF ProcFinalize, Actors
  <2>2. CmdsWell' /\ ProcsWell' /\ CancelTypeOK'
    BY <1>1, <1>3, <2>1, CmdsSame
       DEF ProcFinalize, commandVars, ProcsWell, CancelTypeOK
  <2> QED
    BY <2>1, <2>2 DEF CommandKept
<1>4. ASSUME NEW p \in Procs, ProcCrash(p) PROVE CommandKept
  <2>1. exec' \in ExecStatuses /\ UNCHANGED steps /\ UNCHANGED queueVars
    BY <1>1, <1>4 DEF ProcCrash, storeVars, StoreTypeOK
  <2>2. StoreKept /\ RowsKept
    BY <1>1, <2>1, StepsSame, RowsSame
  <2>3. FinTypeOK' /\ FinTold'
    BY <1>1, <1>4, FinStopped DEF ProcCrash, Actors
  <2>4. CmdsWell' /\ ProcsWell' /\ CancelTypeOK'
    BY <1>1, <1>4, <2>2, CmdsSame, ProcRests DEF ProcCrash, CancelTypeOK
  <2> QED
    BY <2>2, <2>3, <2>4 DEF CommandKept
<1> QED
  BY <1>2, <1>3, <1>4, CommandWritten, CancelStep DEF CommandNext
-----------------------------------------------------------------------------
(* No step breaks the invariant, and each is a step of the queue.          *)
LEMMA EngineStep == Inv /\ [Next]_vars => Inv' /\ RowsKept
<1> SUFFICES ASSUME Inv, [Next]_vars PROVE Inv' /\ RowsKept
  OBVIOUS
<1>1. /\ StoreTypeOK /\ QueueTypeOK /\ FinTypeOK /\ FinTold /\ WorkerTypeOK
      /\ LocksExclusive /\ RowsHeld /\ LauncherHeld /\ TasksHeld
      /\ CmdsWell /\ ProcsWell /\ CancelTypeOK
  BY CommandsSplit DEF Inv, TypeOK, HeldExists
<1>2. ASSUME StoreKept, RowsKept, FinTypeOK', FinTold', WorkerTypeOK',
             LauncherHeld', TasksHeld', CmdsWell', ProcsWell', CancelTypeOK'
      PROVE  Inv' /\ RowsKept
  <2>1. QueueTypeOK' /\ LocksExclusive' /\ RowsHeld'
    BY <1>1, <1>2, RowsStayHeld
  <2>2. CommandTypeOK' /\ CommandsHeld'
    BY <1>2 DEF CommandTypeOK, CommandsHeld, CmdsWell, ProcsWell, Commands,
                Processors
  <2>3. StoreTypeOK'
    BY <1>2 DEF StoreKept
  <2> QED
    BY <1>2, <2>1, <2>2, <2>3 DEF Inv, TypeOK, HeldExists
<1>3. ASSUME WorkerNext, UNCHANGED commandVars PROVE Inv' /\ RowsKept
  <2>1. WorkerKept
    BY InvParts, <1>3, WorkerStep
  <2>2. CmdsWell' /\ ProcsWell' /\ CancelTypeOK'
    BY <1>1, <1>3, <2>1, CmdsSame
       DEF commandVars, WorkerKept, ProcsWell, CancelTypeOK
  <2> QED
    BY <1>2, <2>1, <2>2 DEF WorkerKept
<1>4. ASSUME CommandNext, UNCHANGED workerVars PROVE Inv' /\ RowsKept
  <2>1. CommandKept
    BY <1>4, CommandStep
  <2>2. WorkerTypeOK' /\ LauncherHeld' /\ TasksHeld'
    BY <1>1, <1>4, <2>1, LauncherSame, TasksSame
       DEF workerVars, CommandKept, WorkerTypeOK
  <2> QED
    BY <1>2, <2>1, <2>2 DEF CommandKept
<1>5. ASSUME UNCHANGED vars PROVE Inv' /\ RowsKept
  <2>1. exec' \in ExecStatuses /\ UNCHANGED steps /\ UNCHANGED queueVars
    BY <1>1, <1>5 DEF vars, storeVars, StoreTypeOK
  <2>2. StoreKept /\ RowsKept
    BY <1>1, <2>1, StepsSame, RowsSame
  <2>3. FinTypeOK' /\ FinTold'
    BY <1>1, <1>5, FinSame DEF vars
  <2>4. WorkerTypeOK' /\ LauncherHeld' /\ TasksHeld'
    BY <1>1, <1>5, <2>2, LauncherSame, TasksSame
       DEF vars, workerVars, WorkerTypeOK
  <2>5. CmdsWell' /\ ProcsWell' /\ CancelTypeOK'
    BY <1>1, <1>5, <2>2, CmdsSame
       DEF vars, commandVars, ProcsWell, CancelTypeOK
  <2> QED
    BY <1>2, <2>2, <2>3, <2>4, <2>5
<1> QED
  BY <1>3, <1>4, <1>5 DEF Next

(* The invariant of the whole engine.                                      *)
LEMMA EngineInvariant == Spec => []Inv
BY InitialTypes, EngineStep, PTL DEF Spec

(* Every row, task and command is well typed, whatever crashes, races or   *)
(* cancellations there are, and for any workflow and number of tasks.      *)
THEOREM TypeCorrect == Spec => []TypeOK
<1>1. Inv => TypeOK
  BY DEF Inv
<1> QED
  BY <1>1, EngineInvariant, PTL

(* No row of the queue, no task and no command ever refers to a step that  *)
(* does not exist: a task may always write its step (the saves of          *)
(* execute_single_step look at nothing).                                   *)
THEOREM NothingDangles == Spec => []HeldExists
<1>1. Inv => HeldExists
  BY DEF Inv
<1> QED
  BY <1>1, EngineInvariant, PTL

(* The engine uses the queue as runnable_steps.py offers it: whatever its  *)
(* launcher, claimers, tasks, processors and cancellation do to the rows   *)
(* is a behaviour of the work queue on its own.                            *)
THEOREM EngineUsesQueue == Spec => QueueSpec
<1>1. Init => QueueInit
  BY DEF Init
<1>2. Inv /\ [Next]_vars => [QueueNext]_queueVars
  BY EngineStep DEF RowsKept
<1> QED
  BY <1>1, <1>2, EngineInvariant, PTL DEF Spec, QueueSpec

(* So what is proved of the queue holds in the engine: no step is claimed  *)
(* more often than its attempts and the claims in flight allow.            *)
THEOREM EngineAttempts == Spec => []AttemptsBounded
BY EngineUsesQueue, AttemptLimit, PTL
-----------------------------------------------------------------------------
(* PendingIsQueued.  A step that is PENDING stays reachable because nobody *)
(* makes a step PENDING again, and whoever deletes a row has seen its step *)
(* begin or the execution end.                                             *)
Unborn ==
    exec = "SUBMITTED" =>
        launcher.pc = "ready" /\ \A o \in StepIds : ~Exists(o)

TasksBegun ==
    \A w \in Workers : wk[w].pc \in Begun => steps[wk[w].sid].status # "PENDING"

AboutGate(i) == cmds[i].type \in {"approve", "reject", "timeout"}

GatesOpened ==
    \A i \in CmdIds : AboutGate(i) => steps[cmds[i].step].status # "PENDING"

CancelOver == cancel # "none" => exec \notin {"SUBMITTED", "RUNNING"}

PendInv == Unborn /\ TasksBegun /\ GatesOpened /\ CancelOver /\ PendingIsQueued

(* Step o is known to the queue, or the launcher is about to queue it.     *)
Waits(o) == Queued(o) \/ (launcher.pc = "enqueue" /\ launcher.ctr = o)

(* What every step of the system does to the steps that wait.              *)
StepsForward ==
    \A o \in StepIds : steps'[o].status = "PENDING" =>
        steps[o].status = "PENDING" \/ (~Exists(o) /\ Waits(o)')

RowsForward ==
    exec' = "RUNNING" =>
        \A o \in StepIds : steps'[o].status = "PENDING" /\ Waits(o) => Waits(o)'

ExecForward ==
    /\ exec' = "SUBMITTED" => exec = "SUBMITTED" /\ UNCHANGED <<steps, launcher>>
    /\ exec' = "RUNNING" =>
          exec = "RUNNING" \/ (exec = "SUBMITTED" /\ UNCHANGED steps)
    /\ cancel' # "none" => cancel # "none" \/ exec' = "CANCELLED"

TasksForward ==
    \A w \in Workers : wk'[w].pc \in Begun =>
        \/ wk[w].pc \in Begun /\ wk'[w].sid = wk[w].sid
        \/ steps'[wk'[w].sid].status # "PENDING"

GatesForward ==
    \A i \in CmdIds : AboutGate(i)' =>
        \/ AboutGate(i) /\ cmds'[i].step = cmds[i].step
        \/ steps'[cmds'[i].step].status # "PENDING"

Forward ==
    StepsForward /\ RowsForward /\ ExecForward /\ TasksForward /\ GatesForward

LEMMA PendKept ==
    ASSUME Inv, PendInv, Forward PROVE PendInv'
<1> USE DEF Inv, PendInv, Forward
<1>1. Unborn'
  BY DEF Unborn, ExecForward, Exists
<1>2. TasksBegun'
  <2> SUFFICES ASSUME NEW w \in Workers, wk'[w].pc \in Begun
               PROVE  steps'[wk'[w].sid].status # "PENDING"
    BY DEF TasksBegun
  <2>1. CASE wk[w].pc \in Begun /\ wk'[w].sid = wk[w].sid
    <3>1. wk[w].sid \in StepIds /\ Exists(wk[w].sid)
      BY <2>1 DEF HeldExists, TasksHeld, Begun
    <3>2. steps[wk[w].sid].status # "PENDING"
      BY <2>1 DEF TasksBegun
    <3> QED
      BY <2>1, <3>1, <3>2 DEF StepsForward
  <2> QED
    BY <2>1 DEF TasksForward
<1>3. GatesOpened'
  <2> SUFFICES ASSUME NEW i \in CmdIds, AboutGate(i)'
               PROVE  steps'[cmds'[i].step].status # "PENDING"
    BY DEF GatesOpened
  <2>1. CASE AboutGate(i) /\ cmds'[i].step = cmds[i].step
    <3>1. cmds[i].step \in StepIds /\ Exists(cmds[i].step)
      BY <2>1 DEF HeldExists, CommandsHeld, AboutGate
    <3>2. steps[cmds[i].step].status # "PENDING"
      BY <2>1 DEF GatesOpened
    <3> QED
      BY <2>1, <3>1, <3>2 DEF StepsForward
  <2> QED
    BY <2>1 DEF GatesForward
<1>4. CancelOver'
  BY DEF CancelOver, ExecForward, TypeOK, CommandTypeOK, CancelTypeOK
<1>5. PendingIsQueued'
  <2> SUFFICES ASSUME exec' = "RUNNING", NEW o \in StepIds,
                      steps'[o].status = "PENDING"
               PROVE  Waits(o)'
    BY DEF PendingIsQueued, Waits
  <2>1. CASE exec = "RUNNING" /\ steps[o].status = "PENDING"
    BY <2>1 DEF PendingIsQueued, Waits, RowsForward
  <2>2. CASE ~Exists(o) /\ Waits(o)'
    BY <2>2
  <2>3. CASE exec = "SUBMITTED" /\ UNCHANGED steps
    BY <2>3 DEF Unborn, Exists
  <2> QED
    BY <2>1, <2>2, <2>3 DEF StepsForward, ExecForward
<1> QED
  BY <1>1, <1>2, <1>3, <1>4, <1>5

(* The launcher. *)
LEMMA LaunchForward ==
    ASSUME Inv, PendInv, UNCHANGED commandVars,
           Launch \/ LaunchCreate \/ LaunchCollides \/ LaunchEnqueue
    PROVE  Forward
<1> USE DEF Inv, PendInv
<1>0. /\ UNCHANGED <<wk, cmds, cancel>>
      /\ StepIds \subseteq Nat
      /\ launcher.ctr \in StepIds \cup {0}
      /\ steps \in [StepIds -> [node : Nodes \cup {NoNode},
                                status : StepStatuses \cup {"none"}]]
  BY StoreAssumption, FS_CardinalityType
     DEF commandVars, Launch, LaunchCreate, LaunchCollides, LaunchEnqueue,
         TypeOK, WorkerTypeOK, StoreTypeOK, StoreAssumption
<1>1. TasksForward /\ GatesForward
  <2>1. TasksForward
    BY <1>0
       DEF Launch, LaunchCreate, LaunchCollides, LaunchEnqueue, TasksForward,
              TasksBegun, storeVars
  <2>2. GatesForward
    BY <1>0 DEF GatesForward, AboutGate
  <2> QED
    BY <2>1, <2>2
<1>2. CASE Launch
  BY <1>0, <1>1, <1>2
     DEF Launch, Forward, StepsForward, RowsForward, ExecForward, Waits,
         Queued,
         queueVars
<1>3. CASE LaunchCreate
  <2>1. ExecForward
    BY <1>0, <1>3 DEF LaunchCreate, ExecForward, Unborn
  <2>2. StepsForward
    BY <1>0, <1>3 DEF LaunchCreate, StepsForward, Waits, Pending
  <2>3. RowsForward
    BY <1>0, <1>3 DEF LaunchCreate, RowsForward, Waits, Queued, queueVars
  <2> QED
    BY <1>1, <2>1, <2>2, <2>3 DEF Forward
<1>4. CASE LaunchCollides
  BY <1>0, <1>1, <1>4
     DEF LaunchCollides, Forward, StepsForward, RowsForward, ExecForward
<1>5. CASE LaunchEnqueue
  <2>1. \A o \in StepIds : Waits(o) => Queued(o)'
    BY <1>0, <1>5 DEF LaunchEnqueue, EnqueueRow, Post, Waits, Queued, NoRow
  <2>2. UNCHANGED <<exec, steps>> /\ exec # "SUBMITTED"
    BY <1>5 DEF LaunchEnqueue, storeVars, Unborn
  <2> QED
    BY <1>0, <1>1, <2>1, <2>2
       DEF Forward, StepsForward, RowsForward, ExecForward, Waits
<1> QED
  BY <1>2, <1>3, <1>4, <1>5

(* Whoever leaves the steps, the launcher and the rows where they are.     *)
LEMMA QuietForward ==
    ASSUME Inv, PendInv, UNCHANGED <<steps, launcher, cancel, cmds>>,
           \A o \in StepIds : Queued(o) => Queued(o)',
           exec' = exec \/ exec' \notin {"SUBMITTED", "RUNNING"},
           \A w \in Workers : wk'[w].pc \in Begun =>
              wk[w].pc \in Begun /\ wk'[w].sid = wk[w].sid
    PROVE  Forward
BY DEF Forward, StepsForward, RowsForward, ExecForward, TasksForward,
       GatesForward, Waits, AboutGate, Queued

LEMMA ClaimForward ==
    ASSUME Inv, PendInv, UNCHANGED commandVars,
           \/ \E c \in Claimers : Claim(c) \/ ClaimerCrash(c)
           \/ \E c \in Claimers, s \in StepIds : Dispatch(c, s)
           \/ \E s \in StepIds : LeaseRunsOut(s)
           \/ Reclaim
    PROVE  Forward
<1> USE DEF Inv
<1>1. UNCHANGED <<exec, steps, launcher, wk, cancel, cmds>>
  BY DEF Claim, ClaimerCrash, Dispatch, LeaseRunsOut, Reclaim, commandVars,
         storeVars, workerVars
<1>2. ASSUME NEW o \in StepIds, Queued(o) PROVE Queued(o)'
  <2>1. rows \in [StepIds -> [attempt : Nat, lease : Leases]]
    BY DEF TypeOK, QueueTypeOK
  <2>2. ASSUME NEW c \in Claimers, Claim(c) \/ ClaimerCrash(c) PROVE Queued(o)'
    BY <1>2, <2>1, <2>2 DEF Claim, ClaimerCrash, ClaimSelect, ClaimLock,
       ClaimCommit, ClaimAbort, Queued, queueVars
  <2>3. ASSUME NEW s \in StepIds, LeaseRunsOut(s) PROVE Queued(o)'
    BY <1>2, <2>1, <2>3 DEF LeaseRunsOut, LeaseExpires, Queued
  <2>4. CASE Reclaim
    BY <1>2, <2>1, <2>4 DEF Reclaim, ReclaimExpired, Queued
  <2> QED
    BY <1>2, <2>2, <2>3, <2>4 DEF Dispatch, queueVars, Queued
<1> QED
  BY <1>1, <1>2, QuietForward

(* A task writes a status other than PENDING into its own step.            *)
LEMMA WriteForward ==
    ASSUME Inv, PendInv, NEW w \in Workers, wk[w].pc # "idle",
           NEW status \in {"RUNNING", "COMPLETED", "FAILED", "SKIPPED", "WAITING"},
           SetStep(wk[w].sid, status),
           UNCHANGED <<exec, queueVars, launcher, cmds, cancel>>,
           wk'[w].sid = wk[w].sid,
           \A v \in Workers \ {w} : wk'[v] = wk[v]
    PROVE  Forward
<1> USE DEF Inv, PendInv
<1>1. /\ wk[w].sid \in StepIds /\ Exists(wk[w].sid)
      /\ steps \in [StepIds -> [node : Nodes \cup {NoNode},
                                status : StepStatuses \cup {"none"}]]
  BY DEF HeldExists, TasksHeld, TypeOK, StoreTypeOK
<1>2. /\ steps'[wk[w].sid].status = status
      /\ \A o \in StepIds : o # wk[w].sid => steps'[o] = steps[o]
  BY <1>1 DEF SetStep
<1>3. StepsForward
  BY <1>2 DEF StepsForward
<1>4. RowsForward
  BY DEF RowsForward, Waits, Queued, queueVars
<1>5. ExecForward
  BY <1>1 DEF ExecForward, Unborn
<1>6. TasksForward
  BY <1>2 DEF TasksForward
<1>7. GatesForward
  BY DEF GatesForward, AboutGate
<1> QED
  BY <1>3, <1>4, <1>5, <1>6, <1>7 DEF Forward

LEMMA EndForward ==
    ASSUME Inv, PendInv, NEW w \in Workers, wk[w].pc # "idle",
           NEW status \in {"COMPLETED", "FAILED", "SKIPPED", "WAITING"},
           NEW outcome, NEW next, EndStep(w, status, outcome, next),
           UNCHANGED commandVars
    PROVE  Forward
<1>1. wk \in [Workers -> Tasks] /\ wk[w] \in Tasks
  BY DEF Inv, TypeOK, WorkerTypeOK
<1>2. wk'[w].sid = wk[w].sid /\ \A v \in Workers \ {w} : wk'[v] = wk[v]
  BY <1>1 DEF EndStep, Tasks
<1>3. SetStep(wk[w].sid, status)
      /\ UNCHANGED <<exec, queueVars, launcher, cmds, cancel>>
  BY DEF EndStep, commandVars
<1> QED
  BY <1>2, <1>3, WriteForward

(* A task moves along or stops; the steps and the rows stay.               *)
LEMMA MoveForward ==
    ASSUME Inv, PendInv, NEW w \in Workers,
           UNCHANGED <<storeVars, queueVars, launcher, commandVars>>,
           \A v \in Workers \ {w} : wk'[v] = wk[v],
           wk'[w].pc \in Begun => wk[w].pc \in Begun /\ wk'[w].sid = wk[w].sid
    PROVE  Forward
<1>1. UNCHANGED <<exec, steps, launcher, cancel, cmds, rows>>
  BY DEF storeVars, commandVars, queueVars
<1>2. \A v \in Workers : wk'[v].pc \in Begun =>
         wk[v].pc \in Begun /\ wk'[v].sid = wk[v].sid
  OBVIOUS
<1> QED
  BY <1>1, <1>2, QuietForward DEF Queued

(* The step a task holds has begun, or is still to be begun by it.         *)
LEMMA SingleForward ==
    ASSUME Inv, PendInv, UNCHANGED commandVars, NEW w \in Workers,
           \/ BuildFails(w) \/ SkipStep(w) \/ BeginStep(w) \/ BeginRefused(w)
           \/ CheckCancelled(w) \/ FinishStep(w) \/ BreakStep(w) \/ OpenGate(w)
    PROVE  Forward
<1>0. wk[w].pc # "idle" /\ wk \in [Workers -> Tasks] /\ wk[w] \in Tasks
  BY
     DEF BuildFails, SkipStep, BeginStep, BeginRefused, CheckCancelled,
         FinishStep,
         BreakStep, OpenGate, Inv, TypeOK, WorkerTypeOK
<1>1. CASE BeginStep(w)
  <2>1. wk'[w].sid = wk[w].sid /\ \A v \in Workers \ {w} : wk'[v] = wk[v]
    BY <1>0, <1>1 DEF BeginStep, Tasks
  <2>2. SetStep(wk[w].sid, "RUNNING")
        /\ UNCHANGED <<exec, queueVars, launcher, cmds, cancel>>
    BY <1>1 DEF BeginStep, commandVars
  <2> QED
    BY <1>0, <2>1, <2>2, WriteForward
<1>2. CASE CheckCancelled(w) /\ exec # "CANCELLED"
  <2>1. wk' = [wk EXCEPT ![w].pc = "running"] /\ wk[w].pc = "begun"
        /\ UNCHANGED <<storeVars, queueVars, launcher>>
    BY <1>2 DEF CheckCancelled
  <2>2. \A v \in Workers \ {w} : wk'[v] = wk[v]
    BY <1>0, <2>1
  <2>3. wk[w].pc \in Begun /\ wk'[w].sid = wk[w].sid
    BY <1>0, <2>1 DEF Begun, Tasks
  <2> QED
    BY <2>1, <2>2, <2>3, MoveForward
<1>3. ASSUME NEW outcome \in {"COMPLETED", "FAILED", "CANCELLED"},
             EndStep(w, IF outcome = "COMPLETED" THEN "COMPLETED" ELSE "FAILED",
                     outcome, NextOf(w, outcome))
      PROVE  Forward
  <2>1. PICK status \in {"COMPLETED", "FAILED"} :
           status = IF outcome = "COMPLETED" THEN "COMPLETED" ELSE "FAILED"
    OBVIOUS
  <2>2. EndStep(w, status, outcome, NextOf(w, outcome))
    BY <1>3, <2>1
  <2> QED
    BY <1>0, <2>2, EndForward
<1>4. CASE BuildFails(w) \/ BeginRefused(w) \/ BreakStep(w)
           \/ (CheckCancelled(w) /\ exec = "CANCELLED")
  BY <1>0, <1>4, EndForward
     DEF BuildFails, BeginRefused, BreakStep, CheckCancelled
<1>5. CASE SkipStep(w)
  BY <1>0, <1>5, EndForward DEF SkipStep
<1>6. CASE OpenGate(w)
  BY <1>0, <1>6, EndForward DEF OpenGate
<1>7. CASE FinishStep(w)
  BY <1>3, <1>7 DEF FinishStep
<1> QED
  BY <1>1, <1>2, <1>4, <1>5, <1>6, <1>7

(* The rows a task deletes are those of steps that were processed.         *)
LEMMA StartForward ==
    ASSUME Inv, PendInv, UNCHANGED commandVars,
           NEW w \in Workers, NEW s \in StepIds, TaskStart(w, s)
    PROVE  Forward
<1> USE DEF Inv, PendInv
<1>0. /\ UNCHANGED <<exec, steps, launcher, cmds, cancel>>
      /\ wk \in [Workers -> Tasks] /\ Idle.pc = "idle"
  BY IdleTask DEF TaskStart, storeVars, commandVars, TypeOK, WorkerTypeOK
<1>1. \A v \in Workers : wk'[v].pc \in Begun =>
         wk[v].pc \in Begun /\ wk'[v].sid = wk[v].sid
  <2>1. CASE UNCHANGED wk
    BY <2>1
  <2>2. CASE ~ UNCHANGED wk
    <3>1. wk' = [wk EXCEPT ![w] = [Idle EXCEPT !.pc = "ready", !.sid = s,
                                     !.mem = steps[s].status, !.ctr = MaxOrder]]
      BY <2>2 DEF TaskStart
    <3>2. wk'[w].pc = "ready" /\ \A v \in Workers \ {w} : wk'[v] = wk[v]
      BY <1>0, <3>1 DEF Idle
    <3> QED
      BY <3>2 DEF Begun
  <2> QED
    BY <2>1, <2>2
<1>2. CASE UNCHANGED queueVars
  BY <1>0, <1>1, <1>2, QuietForward DEF queueVars, Queued
<1>3. CASE /\ steps[s].status \in {"COMPLETED", "FAILED", "SKIPPED"}
              \/ exec # "RUNNING"
           /\ DeleteRows({s})
  <2>1. \A o \in StepIds : o # s => (Queued(o) => Queued(o)')
    BY <1>3 DEF DeleteRows, Post, Queued
  <2>2. RowsForward
    BY <1>0, <1>3, <2>1 DEF RowsForward, Waits
  <2> QED
    BY <1>0, <1>1, <2>2
       DEF Forward, StepsForward, ExecForward, TasksForward, GatesForward,
           AboutGate
<1> QED
  BY <1>2, <1>3 DEF TaskStart

LEMMA ReleaseForward ==
    ASSUME Inv, PendInv, UNCHANGED commandVars, NEW w \in Workers, Release(w)
    PROVE  Forward
<1> USE DEF Inv, PendInv
<1>0. /\ UNCHANGED <<exec, steps, launcher, cmds, cancel>>
      /\ wk \in [Workers -> Tasks] /\ wk[w] \in Tasks /\ Idle.pc = "idle"
      /\ wk[w].pc = "release"
  BY IdleTask DEF Release, storeVars, commandVars, TypeOK, WorkerTypeOK
<1>1. \A v \in Workers : wk'[v].pc \in Begun =>
         wk[v].pc \in Begun /\ wk'[v].sid = wk[v].sid
  <2>0. "release" \in Begun /\ "idle" \notin Begun
    BY DEF Begun
  <2>1. CASE wk' = [wk EXCEPT ![w] = Idle]
    <3>1. wk'[w].pc = "idle" /\ \A v \in Workers \ {w} : wk'[v] = wk[v]
      BY <1>0, <2>1
    <3> QED
      BY <2>0, <3>1
  <2>2. CASE wk' = [wk EXCEPT ![w].pc = "enqueue"]
    <3>1. wk'[w].sid = wk[w].sid /\ \A v \in Workers \ {w} : wk'[v] = wk[v]
      BY <1>0, <2>2 DEF Tasks
    <3> QED
      BY <1>0, <2>0, <3>1
  <2> QED
    BY <2>1, <2>2 DEF Release
<1>2. \A o \in StepIds : o # wk[w].sid => (Queued(o) => Queued(o)')
  BY DEF Release, DeleteRows, Post, Queued
<1>3. steps[wk[w].sid].status # "PENDING"
  BY <1>0 DEF TasksBegun, Begun
<1>4. RowsForward
  BY <1>0, <1>2, <1>3 DEF RowsForward, Waits
<1> QED
  BY <1>0, <1>1, <1>4
     DEF Forward, StepsForward, ExecForward, TasksForward, GatesForward,
         AboutGate

LEMMA NextForward ==
    ASSUME Inv, PendInv, UNCHANGED commandVars, NEW w \in Workers,
           \/ NextExists(w) \/ NextQueued(w) \/ NextCollides(w)
           \/ WorkerFinalize(w) \/ WorkerCrash(w)
    PROVE  Forward
<1> USE DEF Inv, PendInv
<1>0. /\ wk \in [Workers -> Tasks] /\ wk[w] \in Tasks /\ Idle.pc = "idle"
      /\ "idle" \notin Begun /\ "enqueue" \in Begun
      /\ steps \in [StepIds -> [node : Nodes \cup {NoNode},
                                status : StepStatuses \cup {"none"}]]
  BY IdleTask DEF TypeOK, WorkerTypeOK, StoreTypeOK, Begun
<1>1. CASE NextExists(w)
  <2>1. FALSE \in BOOLEAN /\ wk[w].pc = "enqueue" /\ Advance(w, FALSE)
    BY <1>1 DEF NextExists
  <2>2. \A b \in BOOLEAN : Advance(w, b) =>
           /\ \A v \in Workers \ {w} : wk'[v] = wk[v]
           /\ wk'[w].pc # "idle" => wk[w].pc \in Begun /\ wk'[w].sid = wk[w].sid
    BY InvParts, <2>1, AdvanceStays
  <2>3. UNCHANGED <<storeVars, queueVars, launcher>>
    BY <1>1 DEF NextExists
  <2> QED
    BY <1>0, <2>1, <2>2, <2>3, MoveForward
<1>2. CASE NextCollides(w)
  <2>1. wk' = [wk EXCEPT ![w] = Idle] /\ UNCHANGED <<storeVars, queueVars, launcher>>
    BY <1>2 DEF NextCollides
  <2> QED
    BY <1>0, <2>1, MoveForward
<1>3. CASE WorkerCrash(w)
  <2>1. wk' = [wk EXCEPT ![w] = Idle] /\ UNCHANGED <<storeVars, queueVars, launcher>>
    BY <1>3 DEF WorkerCrash
  <2> QED
    BY <1>0, <2>1, MoveForward
<1>4. CASE WorkerFinalize(w)
  <2>1. UNCHANGED <<steps, queueVars, launcher, wk, cancel, cmds>>
    BY <1>4 DEF WorkerFinalize, Finalize, FinActive, FinWaiting, FinFailed,
              FinRefresh, FinCas, storeVars, commandVars
  <2>2. exec' = exec \/ exec' \notin {"SUBMITTED", "RUNNING"}
    BY <1>4 DEF WorkerFinalize, Finalize, FinActive, FinWaiting, FinFailed,
              FinRefresh, FinCas, storeVars, FinTold, Actors
  <2> QED
    BY <2>1, <2>2, QuietForward DEF Queued, queueVars
<1>5. CASE NextQueued(w)
  <2>1. PICK o \in StepIds :
           /\ ~Exists(o) /\ steps' = [steps EXCEPT ![o] = Pending(Head(wk[w].next))]
           /\ EnqueueRow(o)
    BY <1>5 DEF NextQueued
  <2>2. /\ UNCHANGED <<exec, launcher, cmds, cancel>> /\ wk[w].pc = "enqueue"
        /\ TRUE \in BOOLEAN /\ Advance(w, TRUE)
    BY <1>5 DEF NextQueued, commandVars
  <2>3. \A b \in BOOLEAN : Advance(w, b) =>
           /\ \A v \in Workers \ {w} : wk'[v] = wk[v]
           /\ wk'[w].pc # "idle" => wk[w].pc \in Begun /\ wk'[w].sid = wk[w].sid
    BY InvParts, <2>2, AdvanceStays
  <2>4. TasksForward
    BY <1>0, <2>2, <2>3 DEF TasksForward
  <2>5. Queued(o)' /\ \A q \in StepIds : Queued(q) => Queued(q)'
    BY <2>1 DEF EnqueueRow, Post, Queued, NoRow
  <2>6. StepsForward
    BY <1>0, <2>1, <2>5 DEF StepsForward, Waits
  <2>7. RowsForward
    BY <2>2, <2>5 DEF RowsForward, Waits
  <2>8. ExecForward
    BY <2>2 DEF ExecForward, Unborn, HeldExists, TasksHeld
  <2>9. GatesForward
    BY <2>2 DEF GatesForward, AboutGate
  <2> QED
    BY <2>4, <2>6, <2>7, <2>8, <2>9 DEF Forward
<1> QED
  BY <1>1, <1>2, <1>3, <1>4, <1>5

(* The rows a resume adds are those of steps that did not exist.           *)
LEMMA ResumedAreNew ==
    ASSUME StoreTypeOK, NEW st, NEW targets \in Seq(Nodes), NEW gone,
           QueueResumed(st, targets, gone)
    PROVE  \E added \in SUBSET StepIds :
              /\ Post(gone, added)
              /\ \A o \in added :
                    /\ ~Exists(o)
                    /\ steps'[o].status = "PENDING"
                    /\ steps'[o].node \in ToSet(targets)
              /\ \A o \in StepIds \ added : steps'[o] = st[o]
<1> DEFINE new == {i \in DOMAIN targets : ~ExistsForResume(st, targets[i])}
<1> DEFINE upto(i) == {j \in new : j <= i}
<1> DEFINE order(i) == MaxOrder + Cardinality(upto(i))
<1> DEFINE added == {order(i) : i \in new}
<1> DEFINE target(o) == targets[CHOOSE i \in new : order(i) = o]
<1>1. /\ added \subseteq StepIds
      /\ steps' = [o \in StepIds |-> IF o \in added THEN Pending(target(o)) ELSE st[o]]
      /\ Post(gone, added)
  BY DEF QueueResumed
<1>2. IsFiniteSet(DOMAIN targets)
  <2>1. DOMAIN targets = 1 .. Len(targets) /\ Len(targets) \in Nat
    OBVIOUS
  <2> QED
    BY <2>1, FS_Interval
<1>3. ASSUME NEW i \in new PROVE ~Exists(order(i)) \/ order(i) \notin StepIds
  <2>1. IsFiniteSet(upto(i)) /\ i \in upto(i)
    <3>1. upto(i) \subseteq DOMAIN targets
      OBVIOUS
    <3>2. i \in Nat
      OBVIOUS
    <3> QED
      BY <1>2, <3>1, <3>2, FS_Subset
  <2>2. Cardinality(upto(i)) \in Nat /\ Cardinality(upto(i)) # 0
    BY <2>1, FS_CardinalityType, FS_EmptySet
  <2>3. order(i) > MaxOrder /\ MaxOrder \in Nat
    BY <2>2, MaxOrderBound
  <2> HIDE DEF order
  <2>4. order(i) \in StepIds /\ Exists(order(i)) => order(i) <= MaxOrder
    BY MaxOrderBound
  <2>5. order(i) \in StepIds => order(i) \in Nat
    BY StoreAssumption, FS_CardinalityType DEF StoreAssumption
  <2> QED
    BY <2>3, <2>4, <2>5
<1>4. \A o \in added : ~Exists(o)
  BY <1>1, <1>3
<1>5. \A o \in added : target(o) \in ToSet(targets)
  <2>1. SUFFICES ASSUME NEW o \in added PROVE target(o) \in ToSet(targets)
    OBVIOUS
  <2>2. \E i \in new : order(i) = o
    OBVIOUS
  <2>3. (CHOOSE i \in new : order(i) = o) \in DOMAIN targets
    BY <2>2
  <2> QED
    BY <2>3 DEF ToSet
<1> HIDE DEF added, target
<1>6. ASSUME NEW o \in added
      PROVE  /\ steps'[o].status = "PENDING"
             /\ steps'[o].node \in ToSet(targets)
  <2>1. steps'[o] = Pending(target(o))
    BY <1>1
  <2>2. PICK n : n = target(o)
    OBVIOUS
  <2>3. steps'[o] = Pending(n) /\ n \in ToSet(targets)
    BY <1>5, <2>1, <2>2
  <2> QED
    BY <2>3 DEF Pending
<1>7. \A o \in StepIds \ added : steps'[o] = st[o]
  BY <1>1
<1> QED
  BY <1>1, <1>4, <1>6, <1>7

LEMMA ResumeForward ==
    ASSUME StoreTypeOK, UNCHANGED launcher, NEW st,
           \A o \in StepIds : st[o].status = "PENDING" => steps[o].status = "PENDING",
           NEW targets \in Seq(Nodes), NEW gone \in SUBSET StepIds,
           \A o \in gone : st[o].status # "PENDING",
           QueueResumed(st, targets, gone)
    PROVE  StepsForward /\ RowsForward
<1>1. PICK added \in SUBSET StepIds :
         /\ Post(gone, added)
         /\ \A o \in added :
               /\ ~Exists(o)
               /\ steps'[o].status = "PENDING"
               /\ steps'[o].node \in ToSet(targets)
         /\ \A o \in StepIds \ added : steps'[o] = st[o]
  BY ResumedAreNew
<1>2. \A o \in StepIds : (o \in added \ gone => Queued(o)')
                         /\ (o \notin gone /\ Queued(o) => Queued(o)')
  BY <1>1 DEF Post, Queued, NoRow
<1>3. gone \cap added = {}
  BY <1>1 DEF Post
<1>4. StepsForward
  BY <1>1, <1>2, <1>3 DEF StepsForward, Waits
<1>5. RowsForward
  BY <1>1, <1>2, <1>3 DEF RowsForward, Waits
<1> QED
  BY <1>4, <1>5

(* A command leaves the tasks, the launcher and the targets of commands.   *)
CommandsStay ==
    \A i \in CmdIds : cmds'[i].type = cmds[i].type /\ cmds'[i].step = cmds[i].step

LEMMA CommandForward ==
    ASSUME UNCHANGED wk, CommandsStay, StepsForward, RowsForward, ExecForward
    PROVE  Forward
BY DEF Forward, CommandsStay, TasksForward, GatesForward, AboutGate

LEMMA StoreForward ==
    ASSUME UNCHANGED <<exec, steps, launcher, cancel>>,
           \A o \in StepIds : Queued(o) => Queued(o)'
    PROVE  StepsForward /\ RowsForward /\ ExecForward
BY DEF StepsForward, RowsForward, ExecForward, Waits

LEMMA ProcessedStay ==
    ASSUME Inv, NEW p \in Procs, proc[p].pc # "idle", NEW status,
           cmds' = [cmds EXCEPT ![proc[p].cmd].status = status]
    PROVE  CommandsStay
<1>1. /\ cmds \in [CmdIds ->
            [type : CmdTypes \cup {"none"}, step : StepIds \cup {0},
             node : Nodes \cup {NoNode},
             status : {"none", "pending", "processed", "failed"}]]
      /\ proc[p].cmd \in CmdIds
  BY DEF Inv, TypeOK, CommandTypeOK, HeldExists, CommandsHeld
<1> QED
  BY <1>1 DEF CommandsStay

LEMMA WriteCommandForward ==
    ASSUME Inv, PendInv, UNCHANGED workerVars, NEW i \in CmdIds, WriteCommand(i)
    PROVE  Forward
<1>1. UNCHANGED <<exec, steps, launcher, wk, cancel, rows>>
  BY DEF WriteCommand, storeVars, workerVars, queueVars
<1>2. cmds \in [CmdIds ->
            [type : CmdTypes \cup {"none"}, step : StepIds \cup {0},
             node : Nodes \cup {NoNode},
             status : {"none", "pending", "processed", "failed"}]]
  BY DEF Inv, TypeOK, CommandTypeOK
<1>3. \A j \in CmdIds \ {i} : cmds'[j] = cmds[j]
  BY <1>2 DEF WriteCommand
<1>4. AboutGate(i)' => steps[cmds'[i].step].status # "PENDING"
  BY <1>2 DEF WriteCommand, AboutGate
<1>5. StepsForward /\ RowsForward /\ ExecForward
  BY <1>1, StoreForward DEF Queued
<1>6. GatesForward
  BY <1>1, <1>3, <1>4 DEF GatesForward, AboutGate
<1>7. TasksForward
  BY <1>1 DEF TasksForward
<1> QED
  BY <1>5, <1>6, <1>7 DEF Forward

(* The steps of a processor that decide nothing.                           *)
LEMMA TakenForward ==
    ASSUME Inv, PendInv, UNCHANGED workerVars, NEW p \in Procs,
           \/ (\E i \in CmdIds : CmdSelect(p, i)) \/ CmdLock(p) \/ CmdRead(p)
           \/ AlreadyDecided(p) \/ CmdFails(p) \/ ProcCrash(p)
    PROVE  Forward
<1>1. UNCHANGED <<exec, steps, launcher, wk, cancel, rows>>
  BY DEF CmdSelect, CmdLock, CmdRead, AlreadyDecided, Processed, CmdFails,
         ProcCrash, storeVars, workerVars, queueVars
<1>2. CommandsStay
  <2>1. CASE UNCHANGED cmds
    BY <2>1 DEF CommandsStay
  <2>2. CASE AlreadyDecided(p)
    <3>1. proc[p].pc # "idle"
          /\ cmds' = [cmds EXCEPT ![proc[p].cmd].status = "processed"]
      BY <2>2 DEF AlreadyDecided, Handles, Processed
    <3> QED
      BY <3>1, ProcessedStay
  <2>3. CASE CmdFails(p)
    <3>1. proc[p].pc # "idle"
          /\ cmds' = [cmds EXCEPT ![proc[p].cmd].status = "failed"]
      BY <2>3 DEF CmdFails
    <3> QED
      BY <3>1, ProcessedStay
  <2> QED
    BY <2>1, <2>2, <2>3 DEF CmdSelect, CmdLock, CmdRead, ProcCrash
<1>3. StepsForward /\ RowsForward /\ ExecForward
  BY <1>1, StoreForward DEF Queued
<1> QED
  BY <1>1, <1>2, <1>3, CommandForward

(* A decision about a gate, which was WAITING, and what it queues.         *)
LEMMA DecidesForward ==
    ASSUME Inv, PendInv, UNCHANGED workerVars, NEW p \in Procs,
           Approve(p) \/ Refuse(p)
    PROVE  Forward
<1>1. /\ StoreTypeOK /\ UNCHANGED <<launcher, wk, cancel>>
      /\ proc[p].pc # "idle"
      /\ cmds' = [cmds EXCEPT ![proc[p].cmd].status = "processed"]
  BY DEF Approve, Refuse, Handles, Processed, workerVars, Inv, TypeOK
<1>2. PICK s \in StepIds : /\ s = cmds[proc[p].cmd].step
                           /\ Exists(s) /\ steps[s].node \in Nodes
  BY HandledCommand DEF Approve, Refuse
<1>3. exec # "SUBMITTED"
  BY <1>2 DEF PendInv, Unborn
<1>4. ASSUME NEW status \in {"COMPLETED", "FAILED"}, NEW targets \in Seq(Nodes),
             NEW gone \in SUBSET {s}, QueueResumed(Decided(s, status), targets, gone)
      PROVE  StepsForward /\ RowsForward
  <2>1. PICK st : st = Decided(s, status)
    OBVIOUS
  <2>2. st[s].status = status /\ \A o \in StepIds \ {s} : st[o] = steps[o]
    BY <1>1, <2>1 DEF Decided, StoreTypeOK
  <2>3. /\ \A o \in StepIds : st[o].status = "PENDING" => steps[o].status = "PENDING"
        /\ \A o \in gone : st[o].status # "PENDING"
        /\ gone \in SUBSET StepIds
    BY <1>2, <2>2
  <2>4. QueueResumed(st, targets, gone)
    BY <1>4, <2>1
  <2> QED
    BY <1>1, <2>3, <2>4, ResumeForward
<1>5. /\ Workflow[steps[s].node].success \in Seq(Nodes)
      /\ Workflow[steps[s].node].error \in Seq(Nodes)
      /\ LinearNext(Workflow, steps[s].node) \in Seq(Nodes)
  BY <1>2, NextStepIdsType, LinearNextType
<1>6. CASE Approve(p)
  <2>1. PICK next \in Seq(Nodes) :
           next = IF Workflow[steps[s].node].success # << >>
                  THEN Workflow[steps[s].node].success
                  ELSE LinearNext(Workflow, steps[s].node)
    BY <1>5
  <2>2. QueueResumed(Decided(s, "COMPLETED"), next, {}) /\ UNCHANGED exec
    BY <1>2, <1>6, <2>1 DEF Approve
  <2>3. {} \in SUBSET {s} /\ "COMPLETED" \in {"COMPLETED", "FAILED"}
    OBVIOUS
  <2>4. StepsForward /\ RowsForward
    BY <1>4, <2>2, <2>3
  <2>5. ExecForward
    BY <1>1, <1>3, <2>2 DEF ExecForward
  <2> QED
    BY <1>1, <2>4, <2>5, ProcessedStay, CommandForward
<1>7. CASE Refuse(p)
  <2>1. PICK next \in Seq(Nodes) : next = Workflow[steps[s].node].error
    BY <1>5
  <2>2. PICK gone \in SUBSET {s} : gone = IF Handles(p, "timeout") THEN {s} ELSE {}
    OBVIOUS
  <2>3. QueueResumed(Decided(s, "FAILED"), next, gone)
    BY <1>2, <1>7, <2>1, <2>2 DEF Refuse
  <2>4. StepsForward /\ RowsForward
    BY <1>4, <2>3
  <2>5. ExecForward
    BY <1>1, <1>3, <1>7 DEF ExecForward, Refuse
  <2> QED
    BY <1>1, <2>4, <2>5, ProcessedStay, CommandForward
<1> QED
  BY <1>6, <1>7

(* Whatever a cancellation leaves is neither PENDING nor RUNNING.          *)
LEMMA CancelledForward ==
    ASSUME StoreTypeOK, steps' = CancelledSteps, exec' \notin {"SUBMITTED", "RUNNING"},
           cancel' # "none" => cancel # "none" \/ exec' = "CANCELLED"
    PROVE  StepsForward /\ RowsForward /\ ExecForward
<1>1. \A o \in StepIds : steps'[o].status # "PENDING"
  <2> SUFFICES ASSUME NEW o \in StepIds PROVE steps'[o].status # "PENDING"
    OBVIOUS
  <2>1. steps[o] \in [node : Nodes \cup {NoNode}, status : StepStatuses \cup {"none"}]
    BY DEF StoreTypeOK
  <2> QED
    BY <2>1 DEF CancelledSteps
<1> QED
  BY <1>1 DEF StepsForward, RowsForward, ExecForward

LEMMA CancelsForward ==
    ASSUME Inv, PendInv, UNCHANGED workerVars, NEW p \in Procs,
           CancelCommand(p) \/ ResumeCommand(p)
    PROVE  Forward
<1>1. /\ StoreTypeOK /\ UNCHANGED <<launcher, wk, cancel>>
      /\ proc[p].pc # "idle"
      /\ cmds' = [cmds EXCEPT ![proc[p].cmd].status = "processed"]
  BY
     DEF CancelCommand, ResumeCommand, Handles, Processed, workerVars, Inv,
         TypeOK
<1>2. CommandsStay
  BY <1>1, ProcessedStay
<1>3. CASE UNCHANGED <<exec, steps, queueVars>>
  <2>1. StepsForward /\ RowsForward /\ ExecForward
    BY <1>1, <1>3, StoreForward DEF Queued, queueVars
  <2> QED
    BY <1>1, <1>2, <2>1, CommandForward
<1>4. CASE exec' = "CANCELLED" /\ steps' = CancelledSteps
  <2>1. StepsForward /\ RowsForward /\ ExecForward
    BY <1>1, <1>4, CancelledForward
  <2> QED
    BY <1>1, <1>2, <2>1, CommandForward
<1>5. CASE /\ Handles(p, "resume") /\ exec = "RUNNING" /\ UNCHANGED exec
           /\ QueueResumed(steps, << cmds[proc[p].cmd].node >>, {})
  <2>1. PICK n \in Nodes : n = cmds[proc[p].cmd].node
    BY <1>5, HandledCommand
  <2>2. << n >> \in Seq(Nodes)
    OBVIOUS
  <2>3. PICK targets \in Seq(Nodes) : targets = << cmds[proc[p].cmd].node >>
    BY <2>1, <2>2
  <2>4. PICK st : st = steps
    OBVIOUS
  <2>5. QueueResumed(st, targets, {})
    BY <1>5, <2>3, <2>4
  <2>6. {} \in SUBSET StepIds /\ \A o \in {} : st[o].status # "PENDING"
    OBVIOUS
  <2>7. \A o \in StepIds : st[o].status = "PENDING" => steps[o].status = "PENDING"
    BY <2>4
  <2>8. StepsForward /\ RowsForward
    BY <1>1, <2>5, <2>6, <2>7, ResumeForward
  <2>9. ExecForward
    BY <1>1, <1>5 DEF ExecForward
  <2> QED
    BY <1>1, <1>2, <2>8, <2>9, CommandForward
<1> QED
  BY <1>3, <1>4, <1>5 DEF CancelCommand, ResumeCommand, storeVars

LEMMA CancelForward ==
    ASSUME Inv, PendInv, UNCHANGED workerVars, Cancel, UNCHANGED <<fin, cmds, proc>>
    PROVE  Forward
<1>1. StoreTypeOK /\ UNCHANGED <<launcher, wk>> /\ CommandsStay
  BY DEF workerVars, Inv, TypeOK, CommandsStay
<1>2. CASE CancelRequest
  <2>1. StepsForward /\ RowsForward /\ ExecForward
    BY <1>1, <1>2 DEF CancelRequest, StepsForward, RowsForward, ExecForward
  <2> QED
    BY <1>1, <2>1, CommandForward
<1>3. CASE CancelSteps
  <2>1. exec' \notin {"SUBMITTED", "RUNNING"} /\ steps' = CancelledSteps
    BY <1>3 DEF CancelSteps, PendInv, CancelOver
  <2>2. cancel # "none"
    BY <1>3 DEF CancelSteps
  <2>3. StepsForward /\ RowsForward /\ ExecForward
    BY <1>1, <2>1, <2>2, CancelledForward
  <2> QED
    BY <1>1, <2>3, CommandForward
<1>4. CASE CancelRows
  <2>1. StepsForward /\ RowsForward /\ ExecForward
    BY <1>4 DEF CancelRows, PendInv, CancelOver, storeVars, StepsForward,
                RowsForward, ExecForward
  <2> QED
    BY <1>1, <2>1, CommandForward
<1> QED
  BY <1>2, <1>3, <1>4 DEF Cancel

(* A finalization writes only statuses that end the execution.             *)
LEMMA FinalizeForward ==
    ASSUME Inv, PendInv, UNCHANGED workerVars, NEW p \in Procs, ProcFinalize(p)
    PROVE  Forward
<1>1. UNCHANGED <<steps, rows, launcher, wk, cancel, cmds>>
  BY DEF ProcFinalize, Finalize, FinActive, FinWaiting, FinFailed, FinRefresh,
         FinCas, storeVars, commandVars, workerVars, queueVars
<1>2. exec' = exec \/ exec' \notin {"SUBMITTED", "RUNNING"}
  BY DEF ProcFinalize, Finalize, FinActive, FinWaiting, FinFailed, FinRefresh,
         FinCas, storeVars, FinTold, Actors, Inv
<1> QED
  BY <1>1, <1>2, QuietForward DEF Queued

LEMMA CommandStepForward ==
    ASSUME Inv, PendInv, CommandNext, UNCHANGED workerVars PROVE Forward
BY WriteCommandForward, TakenForward, DecidesForward, CancelsForward,
   CancelForward,
   FinalizeForward DEF CommandNext, Process

LEMMA WorkerStepForward ==
    ASSUME Inv, PendInv, WorkerNext, UNCHANGED commandVars,
           "launcherCrash" \notin Allowed
    PROVE  Forward
<1>1. ~LauncherCrash
  BY DEF LauncherCrash
<1>2. ASSUME NEW w \in Workers, Task(w) PROVE Forward
  BY <1>2, StartForward, SingleForward, ReleaseForward, NextForward DEF Task
<1>3. ASSUME NEW w \in Workers, WorkerFinalize(w) \/ WorkerCrash(w) PROVE Forward
  BY <1>3, NextForward
<1> QED
  BY <1>1, <1>2, <1>3, LaunchForward, ClaimForward DEF WorkerNext

LEMMA PendStep ==
    ASSUME Inv, PendInv, [Next]_vars, "launcherCrash" \notin Allowed PROVE PendInv'
<1>1. CASE UNCHANGED vars
  <2>1. UNCHANGED <<exec, steps, launcher, cancel, cmds, wk, rows>>
    BY <1>1 DEF vars, storeVars, queueVars, workerVars, commandVars
  <2>2. Forward
    BY <2>1, QuietForward DEF Queued
  <2> QED
    BY <2>2, PendKept
<1> QED
  BY <1>1, WorkerStepForward, CommandStepForward, PendKept DEF Next

(* As long as the process that launches lives, no step of a running        *)
(* execution waits for a worker that will never be told: every PENDING     *)
(* step has its row in the queue, or the launcher is about to write it     *)
(* (runnable_steps.enqueue after every creation of a step).                *)
THEOREM PendingHasRow ==
    ASSUME "launcherCrash" \notin Allowed PROVE Spec => []PendingIsQueued
<1>1. Init => PendInv
  <2> SUFFICES ASSUME Init PROVE PendInv
    OBVIOUS
  <2>1. \A o \in StepIds : ~Exists(o)
    BY DEF Init, StoreInit, NoStep, Exists
  <2>2. Unborn /\ PendingIsQueued
    BY <2>1 DEF Init, StoreInit, WorkerInit, Unborn, PendingIsQueued
  <2>3. TasksBegun
    BY DEF Init, WorkerInit, Idle, TasksBegun, Begun
  <2>4. GatesOpened
    BY DEF Init, CommandInit, NoCmd, GatesOpened, AboutGate
  <2>5. CancelOver
    BY DEF Init, CommandInit, CancelInit, CancelOver
  <2> QED
    BY <2>2, <2>3, <2>4, <2>5 DEF PendInv
<1>2. Inv /\ PendInv /\ [Next]_vars => PendInv'
  BY PendStep
<1>3. PendInv => PendingIsQueued
  BY DEF PendInv
<1> QED
  BY <1>1, <1>2, <1>3, EngineInvariant, PTL DEF Spec
-----------------------------------------------------------------------------
(* What a decision and a resume do to the steps: the gate takes its status *)
(* and the targets that are queued are new.                                *)

(* The targets of a gate that ends with this status.                       *)
GateTargets(n, status) ==
    IF status = "FAILED" THEN ToSet(Workflow[n].error)
    ELSE ToSet(IF Workflow[n].success # << >> THEN Workflow[n].success
               ELSE LinearNext(Workflow, n))

Decides(p, s, status, added) ==
    /\ proc[p].cmd \in CmdIds /\ AboutGate(proc[p].cmd)
    /\ s = cmds[proc[p].cmd].step /\ proc[p].mem = "WAITING"
    /\ Exists(s) /\ steps[s].node \in Nodes
    /\ s \notin added
    /\ steps'[s].status = status /\ steps'[s].node = steps[s].node
    /\ \A o \in added :
          /\ ~Exists(o)
          /\ steps'[o].status = "PENDING"
          /\ steps'[o].node \in GateTargets(steps[s].node, status)
    /\ \A o \in StepIds \ (added \cup {s}) : steps'[o] = steps[o]
    /\ \E gone \in SUBSET {s} : Post(gone, added)

Resumes(p, added) ==
    /\ proc[p].cmd \in CmdIds /\ cmds[proc[p].cmd].type = "resume"
    /\ \A o \in added :
          /\ ~Exists(o)
          /\ steps'[o].status = "PENDING"
          /\ steps'[o].node = cmds[proc[p].cmd].node
    /\ \A o \in StepIds \ added : steps'[o] = steps[o]
    /\ Post({}, added)

LEMMA DecisionFormed ==
    ASSUME Inv, NEW p \in Procs, Approve(p) \/ Refuse(p)
    PROVE  \E s \in StepIds, status \in {"COMPLETED", "FAILED"}, added \in SUBSET StepIds :
              Decides(p, s, status, added)
<1>1. StoreTypeOK
  BY DEF Inv, TypeOK
<1>2. PICK s \in StepIds :
         /\ s = cmds[proc[p].cmd].step /\ proc[p].mem = "WAITING"
         /\ proc[p].cmd \in CmdIds /\ AboutGate(proc[p].cmd)
         /\ Exists(s) /\ steps[s].node \in Nodes
  BY HandledCommand DEF Approve, Refuse, StillWaiting, AboutGate
<1>3. ASSUME NEW status \in {"COMPLETED", "FAILED"}, NEW targets \in Seq(Nodes),
             NEW gone \in SUBSET {s}, QueueResumed(Decided(s, status), targets, gone),
             ToSet(targets) = GateTargets(steps[s].node, status)
      PROVE  \E added \in SUBSET StepIds : Decides(p, s, status, added)
  <2>1. PICK st : st = Decided(s, status)
    OBVIOUS
  <2>2. /\ st[s].status = status /\ st[s].node = steps[s].node
        /\ \A o \in StepIds \ {s} : st[o] = steps[o]
    BY <1>1, <2>1 DEF Decided, StoreTypeOK
  <2>3. QueueResumed(st, targets, gone)
    BY <1>3, <2>1
  <2>4. PICK added \in SUBSET StepIds :
           /\ Post(gone, added)
           /\ \A o \in added :
                 /\ ~Exists(o)
                 /\ steps'[o].status = "PENDING"
                 /\ steps'[o].node \in ToSet(targets)
           /\ \A o \in StepIds \ added : steps'[o] = st[o]
    BY <1>1, <2>3, ResumedAreNew
  <2>5. s \notin added
    BY <1>2, <2>4
  <2> QED
    BY <1>2, <1>3, <2>2, <2>4, <2>5 DEF Decides
<1>4. /\ Workflow[steps[s].node].success \in Seq(Nodes)
      /\ Workflow[steps[s].node].error \in Seq(Nodes)
      /\ LinearNext(Workflow, steps[s].node) \in Seq(Nodes)
  BY <1>2, NextStepIdsType, LinearNextType
<1>5. CASE Approve(p)
  <2>1. PICK next \in Seq(Nodes) :
           next = IF Workflow[steps[s].node].success # << >>
                  THEN Workflow[steps[s].node].success
                  ELSE LinearNext(Workflow, steps[s].node)
    BY <1>4
  <2>2. QueueResumed(Decided(s, "COMPLETED"), next, {})
    BY <1>2, <1>5, <2>1 DEF Approve
  <2>3. ToSet(next) = GateTargets(steps[s].node, "COMPLETED")
    BY <2>1 DEF GateTargets
  <2>4. {} \in SUBSET {s} /\ "COMPLETED" \in {"COMPLETED", "FAILED"}
    OBVIOUS
  <2> QED
    BY <1>3, <2>2, <2>3, <2>4
<1>6. CASE Refuse(p)
  <2>1. PICK next \in Seq(Nodes) : next = Workflow[steps[s].node].error
    BY <1>4
  <2>2. PICK gone \in SUBSET {s} : gone = IF Handles(p, "timeout") THEN {s} ELSE {}
    OBVIOUS
  <2>3. QueueResumed(Decided(s, "FAILED"), next, gone)
    BY <1>2, <1>6, <2>1, <2>2 DEF Refuse
  <2>4. ToSet(next) = GateTargets(steps[s].node, "FAILED")
    BY <2>1 DEF GateTargets
  <2> QED
    BY <1>3, <2>3, <2>4
<1> QED
  BY <1>5, <1>6

LEMMA ResumeFormed ==
    ASSUME Inv, NEW p \in Procs, ResumeCommand(p)
    PROVE  \/ UNCHANGED <<exec, steps, queueVars>>
           \/ UNCHANGED exec /\ \E added \in SUBSET StepIds : Resumes(p, added)
<1>1. CASE UNCHANGED <<steps, queueVars>>
  BY <1>1 DEF ResumeCommand
<1>2. CASE QueueResumed(steps, << cmds[proc[p].cmd].node >>, {})
  <2>1. /\ proc[p].cmd \in CmdIds /\ cmds[proc[p].cmd].type = "resume"
        /\ cmds[proc[p].cmd].node \in Nodes /\ StoreTypeOK
    BY HandledCommand DEF ResumeCommand, Inv, TypeOK
  <2>2. PICK n \in Nodes : n = cmds[proc[p].cmd].node
    BY <2>1
  <2>3. << n >> \in Seq(Nodes) /\ ToSet(<< n >>) = {n}
    BY DEF ToSet
  <2>4. PICK targets \in Seq(Nodes) :
           targets = << cmds[proc[p].cmd].node >> /\ ToSet(targets) = {n}
    BY <2>2, <2>3
  <2>5. PICK st : st = steps
    OBVIOUS
  <2>6. QueueResumed(st, targets, {})
    BY <1>2, <2>4, <2>5
  <2>7. PICK added \in SUBSET StepIds :
           /\ Post({}, added)
           /\ \A o \in added :
                 /\ ~Exists(o)
                 /\ steps'[o].status = "PENDING"
                 /\ steps'[o].node \in ToSet(targets)
           /\ \A o \in StepIds \ added : steps'[o] = st[o]
    BY <2>1, <2>6, ResumedAreNew
  <2>8. Resumes(p, added)
    BY <2>1, <2>2, <2>4, <2>5, <2>7 DEF Resumes
  <2> QED
    BY <2>8 DEF ResumeCommand
<1> QED
  BY <1>1, <1>2 DEF ResumeCommand

-----------------------------------------------------------------------------
(* TerminalFrozen.  The launcher of a workflow with one entry never finds  *)
(* its step_order taken: until it has created its step there is none.      *)
OneEntry == \E n : EntrySteps(Workflow) = {n}

Born == \E o \in StepIds : Exists(o)

LaunchOnce ==
    /\ launcher.pc \in {"ready", "create"} =>
          Len(launcher.todo) = 1 /\ launcher.ctr = 0 /\ ~Born
    /\ launcher.pc = "enqueue" => launcher.todo = << >>
    /\ \A i \in CmdIds : cmds[i].type = "resume" => Born

(* How the status of the execution moves.                                  *)
ExecMoves ==
    \/ exec' = exec
    \/ exec = "SUBMITTED" /\ exec' = "RUNNING"
    \/ LaunchCollides /\ exec' = "INTEGRATION_ERROR"
    \/ /\ exec \notin {"COMPLETED", "FAILED", "CANCELLED"}
       /\ exec' \in {"COMPLETED", "FAILED", "CANCELLED"}

LEMMA TaskKeepsExec ==
    ASSUME NEW w, Task(w) \/ WorkerCrash(w) PROVE UNCHANGED exec
BY
   DEF Task, TaskStart, BuildFails, SkipStep, BeginStep, BeginRefused,
       CheckCancelled,
       FinishStep, BreakStep, OpenGate, Release, NextExists, NextQueued,
       NextCollides,
       EndStep, storeVars, WorkerCrash

LEMMA ExecSteps ==
    ASSUME Inv, [Next]_vars PROVE ExecMoves
<1>1. FinTypeOK /\ FinTold
  BY DEF Inv, TypeOK
<1>2. CASE WorkerNext
  <2>1. CASE Launch \/ LaunchCreate \/ LaunchCollides \/ LaunchEnqueue \/ LauncherCrash
    BY <2>1
       DEF Launch, LaunchCreate, LaunchCollides, LaunchEnqueue, LauncherCrash,
                storeVars, ExecMoves
  <2>2. ASSUME NEW w \in Workers, Task(w) \/ WorkerFinalize(w) \/ WorkerCrash(w)
        PROVE  ExecMoves
    <3>1. w \in Actors
      BY DEF Actors
    <3> QED
      BY <1>1, <2>2, <3>1, TaskKeepsExec, FinalizeMoves
         DEF WorkerFinalize, ExecMoves
  <2> QED
    BY <1>2, <2>1, <2>2, ClaimKeeps DEF WorkerNext, ExecMoves
<1>3. CASE CommandNext
  <2>1. ASSUME NEW p \in Procs, Process(p) \/ ProcFinalize(p) \/ ProcCrash(p)
        PROVE  ExecMoves
    <3>1. p \in Actors
      BY DEF Actors
    <3>2. CASE ProcFinalize(p)
      BY <1>1, <3>1, <3>2, FinalizeMoves DEF ProcFinalize, ExecMoves
    <3>3. CASE Refuse(p) \/ CancelCommand(p)
      BY <3>3 DEF Refuse, CancelCommand, Cancellable, storeVars, ExecMoves
    <3> QED
      BY <2>1, <3>2, <3>3
         DEF Process, CmdSelect, CmdLock, CmdRead, Approve, AlreadyDecided,
                ResumeCommand, CmdFails, ProcCrash, storeVars, ExecMoves
  <2>2. CASE Cancel
    BY <2>2
       DEF Cancel, CancelRequest, CancelSteps, CancelRows, Cancellable,
           storeVars,
                ExecMoves
  <2> QED
    BY <1>3, <2>1, <2>2 DEF CommandNext, WriteCommand, storeVars, ExecMoves
<1> QED
  BY <1>2, <1>3 DEF Next, vars, storeVars, ExecMoves

(* Only the launcher creates the first step.                               *)
LEMMA TaskBears ==
    ASSUME WorkInv, NEW w \in Workers, Task(w) \/ WorkerFinalize(w) \/ WorkerCrash(w), Born'
    PROVE  Born
<1>1. ASSUME wk[w].pc # "idle" PROVE Born
  BY <1>1 DEF WorkInv, TasksHeld, Born
<1>2. ASSUME UNCHANGED steps PROVE Born
  BY <1>2 DEF Born, Exists
<1>3. CASE WorkerFinalize(w)
  <2>1. UNCHANGED steps
    BY <1>3
       DEF WorkerFinalize, Finalize, FinActive, FinWaiting, FinFailed,
           FinRefresh,
                FinCas, storeVars
  <2> QED
    BY <1>2, <2>1
<1>4. CASE Task(w)
  BY <1>1, <1>2, <1>4, TaskFormed
     DEF TaskForm, Dropped, Started, Begins, GoesOn, Ends,
     Finishes, GoesToQueue, Passes, Queues, Moves, Collides, Busy
<1> QED
  BY <1>2, <1>3, <1>4 DEF WorkerCrash, storeVars

LEMMA CommandBears ==
    ASSUME Inv, \A i \in CmdIds : cmds[i].type = "resume" => Born, CommandNext, Born'
    PROVE  Born
<1>1. ASSUME UNCHANGED steps PROVE Born
  BY <1>1 DEF Born, Exists
<1>2. StoreTypeOK
  BY DEF Inv, TypeOK
<1>3. ASSUME steps' = CancelledSteps PROVE Born
  <2>1. PICK o \in StepIds : Exists(o)'
    BY DEF Born
  <2>2. Exists(o)
    BY <1>2, <1>3, <2>1 DEF CancelledSteps, Exists, StoreTypeOK
  <2> QED
    BY <2>2 DEF Born
<1>4. ASSUME NEW p \in Procs, Process(p) \/ ProcFinalize(p) \/ ProcCrash(p)
      PROVE  Born
  <2>1. CASE Approve(p) \/ Refuse(p)
    BY <2>1, DecisionFormed DEF Decides, Born
  <2>2. CASE ResumeCommand(p)
    BY <1>1, <2>2, ResumeFormed DEF Resumes
  <2>3. CASE CancelCommand(p)
    BY <1>1, <1>3, <2>3 DEF CancelCommand, storeVars
  <2>4. CASE ProcFinalize(p)
    <3>1. UNCHANGED steps
      BY <2>4
         DEF ProcFinalize, Finalize, FinActive, FinWaiting, FinFailed,
             FinRefresh,
                  FinCas, storeVars
    <3> QED
      BY <1>1, <3>1
  <2> QED
    BY <1>1, <1>4, <2>1, <2>2, <2>3, <2>4
       DEF Process, CmdSelect, CmdLock, CmdRead, AlreadyDecided, CmdFails,
           ProcCrash, storeVars
<1> QED
  BY <1>1, <1>3, <1>4
     DEF CommandNext, WriteCommand, Cancel, CancelRequest, CancelSteps,
     CancelRows, storeVars

LEMMA BornStays ==
    ASSUME \A o \in StepIds : Exists(o) => Exists(o)', Born PROVE Born'
BY DEF Born

LEMMA LaunchOnceInitial == OneEntry /\ Init => LaunchOnce
<1> SUFFICES ASSUME OneEntry, Init PROVE LaunchOnce
  OBVIOUS
<1>1. PICK n : EntrySteps(Workflow) = {n}
  BY DEF OneEntry
<1>2. IsFiniteSet({n}) /\ Cardinality({n}) = 1
  BY FS_Singleton
<1>3. Len(SetToSeq(EntrySteps(Workflow))) = 1
  BY <1>1, <1>2, SetToSeqType
<1>4. ~Born
  BY DEF Init, StoreInit, NoStep, Born, Exists
<1>5. \A i \in CmdIds : cmds[i].type # "resume"
  BY DEF Init, CommandInit, NoCmd
<1> QED
  BY <1>3, <1>4, <1>5 DEF Init, WorkerInit, LaunchOnce

LEMMA LaunchOnceStep ==
    ASSUME Inv, Inv', LaunchOnce, [Next]_vars PROVE LaunchOnce'
<1>1. WorkInv /\ WorkInv' /\ StoreTypeOK /\ WorkerTypeOK
  BY InvParts, InvPartsNext DEF Inv, TypeOK
<1>2. \A o \in StepIds : Exists(o) => Exists(o)'
  <2>1. CASE WorkerNext
    BY <1>1, <2>1, WorkerStep DEF WorkerKept, StoreKept
  <2>2. CASE CommandNext
    BY <2>2, CommandStep DEF CommandKept, StoreKept
  <2> QED
    BY <2>1, <2>2 DEF Next, vars, storeVars, Exists
<1>3. Born => Born'
  BY <1>2, BornStays
<1>4. ASSUME Born' => Born, UNCHANGED launcher,
             \A i \in CmdIds : cmds'[i].type = "resume" => cmds[i].type = "resume" \/ Born
      PROVE  LaunchOnce'
  BY <1>3, <1>4 DEF LaunchOnce
<1>5. CASE WorkerNext /\ UNCHANGED commandVars
  <2>1. CASE LaunchCreate
    <3>1. Len(launcher.todo) = 1 /\ launcher'.pc = "enqueue"
          /\ launcher'.todo = Tail(launcher.todo) /\ launcher.todo \in Seq(Nodes)
          /\ launcher.todo # << >>
      BY <1>1, <2>1 DEF LaunchOnce, LaunchCreate, WorkerTypeOK
    <3>2. launcher'.todo = << >>
      <4>1. \A t \in Seq(Nodes) : Len(t) = 1 => Tail(t) \in Seq(Nodes) /\ Len(Tail(t)) = 0
        OBVIOUS
      <4>2. \A t \in Seq(Nodes) : Len(t) = 0 => t = << >>
        OBVIOUS
      <4> QED
        BY <3>1, <4>1, <4>2
    <3>3. \A i \in CmdIds : cmds'[i].type = "resume" => Born'
      BY <1>3, <1>5 DEF LaunchOnce, commandVars
    <3> QED
      BY <3>1, <3>2, <3>3 DEF LaunchOnce
  <2>2. CASE Launch \/ LaunchCollides \/ LaunchEnqueue \/ LauncherCrash
    <3>1. launcher \in [pc : {"ready", "create", "enqueue", "done"},
                        todo : Seq(Nodes), ctr : StepIds \cup {0}]
      BY <1>1 DEF WorkerTypeOK
    <3>2. Born' => Born
      BY <2>2
         DEF Launch, LaunchCollides, LaunchEnqueue, LauncherCrash, storeVars,
             Born, Exists
    <3>3. /\ launcher'.pc \in {"create", "done"} /\ launcher'.todo = launcher.todo
          /\ launcher'.ctr = launcher.ctr
          /\ launcher'.pc = "create" => launcher.pc = "ready"
      BY <2>2, <3>1
         DEF LaunchOnce, Launch, LaunchCollides, LaunchEnqueue, LauncherCrash
    <3> QED
      BY <1>3, <1>5, <3>2, <3>3 DEF LaunchOnce, commandVars
  <2>3. ASSUME NEW w \in Workers, Task(w) \/ WorkerFinalize(w) \/ WorkerCrash(w)
        PROVE  LaunchOnce'
    <3>1. UNCHANGED launcher
      BY <2>3
         DEF Task, TaskStart, BuildFails, SkipStep, BeginStep, BeginRefused,
         CheckCancelled, FinishStep, BreakStep, OpenGate, Release,
         NextExists, NextQueued,
         NextCollides, EndStep, WorkerCrash, WorkerFinalize
    <3> QED
      BY <1>1, <1>4, <1>5, <2>3, <3>1, TaskBears DEF commandVars
  <2>4. CASE UNCHANGED <<exec, steps, fin, launcher, wk>>
    BY <1>4, <1>5, <2>4 DEF commandVars, Born, Exists
  <2> QED
    BY <1>5, <2>1, <2>2, <2>3, <2>4, ClaimKeeps DEF WorkerNext
<1>6. CASE CommandNext /\ UNCHANGED workerVars
  <2>1. Born' => Born
    BY <1>6, CommandBears DEF LaunchOnce
  <2>2. ASSUME NEW i \in CmdIds, cmds'[i].type = "resume" PROVE cmds[i].type = "resume" \/ Born
    <3>1. \A j \in CmdIds : cmds[j] \in Commands
      BY CommandsSplit DEF Inv, TypeOK, HeldExists, CmdsWell
    <3>2. CASE \E j \in CmdIds : WriteCommand(j)
      <4>1. PICK j \in CmdIds : WriteCommand(j)
        BY <3>2
      <4>2. cmds \in [CmdIds -> Commands]
        BY CommandsSplit DEF Inv, TypeOK, HeldExists, CmdsWell
      <4>3. CASE i # j
        <5>1. cmds'[i] = cmds[i]
          BY <4>1, <4>2, <4>3 DEF WriteCommand
        <5> QED
          BY <2>2, <5>1
      <4>4. CASE i = j
        <5>1. CASE \E s \in StepIds : steps[s].status \in {"COMPLETED", "FAILED"}
          BY <5>1 DEF Born, Exists
        <5>2. CASE ~\E s \in StepIds : steps[s].status \in {"COMPLETED", "FAILED"}
          <6>1. cmds'[i].type # "resume"
            BY <4>1, <4>2, <4>4, <5>2 DEF WriteCommand
          <6> QED
            BY <2>2, <6>1
        <5> QED
          BY <5>1, <5>2
      <4> QED
        BY <4>3, <4>4
    <3>3. CASE \E p \in Procs : Process(p) \/ ProcFinalize(p) \/ ProcCrash(p)
      <4>1. PICK p \in Procs : Process(p) \/ ProcFinalize(p) \/ ProcCrash(p)
        BY <3>3
      <4>2. CASE UNCHANGED cmds
        BY <2>2, <4>2
      <4>3. CASE \E status \in {"processed", "failed"} : cmds' = [cmds EXCEPT ![proc[p].cmd].status = status]
        <5>1. PICK status : cmds' = [cmds EXCEPT ![proc[p].cmd].status = status]
          BY <4>3
        <5>2. cmds'[i].type = cmds[i].type
          BY <3>1, <5>1 DEF Commands
        <5> QED
          BY <2>2, <5>2
      <4> QED
        BY <4>1, <4>2, <4>3
           DEF Process, CmdSelect, CmdLock, CmdRead, Approve, Refuse,
           AlreadyDecided, CancelCommand, ResumeCommand, CmdFails, Processed,
           ProcFinalize,
           ProcCrash, commandVars
    <3>4. CASE UNCHANGED cmds
      BY <2>2, <3>4
    <3> QED
      BY <1>6, <3>2, <3>3, <3>4 DEF CommandNext
  <2> QED
    BY <1>4, <1>6, <2>1, <2>2 DEF workerVars
<1>7. CASE UNCHANGED vars
  BY <1>4, <1>7 DEF vars, storeVars, workerVars, commandVars, Born, Exists
<1> QED
  BY <1>5, <1>6, <1>7 DEF Next

LEMMA LaunchOnceInvariant ==
    ASSUME OneEntry PROVE Spec => []LaunchOnce
<1>1. Init => LaunchOnce
  BY LaunchOnceInitial
<1>2. Inv /\ Inv' /\ LaunchOnce /\ [Next]_vars => LaunchOnce'
  BY LaunchOnceStep
<1> QED
  BY <1>1, <1>2, EngineInvariant, PTL DEF Spec

ExecReached ==
    exec \in {"SUBMITTED", "RUNNING", "INTEGRATION_ERROR", "COMPLETED", "FAILED", "CANCELLED"}

LEMMA TerminalStatuses ==
    ExecTerminal = {"PENDING_APPROVAL", "COMPLETED", "FAILED", "CANCELLED", "REJECTED"}
BY DEF ExecTerminal, ExecTransitions, ExecStatuses

LEMMA ReachedInvariant == Spec => []ExecReached
<1>1. Init => ExecReached
  BY DEF Init, StoreInit, ExecReached
<1>2. Inv /\ ExecReached /\ [Next]_vars => ExecReached'
  BY ExecSteps DEF ExecMoves, ExecReached
<1> QED
  BY <1>1, <1>2, EngineInvariant, PTL DEF Spec

(* TerminalFrozen: an execution that ended keeps its status, whatever      *)
(* cancels, reconciles, finalizes or dies beside it, when the workflow has *)
(* one entry.  With two, the launcher that collides on the second step     *)
(* overwrites the end with INTEGRATION_ERROR without looking at it         *)
(* (execution_views, the handler around the launch).                       *)
THEOREM TerminalStays ==
    ASSUME OneEntry PROVE Spec => TerminalFrozen
<1>1. Inv /\ LaunchOnce /\ ExecReached /\ [Next]_vars
        => [(exec \in ExecTerminal) => (exec' = exec)]_vars
  <2> SUFFICES ASSUME Inv, LaunchOnce, ExecReached, [Next]_vars, exec \in ExecTerminal
               PROVE  exec' = exec
    OBVIOUS
  <2>1. exec \in {"COMPLETED", "FAILED", "CANCELLED"}
    BY TerminalStatuses DEF ExecReached
  <2>2. ~LaunchCollides
    BY DEF LaunchOnce, LaunchCollides, Born
  <2> QED
    BY <2>1, <2>2, ExecSteps DEF ExecMoves
<1> QED
  BY <1>1, LaunchOnceInvariant, ReachedInvariant, EngineInvariant, PTL
     DEF Spec, TerminalFrozen

(* Without that hypothesis: an execution that ended keeps its status, or   *)
(* the launch that failed overwrites it with INTEGRATION_ERROR; nothing    *)
(* else in the code takes it away from its end.                            *)
THEOREM TerminalOverwrittenByLaunch ==
    Spec => [][(exec \in ExecTerminal) => exec' \in {exec, "INTEGRATION_ERROR"}]_vars
<1>1. Inv /\ ExecReached /\ [Next]_vars
        => [(exec \in ExecTerminal) => exec' \in {exec, "INTEGRATION_ERROR"}]_vars
  <2> SUFFICES ASSUME Inv, ExecReached, [Next]_vars, exec \in ExecTerminal
               PROVE  exec' \in {exec, "INTEGRATION_ERROR"}
    OBVIOUS
  <2>1. exec \in {"COMPLETED", "FAILED", "CANCELLED"}
    BY TerminalStatuses DEF ExecReached
  <2> QED
    BY <2>1, ExecSteps DEF ExecMoves
<1> QED
  BY <1>1, ReachedInvariant, EngineInvariant, PTL DEF Spec

-----------------------------------------------------------------------------
(* What becomes of a step that ended.                                      *)

(* What a cancellation does to the steps.                                  *)
LEMMA CancelledAre ==
    ASSUME StoreTypeOK, steps' = CancelledSteps
    PROVE  \A o \in StepIds :
              /\ steps'[o].node = steps[o].node
              /\ steps[o].status \in {"PENDING", "RUNNING", "WAITING"} =>
                    steps'[o].status = "FAILED"
              /\ steps[o].status \notin {"PENDING", "RUNNING", "WAITING"} =>
                    steps'[o] = steps[o]
BY DEF CancelledSteps, StoreTypeOK

(* Whoever changes steps or tasks is one of these.                         *)
LEMMA Makers ==
    ASSUME Inv, [Next]_vars
    PROVE  \/ UNCHANGED <<steps, wk>>
           \/ LaunchCreate /\ UNCHANGED commandVars
           \/ \E w \in Workers : (Task(w) \/ WorkerCrash(w)) /\ UNCHANGED commandVars
           \/ \E p \in Procs, s \in StepIds, status \in {"COMPLETED", "FAILED"},
                 added \in SUBSET StepIds :
                 /\ Approve(p) \/ Refuse(p)
                 /\ Decides(p, s, status, added)
                 /\ UNCHANGED workerVars
           \/ \E p \in Procs, added \in SUBSET StepIds :
                 ResumeCommand(p) /\ Resumes(p, added) /\ UNCHANGED workerVars
           \/ steps' = CancelledSteps /\ UNCHANGED workerVars
<1>1. CASE WorkerNext /\ UNCHANGED commandVars
  <2>1. CASE Launch \/ LaunchCollides \/ LaunchEnqueue \/ LauncherCrash
    BY <2>1 DEF Launch, LaunchCollides, LaunchEnqueue, LauncherCrash, storeVars
  <2>2. ASSUME NEW w \in Workers, WorkerFinalize(w) PROVE UNCHANGED <<steps, wk>>
    BY <2>2
       DEF WorkerFinalize, Finalize, FinActive, FinWaiting, FinFailed,
           FinRefresh, FinCas, storeVars
  <2> QED
    BY <1>1, <2>1, <2>2, ClaimKeeps DEF WorkerNext
<1>2. CASE CommandNext /\ UNCHANGED workerVars
  <2>1. ASSUME NEW p \in Procs, Approve(p) \/ Refuse(p)
        PROVE  \E s \in StepIds, status \in {"COMPLETED", "FAILED"},
                  added \in SUBSET StepIds : Decides(p, s, status, added)
    BY <2>1, DecisionFormed
  <2>2. ASSUME NEW p \in Procs, ResumeCommand(p)
        PROVE  UNCHANGED steps \/ \E added \in SUBSET StepIds : Resumes(p, added)
    BY <2>2, ResumeFormed
  <2>3. ASSUME NEW p \in Procs, CancelCommand(p)
        PROVE  UNCHANGED steps \/ steps' = CancelledSteps
    BY <2>3 DEF CancelCommand, storeVars
  <2>4. ASSUME NEW p \in Procs,
               \/ \E i \in CmdIds : CmdSelect(p, i)
               \/ CmdLock(p) \/ CmdRead(p) \/ AlreadyDecided(p) \/ CmdFails(p)
               \/ ProcFinalize(p) \/ ProcCrash(p)
        PROVE  UNCHANGED steps
    BY <2>4
       DEF CmdSelect, CmdLock, CmdRead, AlreadyDecided, CmdFails, ProcCrash,
           ProcFinalize, Finalize, FinActive, FinWaiting, FinFailed,
           FinRefresh, FinCas, storeVars
  <2>5. CASE Cancel \/ \E i \in CmdIds : WriteCommand(i)
    BY <1>2, <2>5
       DEF Cancel, CancelRequest, CancelSteps, CancelRows, WriteCommand,
           storeVars, workerVars
  <2>6. ASSUME NEW p \in Procs, Process(p)
        PROVE  \/ Approve(p) \/ Refuse(p) \/ ResumeCommand(p) \/ CancelCommand(p)
               \/ UNCHANGED steps
    BY <2>4, <2>6 DEF Process
  <2>7. UNCHANGED wk
    BY <1>2 DEF workerVars
  <2> QED
    BY <1>2, <2>1, <2>2, <2>3, <2>4, <2>5, <2>6, <2>7 DEF CommandNext
<1>3. CASE UNCHANGED vars
  BY <1>3 DEF vars, storeVars, workerVars
<1> QED
  BY <1>1, <1>2, <1>3 DEF Next

(* A step keeps its node as long as the execution is there.                *)
LEMMA EngineNodesStay == ASSUME Inv, [Next]_vars PROVE NodesStay
<1>1. StoreTypeOK /\ WorkInv
  BY InvParts DEF Inv, TypeOK
<1>2. \A o \in StepIds : Exists(o) => Exists(o)'
  <2>1. CASE WorkerNext
    BY <1>1, <2>1, WorkerStep DEF WorkerKept, StoreKept
  <2>2. CASE CommandNext
    BY <2>2, CommandStep DEF CommandKept, StoreKept
  <2> QED
    BY <2>1, <2>2 DEF Next, vars, storeVars, Exists
<1>3. SUFFICES ASSUME NEW o \in StepIds, Exists(o) PROVE steps'[o].node = steps[o].node
  BY <1>2 DEF NodesStay
<1>4. CASE LaunchCreate
  BY <1>3, <1>4 DEF LaunchCreate
<1>5. ASSUME NEW w \in Workers, Task(w) PROVE steps'[o].node = steps[o].node
  BY <1>1, <1>3, <1>5, TaskNodesStay DEF NodesStay
<1>6. ASSUME NEW w \in Workers, WorkerCrash(w) PROVE steps'[o].node = steps[o].node
  BY <1>6 DEF WorkerCrash, storeVars
<1>7. ASSUME NEW p, NEW s \in StepIds, NEW status, NEW added \in SUBSET StepIds,
             Decides(p, s, status, added) \/ Resumes(p, added)
      PROVE  steps'[o].node = steps[o].node
  BY <1>3, <1>7 DEF Decides, Resumes
<1>8. CASE steps' = CancelledSteps
  BY <1>1, <1>8, CancelledAre
<1>9. ASSUME NEW p, NEW added \in SUBSET StepIds, Resumes(p, added)
      PROVE  steps'[o].node = steps[o].node
  BY <1>3, <1>9 DEF Resumes
<1> QED
  BY <1>4, <1>5, <1>6, <1>7, <1>8, <1>9, Makers

(* The resume of a gate creates every target it had not yet: two of them   *)
(* never share a step_order.                                               *)
LEMMA ResumeCreates ==
    ASSUME StoreTypeOK, NEW st, NEW targets \in Seq(Nodes), NEW gone,
           \A o \in StepIds : st[o].node = steps[o].node,
           QueueResumed(st, targets, gone)
    PROVE  \A n \in ToSet(targets) : \E q \in StepIds : steps'[q].node = n
<1> DEFINE new == {i \in DOMAIN targets : ~ExistsForResume(st, targets[i])}
<1> DEFINE upto(i) == {j \in new : j <= i}
<1> DEFINE order(i) == MaxOrder + Cardinality(upto(i))
<1> DEFINE added == {order(i) : i \in new}
<1> DEFINE target(o) == targets[CHOOSE i \in new : order(i) = o]
<1>1. /\ added \subseteq StepIds
      /\ steps' = [o \in StepIds |-> IF o \in added THEN Pending(target(o)) ELSE st[o]]
  BY DEF QueueResumed
<1>2. PICK fresh \in SUBSET StepIds :
         /\ \A o \in fresh : ~Exists(o)
         /\ \A o \in StepIds \ fresh : steps'[o] = st[o]
  BY ResumedAreNew
<1>3. IsFiniteSet(DOMAIN targets) /\ DOMAIN targets \subseteq Nat
  <2>1. DOMAIN targets = 1 .. Len(targets) /\ Len(targets) \in Nat
    OBVIOUS
  <2> QED
    BY <2>1, FS_Interval
<1>4. ASSUME NEW i \in new, NEW j \in new, i < j PROVE order(i) # order(j)
  <2>1. upto(i) \in SUBSET upto(j) /\ j \in upto(j) /\ j \notin upto(i)
    BY <1>3, <1>4
  <2>2. IsFiniteSet(upto(j)) /\ IsFiniteSet(upto(i))
    BY <1>3, FS_Subset
  <2>3. /\ Cardinality(upto(i)) \in Nat /\ Cardinality(upto(j)) \in Nat
        /\ Cardinality(upto(i)) # Cardinality(upto(j))
    BY <2>1, <2>2, FS_Subset, FS_CardinalityType
  <2>4. MaxOrder \in Nat
    BY MaxOrderBound
  <2> HIDE DEF upto
  <2> QED
    BY <2>3, <2>4
<1>5. ASSUME NEW i \in new PROVE target(order(i)) = targets[i]
  <2>1. \A j \in new : order(j) = order(i) => j = i
    <3>1. SUFFICES ASSUME NEW j \in new, order(j) = order(i) PROVE j = i
      OBVIOUS
    <3>2. ~(i < j) /\ ~(j < i)
      BY <1>4, <3>1
    <3>3. i \in Nat /\ j \in Nat
      BY <1>3
    <3> QED
      BY <3>2, <3>3
  <2>2. (CHOOSE j \in new : order(j) = order(i)) = i
    BY <2>1
  <2> QED
    BY <2>2
<1>6. ASSUME NEW i \in DOMAIN targets PROVE \E q \in StepIds : steps'[q].node = targets[i]
  <2>1. CASE i \in new
    <3>1. order(i) \in added
      BY <2>1
    <3> HIDE DEF added, target, order
    <3>2. steps'[order(i)] = Pending(targets[i]) /\ order(i) \in StepIds
      BY <1>1, <1>5, <2>1, <3>1
    <3> QED
      BY <3>2 DEF Pending
  <2>2. CASE ExistsForResume(st, targets[i])
    <3>1. PICK q \in StepIds : st[q].node = targets[i]
      BY <2>2 DEF ExistsForResume, HasStep
    <3>2. targets[i] \in Nodes /\ NoNode \notin Nodes
      BY StoreAssumption DEF StoreAssumption, Nodes
    <3>3. Exists(q)
      BY <3>1, <3>2 DEF StoreTypeOK, Exists
    <3> QED
      BY <1>2, <3>1, <3>3
  <2> QED
    BY <2>1, <2>2
<1> QED
  BY <1>6 DEF ToSet

(* An approval leaves no target of its gate to be created.                 *)
LEMMA ApprovalCreates ==
    ASSUME Inv, NEW p \in Procs, Approve(p),
           NEW s \in StepIds, s = cmds[proc[p].cmd].step, Exists(s)
    PROVE  \A n \in ToSet(NextStepIds(Workflow, steps[s].node, "COMPLETED")) :
              \E q \in StepIds : steps'[q].node = n
<1>1. StoreTypeOK /\ steps[s].node \in Nodes
  BY DEF Inv, TypeOK, StoreTypeOK, Exists
<1>2. PICK m \in Nodes : m = steps[s].node
  BY <1>1
<1>3. PICK next \in Seq(Nodes) :
         next = IF Workflow[m].success # << >> THEN Workflow[m].success
                ELSE LinearNext(Workflow, m)
  BY NextStepIdsType, LinearNextType
<1>4. ToSet(NextStepIds(Workflow, m, "COMPLETED")) \subseteq ToSet(next)
  <2>1. Workflow[m].routed \in BOOLEAN /\ (~Workflow[m].routed => Workflow[m].success = << >>)
    BY StoreAssumption DEF StoreAssumption, IsWorkflow, Nodes
  <2>2. CASE Workflow[m].success # << >>
    BY <1>3, <2>1, <2>2 DEF NextStepIds
  <2>3. CASE Workflow[m].success = << >> /\ Workflow[m].routed
    BY <2>3 DEF NextStepIds, ToSet
  <2>4. CASE Workflow[m].success = << >> /\ ~Workflow[m].routed
    BY <1>3, <2>4 DEF NextStepIds
  <2> QED
    BY <2>1, <2>2, <2>3, <2>4
<1>5. PICK st : st = Decided(s, "COMPLETED")
  OBVIOUS
<1>6. \A o \in StepIds : st[o].node = steps[o].node
  BY <1>1, <1>5 DEF Decided, StoreTypeOK
<1>7. QueueResumed(st, next, {})
  BY <1>2, <1>3, <1>5 DEF Approve
<1>8. \A n \in ToSet(next) : \E q \in StepIds : steps'[q].node = n
  BY <1>1, <1>6, <1>7, ResumeCreates
<1> QED
  BY <1>2, <1>4, <1>8

(* What a step has to create only shrinks.                                 *)
LEMMA MissingShrinks ==
    ASSUME StoreTypeOK, NodesStay, NEW o \in StepIds, Exists(o)
    PROVE  Missing(o)' \subseteq Missing(o)
<1>1. steps[o].node \in Nodes /\ steps'[o].node = steps[o].node /\ NoNode \notin Nodes
  BY StoreAssumption DEF StoreAssumption, Nodes, StoreTypeOK, Exists, NodesStay
<1>2. ToSet(NextStepIds(Workflow, steps[o].node, "COMPLETED")) \in SUBSET Nodes
  BY <1>1, NextWave
<1>3. SUFFICES ASSUME NEW n \in Missing(o)' PROVE n \in Missing(o)
  OBVIOUS
<1>4. /\ n \in ToSet(NextStepIds(Workflow, steps[o].node, "COMPLETED"))
      /\ \A q \in StepIds : steps'[q].node # n
  BY <1>1, <1>3 DEF Missing
<1>5. ASSUME NEW q \in StepIds PROVE steps[q].node # n
  <2>1. CASE Exists(q)
    BY <1>4, <2>1 DEF NodesStay
  <2>2. CASE ~Exists(q)
    BY <1>1, <1>2, <1>4, <2>2 DEF StoreTypeOK, Exists
  <2> QED
    BY <2>1, <2>2
<1> QED
  BY <1>4, <1>5 DEF Missing

Well(o) == steps[o].status \in {"COMPLETED", "SKIPPED"}

(* A task that has the targets of a step to create keeps them at hand, or  *)
(* it dies of a death or of a step_order that is taken.                    *)
LEMMA HandKept ==
    ASSUME Inv, [Next]_vars, NodesStay, NEW o \in StepIds, Exists(o),
           NEW w \in Workers, InHand(o, w), Missing(o)' # {},
           ~WorkerCrash(w), ~NextCollides(w)
    PROVE  InHand(o, w)'
<1>0. /\ StoreTypeOK /\ WorkInv
      /\ wk[w].next \in Seq(Nodes) /\ Idle.pc = "idle"
      /\ wk[w].pc = "enqueue" => wk[w].next # << >>
  BY InvParts, IdleTask
     DEF Inv, TypeOK, WorkInv, WorkerTypeOK, TasksHeld, Tasks
<1>1. Missing(o)' \subseteq Missing(o) /\ Missing(o) \subseteq ToSet(wk[w].next)
  BY <1>0, MissingShrinks DEF InHand
<1>2. wk[w].pc \in {"release", "enqueue"} /\ wk[w].sid = o
  BY DEF InHand
<1>3. ASSUME wk'[w] = wk[w] PROVE InHand(o, w)'
  BY <1>1, <1>2, <1>3 DEF InHand
<1>4. ASSUME NEW v \in Workers, Task(v) PROVE InHand(o, w)'
  <2>1. CASE v # w
    <3>1. TaskForm(v)
      BY <1>0, <1>4, TaskFormed
    <3>2. wk'[w] = wk[w]
      BY <2>1, <3>1
         DEF TaskForm, Dropped, Started, Begins, GoesOn, Ends, Finishes,
             GoesToQueue, Passes, Queues, Collides, Moves, Alone
    <3> QED
      BY <1>3, <3>2
  <2>2. CASE v = w
    <3>1. TaskForm(w)
      BY <1>0, <1>4, <2>2, TaskFormed
    <3>2. ASSUME NEW s \in StepIds, Dropped(s) \/ Started(w, s) PROVE InHand(o, w)'
      BY <1>2, <1>3, <3>2 DEF Dropped, Started
    <3>3. ~Begins(w) /\ ~GoesOn(w) /\ ~Ends(w)
      BY <1>2 DEF Begins, GoesOn, Ends, Busy
    <3>4. CASE Finishes(w)
      BY <1>1, <3>4 DEF Finishes, ToSet
    <3>5. CASE GoesToQueue(w)
      BY <1>1, <1>2, <3>5 DEF GoesToQueue, InHand
    <3>6. ASSUME NEW by, Moves(w, by), Head(wk[w].next) \notin Missing(o)'
          PROVE  InHand(o, w)'
      <4>1. ToSet(wk[w].next) \subseteq {Head(wk[w].next)} \cup ToSet(Tail(wk[w].next))
        BY <1>0, <3>6, HeadAndTail DEF Moves
      <4>2. Missing(o)' \subseteq ToSet(Tail(wk[w].next))
        BY <1>1, <3>6, <4>1
      <4>3. Tail(wk[w].next) # << >>
        BY <4>2 DEF ToSet
      <4> QED
        BY <1>2, <3>6, <4>2, <4>3 DEF Moves, InHand
    <3>7. CASE Passes(w)
      <4>1. PICK q \in StepIds : steps[q].node = Head(wk[w].next)
        BY <3>7 DEF Passes, ExistsActive, HasStep
      <4>2. Head(wk[w].next) \notin Missing(o)'
        BY <3>7, <4>1 DEF Passes, Missing
      <4> QED
        BY <3>6, <3>7, <4>2 DEF Passes
    <3>8. CASE Queues(w)
      <4>1. Head(wk[w].next) \notin Missing(o)'
        BY <3>8 DEF Queues, StepComes, Missing
      <4> QED
        BY <3>6, <3>8, <4>1 DEF Queues
    <3> QED
      BY <3>1, <3>2, <3>3, <3>4, <3>5, <3>7, <3>8 DEF TaskForm, Collides
  <2> QED
    BY <2>1, <2>2
<1>5. ASSUME NEW v \in Workers, WorkerCrash(v) PROVE InHand(o, w)'
  <2>1. Dies(v)
    BY <1>0, <1>5, CrashFormed
  <2> QED
    BY <1>3, <1>5, <2>1 DEF Dies, Alone
<1>6. CASE LaunchCreate \/ UNCHANGED workerVars \/ UNCHANGED wk
  BY <1>3, <1>6 DEF LaunchCreate, workerVars
<1> QED
  BY <1>4, <1>5, <1>6, Makers

(* A step that comes to a good end has its targets at hand, or created.    *)
LEMMA EndsInHand ==
    ASSUME Inv, [Next]_vars, NodesStay, NEW o \in StepIds,
           ~Well(o), Well(o)', Missing(o)' # {}
    PROVE  \E w \in Workers : InHand(o, w)'
<1>0. StoreTypeOK /\ WorkInv
  BY InvParts DEF Inv, TypeOK
<1>1. steps'[o] # steps[o] /\ steps'[o].status \notin {"PENDING", "RUNNING", "WAITING", "FAILED"}
  BY DEF Well
<1>2. ASSUME NEW w \in Workers, Task(w) PROVE InHand(o, w)'
  <2>1. TaskForm(w)
    BY <1>0, <1>2, TaskFormed
  <2>2. Ends(w) /\ o = wk[w].sid
    BY <1>1, <2>1
       DEF TaskForm, Dropped, Started, Begins, GoesOn, Ends, Finishes,
           GoesToQueue, Passes, Queues, Collides, StepTurns, StepComes
  <2>3. steps'[o].status = wk'[w].mem /\ steps'[o].node = steps[o].node
    BY <2>2 DEF Ends, StepTurns
  <2>4. wk'[w].next = NextStepIds(Workflow, steps[o].node, "COMPLETED")
    BY <1>1, <2>2, <2>3 DEF Ends, EndsAs, NodeOf
  <2>5. Missing(o)' \subseteq ToSet(NextStepIds(Workflow, steps[o].node, "COMPLETED"))
    BY <2>3 DEF Missing
  <2> QED
    BY <2>2, <2>4, <2>5 DEF Ends, InHand
<1>3. ASSUME NEW p \in Procs, NEW s \in StepIds, NEW status \in {"COMPLETED", "FAILED"},
             NEW added \in SUBSET StepIds,
             Approve(p) \/ Refuse(p), Decides(p, s, status, added)
      PROVE  FALSE
  <2>1. o = s /\ status = "COMPLETED"
    BY <1>1, <1>3 DEF Decides
  <2>2. Exists(s) /\ s = cmds[proc[p].cmd].step /\ steps'[s].node = steps[s].node
    BY <1>3 DEF Decides
  <2>3. Approve(p)
    <3>1. SUFFICES ASSUME Refuse(p) PROVE FALSE
      BY <1>3
    <3>2. PICK next \in Seq(Nodes), gone \in {{}, {s}} :
             QueueResumed(Decided(s, "FAILED"), next, gone)
      <4>1. Workflow[steps[s].node].error \in Seq(Nodes)
        BY <1>3, NextStepIdsType DEF Decides
      <4> QED
        BY <2>2, <3>1, <4>1 DEF Refuse
    <3>3. PICK st : st = Decided(s, "FAILED")
      OBVIOUS
    <3>4. st[s].status = "FAILED"
      BY <1>0, <3>3 DEF Decided, StoreTypeOK
    <3>5. QueueResumed(st, next, gone)
      BY <3>2, <3>3
    <3>6. PICK fresh \in SUBSET StepIds :
             /\ Post(gone, fresh)
             /\ \A q \in fresh :
                   /\ ~Exists(q)
                   /\ steps'[q].status = "PENDING"
                   /\ steps'[q].node \in ToSet(next)
             /\ \A q \in StepIds \ fresh : steps'[q] = st[q]
      BY <1>0, <3>5, ResumedAreNew
    <3> QED
      BY <1>1, <2>1, <3>4, <3>6
  <2>4. \A n \in ToSet(NextStepIds(Workflow, steps[s].node, "COMPLETED")) :
           \E q \in StepIds : steps'[q].node = n
    BY <2>2, <2>3, ApprovalCreates
  <2> QED
    BY <2>1, <2>2, <2>4 DEF Missing
<1>4. CASE LaunchCreate
  <2>1. PICK q \in StepIds : steps' = [steps EXCEPT ![q] = Pending(Head(launcher.todo))]
    BY <1>4 DEF LaunchCreate
  <2> QED
    BY <1>0, <1>1, <2>1 DEF Pending, StoreTypeOK
<1>5. ASSUME NEW p, NEW added \in SUBSET StepIds, Resumes(p, added) PROVE FALSE
  BY <1>1, <1>5 DEF Resumes
<1>6. CASE steps' = CancelledSteps
  BY <1>0, <1>1, <1>6, CancelledAre
<1>7. ASSUME NEW w \in Workers, WorkerCrash(w) PROVE FALSE
  BY <1>1, <1>7 DEF WorkerCrash, storeVars
<1> QED
  BY <1>1, <1>2, <1>3, <1>4, <1>5, <1>6, <1>7, Makers

(* BranchLostByDeath: a target of a step that ended well is not lost while *)
(* the task that has to create it lives, whatever other branches, second   *)
(* tasks of the step, processors, cancellations and redeliveries do beside *)
(* it; only its death, or a step_order it finds taken, loses it            *)
(* (_enqueue_next_steps runs after the commit of the end of the step).     *)
THEOREM BranchesLostByDeath == Spec => BranchLostByDeath
<1>1. Inv /\ [Next]_vars =>
         [\/ UNCHANGED <<steps, wk>>
          \/ \A o \in StepIds :
                BranchLost(o)' =>
                   \/ BranchLost(o)
                   \/ \E w \in Workers :
                         InHand(o, w) /\ (WorkerCrash(w) \/ NextCollides(w))]_vars
  <2> SUFFICES ASSUME Inv, [Next]_vars, NEW o \in StepIds,
                      BranchLost(o)', ~BranchLost(o)
               PROVE  \E w \in Workers :
                         InHand(o, w) /\ (WorkerCrash(w) \/ NextCollides(w))
    OBVIOUS
  <2>1. NodesStay /\ StoreTypeOK
    BY EngineNodesStay DEF Inv, TypeOK
  <2>2. Well(o)' /\ Missing(o)' # {} /\ \A w \in Workers : ~InHand(o, w)'
    BY DEF BranchLost, Well
  <2>3. Well(o)
    BY <2>1, <2>2, EndsInHand
  <2>4. Exists(o)
    BY <2>3 DEF Well, Exists
  <2>5. Missing(o) # {}
    BY <2>1, <2>2, <2>4, MissingShrinks
  <2>6. PICK w \in Workers : InHand(o, w)
    BY <2>3, <2>5 DEF BranchLost, Well
  <2> QED
    BY <2>1, <2>2, <2>4, <2>6, HandKept
<1> QED
  BY <1>1, EngineInvariant, PTL DEF Spec, BranchLostByDeath
-----------------------------------------------------------------------------
(* Somebody has read the state of a step and will write it: a task that    *)
(* runs it or is about to, or the handler of a decision that has found it  *)
(* waiting.                                                                *)
HasRead(p, o) ==
    /\ proc[p].pc = "read" /\ proc[p].mem = "WAITING"
    /\ cmds[proc[p].cmd].step = o

Taken(o) ==
    \/ \E w \in Workers : wk[w].pc \in Busy /\ wk[w].sid = o
    \/ \E p \in Procs : HasRead(p, o)

Settled(o) == steps[o].status \in {"COMPLETED", "FAILED", "SKIPPED"} /\ ~Taken(o)

(* No decision is taken up about a step that does not wait.                *)
LEMMA ReadWhileWaiting ==
    ASSUME Inv, [Next]_vars, NEW o \in StepIds, steps[o].status # "WAITING",
           NEW p \in Procs, HasRead(p, o)'
    PROVE  HasRead(p, o)
<1>1. /\ \A i \in CmdIds : cmds[i] \in Commands /\ DOMAIN cmds = CmdIds
      /\ proc \in [Procs -> Processors]
      /\ \A q \in Procs : proc[q].pc # "idle" => proc[q].cmd \in CmdIds
      /\ o # 0
  BY CommandsSplit, StoreAssumption, FS_CardinalityType
     DEF Inv, TypeOK, HeldExists, CmdsWell, ProcsWell, StoreAssumption
<1>2. ASSUME NEW q \in Procs, NEW t, proc' = [proc EXCEPT ![q] = t],
             t.pc # "read" \/ t.mem # "WAITING"
      PROVE  proc'[p] = proc[p]
  BY <1>1, <1>2 DEF HasRead
<1>3. ASSUME \A i \in CmdIds : cmds'[i].step = cmds[i].step \/ cmds'[i].step # o,
             proc'[p] = proc[p]
      PROVE  HasRead(p, o)
  BY <1>1, <1>3 DEF HasRead
<1>4. CASE UNCHANGED commandVars
  BY <1>3, <1>4 DEF commandVars
<1>5. ASSUME NEW i \in CmdIds, WriteCommand(i) PROVE HasRead(p, o)
  <2>1. UNCHANGED proc
    BY <1>5 DEF WriteCommand
  <2>2. ASSUME NEW j \in CmdIds, j # i PROVE cmds'[j] = cmds[j]
    BY <1>1, <1>5, <2>2 DEF WriteCommand
  <2>3. cmds'[i].step # o
    BY <1>1, <1>5 DEF WriteCommand
  <2> QED
    BY <1>3, <2>1, <2>2, <2>3
<1>6. ASSUME NEW q \in Procs, Processed(q) PROVE HasRead(p, o)
  <2>1. \A j \in CmdIds : cmds'[j].step = cmds[j].step
    BY <1>1, <1>6 DEF Processed, Commands
  <2>2. ProcIdle.pc # "read"
    BY DEF ProcIdle
  <2> QED
    BY <1>2, <1>3, <1>6, <2>1, <2>2 DEF Processed
<1>7. ASSUME NEW q \in Procs,
             \/ \E i \in CmdIds : CmdSelect(q, i)
             \/ CmdLock(q) \/ CmdRead(q) \/ CmdFails(q) \/ ProcCrash(q) \/ ProcFinalize(q)
      PROVE  HasRead(p, o)
  <2>1. ProcIdle.pc # "read" /\ [ProcIdle EXCEPT !.pc = "selected"].pc # "read"
    BY DEF ProcIdle
  <2>2. ASSUME NEW i \in CmdIds, CmdSelect(q, i) PROVE HasRead(p, o)
    <3>1. [ProcIdle EXCEPT !.pc = "selected", !.cmd = i].pc # "read"
      BY DEF ProcIdle
    <3> QED
      BY <1>2, <1>3, <2>2, <3>1 DEF CmdSelect
  <2>3. CASE CmdLock(q)
    <3>1. [proc[q] EXCEPT !.pc = "locked"].pc # "read"
      BY <1>1 DEF Processors
    <3>2. proc'[p] = proc[p]
      BY <1>1, <1>2, <2>1, <2>3, <3>1 DEF CmdLock
    <3> QED
      BY <1>3, <2>3, <3>2 DEF CmdLock
  <2>4. CASE CmdRead(q)
    <3>1. PICK s : s = cmds[proc[q].cmd].step
      OBVIOUS
    <3>2. /\ proc' = [proc EXCEPT ![q].pc = "read",
                                  ![q].mem = IF s = 0 THEN "none" ELSE steps[s].status]
          /\ UNCHANGED cmds
      BY <2>4, <3>1 DEF CmdRead
    <3>3. p # q
      BY <1>1, <3>1, <3>2 DEF HasRead, Processors
    <3> QED
      BY <1>1, <1>3, <3>2, <3>3
  <2>5. CASE CmdFails(q)
    <3>1. \A j \in CmdIds : cmds'[j].step = cmds[j].step
      BY <1>1, <2>5 DEF CmdFails, Commands
    <3> QED
      BY <1>2, <1>3, <2>1, <2>5, <3>1 DEF CmdFails
  <2>6. CASE ProcCrash(q)
    BY <1>2, <1>3, <2>1, <2>6 DEF ProcCrash
  <2>7. CASE ProcFinalize(q)
    BY <1>4, <2>7 DEF ProcFinalize
  <2> QED
    BY <1>7, <2>2, <2>3, <2>4, <2>5, <2>6, <2>7
<1>8. CASE CommandNext
  <2>1. CASE Cancel /\ UNCHANGED <<fin, cmds, proc>>
    BY <1>3, <2>1
  <2> QED
    BY <1>5, <1>6, <1>7, <1>8, <2>1
       DEF CommandNext, Process, Approve, Refuse, AlreadyDecided,
           CancelCommand, ResumeCommand
<1> QED
  BY <1>4, <1>8 DEF Next, vars

(* Nobody but who has read it before takes a step that ended.              *)
LEMMA TakenBefore ==
    ASSUME Inv, [Next]_vars, NEW o \in StepIds,
           steps[o].status \in {"COMPLETED", "FAILED", "SKIPPED"}, Taken(o)'
    PROVE  Taken(o)
<1>1. WorkInv
  BY InvParts
<1>2. ASSUME NEW w \in Workers, wk'[w].pc \in Busy, wk'[w].sid = o PROVE Taken(o)
  <2>1. ASSUME wk'[w] = wk[w] PROVE Taken(o)
    BY <1>2, <2>1 DEF Taken
  <2>2. ASSUME NEW v \in Workers, Task(v) PROVE Taken(o)
    <3>1. TaskForm(v)
      BY <1>1, <2>2, TaskFormed
    <3>2. ~Started(w, o)
      BY DEF Started
    <3> QED
      BY <1>2, <2>1, <3>1, <3>2, IdleTask
         DEF TaskForm, Dropped, Started, Begins, GoesOn, Ends, Finishes,
             GoesToQueue, Passes, Queues, Collides, Moves, Alone, Taken, Busy
  <2>3. ASSUME NEW v \in Workers, WorkerCrash(v) PROVE Taken(o)
    <3>1. Dies(v)
      BY <1>1, <2>3, CrashFormed
    <3> QED
      BY <1>2, <2>1, <3>1, IdleTask DEF Dies, Alone, Busy
  <2> QED
    BY <2>1, <2>2, <2>3, Makers DEF LaunchCreate, workerVars
<1>3. ASSUME NEW p \in Procs, HasRead(p, o)' PROVE Taken(o)
  BY <1>3, ReadWhileWaiting DEF Taken
<1> QED
  BY <1>2, <1>3 DEF Taken

(* A step that ended, and that no task runs and no handler has found       *)
(* waiting, is over: neither a message delivered late, a row claimed       *)
(* again, a command, a resume nor a cancellation touches it any more.      *)
(* What races with an end has read the step before it: the check of the    *)
(* status at the start of a task and that of the handlers leave no other   *)
(* way (execute_single_runnable_step, _handle_approve).                    *)
THEOREM SettledStepsStay ==
    Spec => [][\A o \in StepIds :
                  Settled(o) => steps'[o] = steps[o] /\ Settled(o)']_vars
<1>1. Inv /\ [Next]_vars =>
         [\A o \in StepIds : Settled(o) => steps'[o] = steps[o] /\ Settled(o)']_vars
  <2> SUFFICES ASSUME Inv, [Next]_vars, NEW o \in StepIds, Settled(o)
               PROVE  steps'[o] = steps[o] /\ Settled(o)'
    OBVIOUS
  <2>0. /\ StoreTypeOK /\ WorkInv /\ Exists(o)
        /\ steps[o].status \notin {"PENDING", "RUNNING", "WAITING"}
    BY InvParts DEF Inv, TypeOK, Settled, Exists
  <2>1. ASSUME NEW w \in Workers, Task(w) PROVE steps'[o] = steps[o]
    <3>1. TaskForm(w)
      BY <2>0, <2>1, TaskFormed
    <3>2. wk[w].pc \in Busy => wk[w].sid # o
      BY DEF Settled, Taken
    <3> QED
      BY <2>0, <3>1, <3>2
         DEF TaskForm, Dropped, Started, Begins, GoesOn, Ends, Finishes,
             GoesToQueue, Passes, Queues, Collides, StepTurns, StepComes, Busy
  <2>2. ASSUME NEW p \in Procs, NEW s \in StepIds, NEW status,
               NEW added \in SUBSET StepIds,
               Approve(p) \/ Refuse(p), Decides(p, s, status, added)
        PROVE  steps'[o] = steps[o]
    <3>1. s # o
      BY <2>2 DEF Settled, Taken, HasRead, Decides, Approve, Refuse, Handles
    <3> QED
      BY <2>0, <2>2, <3>1 DEF Decides
  <2>3. ASSUME NEW p, NEW added \in SUBSET StepIds, Resumes(p, added)
        PROVE  steps'[o] = steps[o]
    BY <2>0, <2>3 DEF Resumes
  <2>4. ASSUME steps' = CancelledSteps PROVE steps'[o] = steps[o]
    BY <2>0, <2>4, CancelledAre
  <2>5. ASSUME LaunchCreate PROVE steps'[o] = steps[o]
    <3>1. PICK q \in StepIds : ~Exists(q) /\ \E t : steps' = [steps EXCEPT ![q] = t]
      BY <2>5 DEF LaunchCreate
    <3> QED
      BY <2>0, <3>1 DEF StoreTypeOK
  <2>6. ASSUME NEW w \in Workers, WorkerCrash(w) PROVE steps'[o] = steps[o]
    BY <2>6 DEF WorkerCrash, storeVars
  <2>7. steps'[o] = steps[o]
    BY <2>1, <2>2, <2>3, <2>4, <2>5, <2>6, Makers
  <2>8. ~Taken(o)'
    BY TakenBefore DEF Settled
  <2> QED
    BY <2>7, <2>8 DEF Settled
<1> QED
  BY <1>1, EngineInvariant, PTL DEF Spec
-----------------------------------------------------------------------------
(* RunsCounted.  What may still run a step is a claim of its row, turned   *)
(* into a message and then into a task, so nothing but a claim adds to it, *)
(* and a claim is counted on the row; and a row that is created again is   *)
(* the row of a step that was never claimed before.                        *)
ClaimedBy(s) == {c \in Claimers : s \in claimed[c]}

TasksOf(s) == {w \in Workers : wk[w].pc # "idle" /\ wk[w].sid = s}

LEMMA RunsNumbers ==
    ASSUME WorkerTypeOK, NEW s \in StepIds
    PROVE  /\ IsFiniteSet(ClaimedBy(s)) /\ Cardinality(ClaimedBy(s)) \in Nat
           /\ IsFiniteSet(TasksOf(s)) /\ Cardinality(TasksOf(s)) \in Nat
           /\ inbox[s] \in Nat
           /\ Runs(s) \in Nat
           /\ Runs(s) = Cardinality(ClaimedBy(s)) + inbox[s] + Cardinality(TasksOf(s))
<1>1. ClaimedBy(s) \in SUBSET Claimers /\ TasksOf(s) \in SUBSET Workers
  BY DEF ClaimedBy, TasksOf
<1>2. /\ IsFiniteSet(ClaimedBy(s)) /\ Cardinality(ClaimedBy(s)) \in Nat
      /\ IsFiniteSet(TasksOf(s)) /\ Cardinality(TasksOf(s)) \in Nat
  BY <1>1, QueueAssumption, FinalizerAssumption, FS_Subset, FS_CardinalityType
<1>3. inbox[s] \in Nat
  BY DEF WorkerTypeOK
<1>4. Runs(s) = Cardinality(ClaimedBy(s)) + inbox[s] + Cardinality(TasksOf(s))
  BY DEF Runs, ClaimedBy, TasksOf
<1> QED
  BY <1>2, <1>3, <1>4

LEMMA RunsNumbersNext ==
    ASSUME WorkerTypeOK', NEW s \in StepIds
    PROVE  /\ Cardinality(ClaimedBy(s)') \in Nat /\ Cardinality(TasksOf(s)') \in Nat
           /\ inbox'[s] \in Nat
           /\ Runs(s)' \in Nat
           /\ Runs(s)' = Cardinality(ClaimedBy(s)') + inbox'[s] + Cardinality(TasksOf(s)')
<1>1. ClaimedBy(s)' \in SUBSET Claimers /\ TasksOf(s)' \in SUBSET Workers
  BY DEF ClaimedBy, TasksOf
<1>2. Cardinality(ClaimedBy(s)') \in Nat /\ Cardinality(TasksOf(s)') \in Nat
  BY <1>1, QueueAssumption, FinalizerAssumption, FS_Subset, FS_CardinalityType
<1>3. inbox'[s] \in Nat
  BY DEF WorkerTypeOK
<1>4. Runs(s)' = Cardinality(ClaimedBy(s)') + inbox'[s] + Cardinality(TasksOf(s)')
  BY DEF Runs, ClaimedBy, TasksOf
<1> QED
  BY <1>2, <1>3, <1>4

(* A finite set that gains or loses nothing but one element.               *)
LEMMA GainsOne ==
    ASSUME NEW S, NEW T, NEW a, IsFiniteSet(S), T \subseteq S \cup {a}
    PROVE  /\ Cardinality(T) \in Nat /\ Cardinality(T) <= Cardinality(S) + 1
           /\ a \notin T => Cardinality(T) <= Cardinality(S)
           /\ a \notin T /\ a \in S => Cardinality(T) + 1 <= Cardinality(S)
<1>1. /\ IsFiniteSet(S \cup {a}) /\ Cardinality(S) \in Nat
      /\ Cardinality(S \cup {a}) <= Cardinality(S) + 1
      /\ Cardinality(S \cup {a}) \in Nat
  BY FS_AddElement, FS_CardinalityType
<1>2. IsFiniteSet(T) /\ Cardinality(T) \in Nat /\ Cardinality(T) <= Cardinality(S \cup {a})
  BY <1>1, FS_Subset, FS_CardinalityType
<1>3. a \notin T => Cardinality(T) <= Cardinality(S)
  <2>1. a \notin T => T \in SUBSET S
    OBVIOUS
  <2> QED
    BY <2>1, FS_Subset
<1>4. ASSUME a \notin T, a \in S PROVE Cardinality(T) + 1 <= Cardinality(S)
  <2>1. T \in SUBSET (S \ {a})
    BY <1>4
  <2>2. IsFiniteSet(S \ {a}) /\ Cardinality(S \ {a}) = Cardinality(S) - 1
    BY <1>4, FS_RemoveElement
  <2>3. Cardinality(T) <= Cardinality(S \ {a})
    BY <2>1, <2>2, FS_Subset
  <2> QED
    BY <1>1, <1>2, <2>2, <2>3
<1> QED
  BY <1>1, <1>2, <1>3, <1>4

(* A claim that commits may run the rows it has locked.                    *)
CountedClaim(s) ==
    /\ Queued(s) /\ Queued(s)'
    /\ rows'[s].attempt = rows[s].attempt + 1

(* Tasks end or go on; only a message begins one.                          *)
LEMMA TasksGoOn ==
    ASSUME WorkInv, NEW s \in StepIds, NEW w \in Workers, Task(w), wk[w].pc # "idle"
    PROVE  UNCHANGED <<claimed, inbox>> /\ TasksOf(s)' \subseteq TasksOf(s)
<1>1. UNCHANGED <<claimed, inbox>>
  BY
     DEF Task, TaskStart, BuildFails, SkipStep, BeginStep, BeginRefused,
         CheckCancelled, FinishStep, BreakStep, OpenGate, Release, NextExists,
         NextQueued, NextCollides, EndStep
<1>2. TaskForm(w)
  BY TaskFormed
<1>3. ASSUME NEW v \in Workers, wk'[v].pc # "idle"
      PROVE  wk[v].pc # "idle" /\ wk'[v].sid = wk[v].sid
  BY <1>2, <1>3, IdleTask
     DEF TaskForm, Dropped, Started, Begins, GoesOn, Ends, Finishes,
         GoesToQueue, Passes, Queues, Collides, Moves, Alone, Busy
<1> QED
  BY <1>1, <1>3 DEF TasksOf

(* A message is used up, for a task or for nothing.                        *)
LEMMA MessageUsed ==
    ASSUME Inv, Inv', NEW s \in StepIds, NEW w \in Workers, NEW t \in StepIds,
           TaskStart(w, t)
    PROVE  Runs(s)' <= Runs(s)
<1>1. /\ WorkerTypeOK /\ WorkerTypeOK'
      /\ wk \in [Workers -> Tasks] /\ inbox \in [StepIds -> Nat]
  BY DEF Inv, TypeOK, WorkerTypeOK
<1>2. ClaimedBy(s)' = ClaimedBy(s) /\ wk[w].pc = "idle" /\ inbox[t] > 0
      /\ inbox' = [inbox EXCEPT ![t] = @ - 1]
  BY DEF TaskStart, ClaimedBy
<1>3. \/ UNCHANGED wk
      \/ wk' = [wk EXCEPT ![w] = [Idle EXCEPT !.pc = "ready", !.sid = t,
                                     !.mem = steps[t].status, !.ctr = MaxOrder]]
  BY DEF TaskStart
<1>4. TasksOf(s)' \subseteq TasksOf(s) \cup {w} /\ (s # t => w \notin TasksOf(s)')
  BY <1>1, <1>2, <1>3 DEF TasksOf, Idle
<1>5. /\ Cardinality(TasksOf(s)') <= Cardinality(TasksOf(s)) + 1
      /\ s # t => Cardinality(TasksOf(s)') <= Cardinality(TasksOf(s))
  BY <1>1, <1>4, RunsNumbers, GainsOne
<1>6. s = t => inbox'[s] = inbox[s] - 1
  BY <1>1, <1>2
<1>7. s # t => inbox'[s] = inbox[s]
  BY <1>1, <1>2
<1>8. /\ Cardinality(ClaimedBy(s)) \in Nat /\ Cardinality(TasksOf(s)) \in Nat
      /\ inbox[s] \in Nat
      /\ Runs(s) = Cardinality(ClaimedBy(s)) + inbox[s] + Cardinality(TasksOf(s))
  BY <1>1, RunsNumbers
<1>9. /\ Cardinality(TasksOf(s)') \in Nat
      /\ Runs(s)' = Cardinality(ClaimedBy(s)') + inbox'[s] + Cardinality(TasksOf(s)')
  BY <1>1, RunsNumbersNext
<1> QED
  BY <1>2, <1>5, <1>6, <1>7, <1>8, <1>9

(* A claim comes or goes, a message is sent.                               *)
LEMMA ClaimsCounted ==
    ASSUME Inv, Inv', NEW s \in StepIds,
           \/ \E c \in Claimers : Claim(c) \/ ClaimerCrash(c)
           \/ \E c \in Claimers, t \in StepIds : Dispatch(c, t)
    PROVE  \/ Runs(s)' <= Runs(s)
           \/ CountedClaim(s) /\ Runs(s)' <= Runs(s) + 1
<1>1. /\ WorkerTypeOK /\ WorkerTypeOK' /\ LocksExclusive /\ QueueTypeOK
      /\ claimed \in [Claimers -> SUBSET StepIds] /\ inbox \in [StepIds -> Nat]
  BY DEF Inv, TypeOK, WorkerTypeOK
<1>2. UNCHANGED wk /\ TasksOf(s)' = TasksOf(s)
  BY DEF Claim, ClaimerCrash, Dispatch, TasksOf
<1>3. /\ IsFiniteSet(ClaimedBy(s))
      /\ Cardinality(ClaimedBy(s)) \in Nat /\ Cardinality(TasksOf(s)) \in Nat
      /\ inbox[s] \in Nat
      /\ Runs(s) = Cardinality(ClaimedBy(s)) + inbox[s] + Cardinality(TasksOf(s))
      /\ Cardinality(ClaimedBy(s)') \in Nat /\ inbox'[s] \in Nat
      /\ Runs(s)' = Cardinality(ClaimedBy(s)') + inbox'[s] + Cardinality(TasksOf(s))
  BY <1>1, <1>2, RunsNumbers, RunsNumbersNext
<1>4. ASSUME UNCHANGED inbox, ClaimedBy(s)' \subseteq ClaimedBy(s)
      PROVE  Runs(s)' <= Runs(s)
  <2>1. Cardinality(ClaimedBy(s)') <= Cardinality(ClaimedBy(s))
    BY <1>3, <1>4, FS_Subset
  <2> QED
    BY <1>3, <1>4, <2>1
<1>5. ASSUME NEW c \in Claimers, Claim(c)
      PROVE  \/ Runs(s)' <= Runs(s)
             \/ CountedClaim(s) /\ Runs(s)' <= Runs(s) + 1
  <2>1. CASE UNCHANGED claimed
    BY <1>4, <1>5, <2>1 DEF Claim, ClaimedBy
  <2>2. CASE ClaimCommit(c) /\ claimed' = [claimed EXCEPT ![c] = locked[c]]
    <3>1. ClaimedBy(s)' \subseteq ClaimedBy(s) \cup {c} /\ (s \notin locked[c] => c \notin ClaimedBy(s)')
      BY <1>1, <2>2 DEF ClaimedBy
    <3>2. CASE s \notin locked[c]
      <4>1. ClaimedBy(s)' \subseteq ClaimedBy(s)
        BY <3>1, <3>2
      <4> QED
        BY <1>4, <1>5, <4>1 DEF Claim
    <3>3. CASE s \in locked[c]
      <4>1. CountedClaim(s)
        BY <1>1, <2>2, <3>3
           DEF LocksExclusive, ClaimCommit, CountedClaim, Queued, QueueTypeOK
      <4>2. Cardinality(ClaimedBy(s)') <= Cardinality(ClaimedBy(s)) + 1
        BY <1>3, <3>1, GainsOne
      <4> QED
        BY <1>3, <1>5, <4>1, <4>2 DEF Claim
    <3> QED
      BY <3>2, <3>3
  <2> QED
    BY <1>5, <2>1, <2>2 DEF Claim
<1>6. ASSUME NEW c \in Claimers, ClaimerCrash(c) PROVE Runs(s)' <= Runs(s)
  <2>1. UNCHANGED inbox /\ ClaimedBy(s)' \subseteq ClaimedBy(s)
    BY <1>1, <1>6 DEF ClaimerCrash, ClaimedBy
  <2> QED
    BY <1>4, <2>1
<1>7. ASSUME NEW c \in Claimers, NEW t \in StepIds, Dispatch(c, t)
      PROVE  Runs(s)' <= Runs(s)
  <2>1. /\ t \in claimed[c]
        /\ claimed' = [claimed EXCEPT ![c] = @ \ {t}]
        /\ inbox' = [inbox EXCEPT ![t] = @ + 1]
    BY <1>7 DEF Dispatch
  <2>2. CASE s # t
    <3>1. inbox'[s] = inbox[s] /\ ClaimedBy(s)' \subseteq ClaimedBy(s)
      BY <1>1, <2>1, <2>2 DEF ClaimedBy
    <3>2. Cardinality(ClaimedBy(s)') <= Cardinality(ClaimedBy(s))
      BY <1>3, <3>1, FS_Subset
    <3> QED
      BY <1>3, <3>1, <3>2
  <2>3. CASE s = t
    <3>1. inbox'[s] = inbox[s] + 1
      BY <1>1, <2>1, <2>3
    <3>2. ClaimedBy(s)' \subseteq ClaimedBy(s) \cup {c} /\ c \in ClaimedBy(s) /\ c \notin ClaimedBy(s)'
      BY <1>1, <2>1, <2>3 DEF ClaimedBy
    <3>3. Cardinality(ClaimedBy(s)') + 1 <= Cardinality(ClaimedBy(s))
      BY <1>3, <3>2, GainsOne
    <3> QED
      BY <1>3, <3>1, <3>3
  <2> QED
    BY <2>2, <2>3
<1> QED
  BY <1>5, <1>6, <1>7

(* What may still run a step is never more than before, but by a claim.    *)
LEMMA RunsMove ==
    ASSUME Inv, Inv', [Next]_vars, NEW s \in StepIds
    PROVE  \/ Runs(s)' <= Runs(s)
           \/ CountedClaim(s) /\ Runs(s)' <= Runs(s) + 1
<1>1. WorkerTypeOK /\ WorkerTypeOK' /\ WorkInv
  BY InvParts DEF Inv, TypeOK
<1>2. ASSUME UNCHANGED <<claimed, inbox>>, TasksOf(s)' \subseteq TasksOf(s)
      PROVE  Runs(s)' <= Runs(s)
  <2>1. Cardinality(TasksOf(s)') <= Cardinality(TasksOf(s))
    BY <1>1, <1>2, RunsNumbers, FS_Subset
  <2>2. ClaimedBy(s)' = ClaimedBy(s)
    BY <1>2 DEF ClaimedBy
  <2>3. /\ Cardinality(ClaimedBy(s)) \in Nat /\ Cardinality(TasksOf(s)) \in Nat
        /\ inbox[s] \in Nat
        /\ Runs(s) = Cardinality(ClaimedBy(s)) + inbox[s] + Cardinality(TasksOf(s))
    BY <1>1, RunsNumbers
  <2>4. /\ Cardinality(TasksOf(s)') \in Nat
        /\ Runs(s)' = Cardinality(ClaimedBy(s)') + inbox'[s] + Cardinality(TasksOf(s)')
    BY <1>1, RunsNumbersNext
  <2> QED
    BY <1>2, <2>1, <2>2, <2>3, <2>4
<1>3. ASSUME UNCHANGED <<claimed, inbox, wk>> PROVE Runs(s)' <= Runs(s)
  BY <1>2, <1>3 DEF TasksOf
<1>4. ASSUME NEW w \in Workers, Task(w) PROVE Runs(s)' <= Runs(s)
  <2>1. CASE wk[w].pc # "idle"
    BY <1>1, <1>2, <1>4, <2>1, TasksGoOn
  <2>2. CASE wk[w].pc = "idle"
    <3>1. PICK t \in StepIds : TaskStart(w, t)
      BY <1>4, <2>2
         DEF Task, BuildFails, SkipStep, BeginStep, BeginRefused,
             CheckCancelled, FinishStep, BreakStep, OpenGate, Release,
             NextExists, NextQueued, NextCollides
    <3> QED
      BY <3>1, MessageUsed
  <2> QED
    BY <2>1, <2>2
<1>5. ASSUME NEW w \in Workers, WorkerCrash(w) PROVE Runs(s)' <= Runs(s)
  <2>1. Dies(w)
    BY <1>1, <1>5, CrashFormed
  <2>2. UNCHANGED <<claimed, inbox>> /\ TasksOf(s)' \subseteq TasksOf(s)
    BY <1>5, <2>1, IdleTask DEF WorkerCrash, Dies, Alone, TasksOf
  <2> QED
    BY <1>2, <2>2
<1>6. ASSUME \/ Launch \/ LaunchCreate \/ LaunchCollides \/ LaunchEnqueue
             \/ LauncherCrash \/ Reclaim
             \/ \E t \in StepIds : LeaseRunsOut(t)
             \/ \E w \in Workers : WorkerFinalize(w)
             \/ UNCHANGED workerVars
      PROVE  Runs(s)' <= Runs(s)
  BY <1>3, <1>6
     DEF Launch, LaunchCreate, LaunchCollides, LaunchEnqueue, LauncherCrash,
         Reclaim, LeaseRunsOut, WorkerFinalize, workerVars
<1> QED
  BY <1>4, <1>5, <1>6, ClaimsCounted DEF Next, WorkerNext, vars

(* Only a new step gets a row, or the one the launcher has created last.   *)
LEMMA RowsComeNew ==
    ASSUME Inv, [Next]_vars, NEW s \in StepIds, ~Queued(s), Queued(s)'
    PROVE  ~Exists(s) \/ (LaunchEnqueue /\ launcher.ctr = s)
<1>1. WorkInv /\ QueueTypeOK /\ LocksExclusive
  BY InvParts DEF Inv, TypeOK
<1>2. ASSUME NEW gone, NEW added, Post(gone, added) PROVE s \in added
  BY <1>2 DEF Post, Queued, NoRow
<1>3. ~UNCHANGED rows
  BY DEF Queued
<1>4. ASSUME NEW gone PROVE ~DeleteRows(gone)
  BY <1>2 DEF DeleteRows
<1>5. ~UNCHANGED queueVars
  BY <1>3 DEF queueVars
<1>6. CASE WorkerNext
  <2>1. CASE LaunchEnqueue
    BY <1>2, <2>1 DEF LaunchEnqueue, EnqueueRow
  <2>2. ~Launch /\ ~LaunchCreate /\ ~LaunchCollides /\ ~LauncherCrash
    BY <1>5 DEF Launch, LaunchCreate, LaunchCollides, LauncherCrash
  <2>3. ASSUME NEW c \in Claimers, Claim(c) PROVE FALSE
    BY <1>1, <1>3, <2>3
       DEF Claim, ClaimSelect, ClaimLock, ClaimCommit, LocksExclusive, Queued
  <2>4. ASSUME NEW c \in Claimers, ClaimerCrash(c) PROVE FALSE
    BY <1>3, <1>5, <2>4 DEF ClaimerCrash, ClaimAbort
  <2>5. ASSUME NEW c \in Claimers, NEW t \in StepIds, Dispatch(c, t) PROVE FALSE
    BY <1>5, <2>5 DEF Dispatch
  <2>6. ASSUME NEW t \in StepIds, LeaseRunsOut(t) PROVE FALSE
    BY <1>1, <2>6 DEF LeaseRunsOut, LeaseExpires, Queued, QueueTypeOK
  <2>7. ~Reclaim
    BY <1>1 DEF Reclaim, ReclaimExpired, Queued, QueueTypeOK
  <2>8. ASSUME NEW w \in Workers, Task(w) PROVE ~Exists(s)
    <3>1. TaskForm(w)
      BY <1>1, <2>8, TaskFormed
    <3> QED
      BY <1>2, <1>3, <1>4, <1>5, <3>1
         DEF TaskForm, Dropped, Started, Begins, GoesOn, Ends, Finishes,
             GoesToQueue, Passes, Queues, Collides, EnqueueRow, StepComes
  <2>9. ASSUME NEW w \in Workers, WorkerFinalize(w) \/ WorkerCrash(w) PROVE FALSE
    BY <1>5, <2>9
       DEF WorkerFinalize, WorkerCrash, Finalize, FinActive, FinWaiting,
           FinFailed, FinRefresh, FinCas
  <2> QED
    BY <1>6, <2>1, <2>2, <2>3, <2>4, <2>5, <2>6, <2>7, <2>8, <2>9 DEF WorkerNext
<1>7. CASE CommandNext
  <2>1. ASSUME NEW p \in Procs, Approve(p) \/ Refuse(p) PROVE ~Exists(s)
    BY <1>2, <2>1, DecisionFormed DEF Decides
  <2>2. ASSUME NEW p \in Procs, ResumeCommand(p) PROVE ~Exists(s)
    <3>1. PICK added \in SUBSET StepIds : Resumes(p, added)
      BY <1>5, <2>2, ResumeFormed
    <3> QED
      BY <1>2, <3>1 DEF Resumes
  <2>3. ASSUME NEW p \in Procs, Process(p) PROVE ~Exists(s)
    BY <1>4, <1>5, <2>1, <2>2, <2>3
       DEF Process, CmdSelect, CmdLock, CmdRead, AlreadyDecided, CmdFails,
           CancelCommand
  <2>4. ASSUME NEW p \in Procs, ProcFinalize(p) \/ ProcCrash(p) PROVE FALSE
    BY <1>5, <2>4
       DEF ProcFinalize, ProcCrash, Finalize, FinActive, FinWaiting,
           FinFailed, FinRefresh, FinCas
  <2>5. ~Cancel /\ \A i \in CmdIds : ~WriteCommand(i)
    BY <1>4, <1>5
       DEF Cancel, CancelRequest, CancelSteps, CancelRows, WriteCommand
  <2> QED
    BY <1>7, <2>3, <2>4, <2>5 DEF CommandNext
<1>8. CASE UNCHANGED vars
  BY <1>5, <1>8 DEF vars
<1> QED
  BY <1>6, <1>7, <1>8 DEF Next

(* The launcher is about to queue a step once it has created it.           *)
LEMMA LauncherWaits ==
    ASSUME WorkInv, [Next]_vars, launcher'.pc = "enqueue", ~LaunchCreate
    PROVE  UNCHANGED launcher
<1>1. ASSUME NEW w \in Workers, Task(w) \/ WorkerFinalize(w) \/ WorkerCrash(w)
      PROVE  UNCHANGED launcher
  BY <1>1
     DEF Task, TaskStart, BuildFails, SkipStep, BeginStep, BeginRefused,
         CheckCancelled, FinishStep, BreakStep, OpenGate, Release, NextExists,
         NextQueued, NextCollides, EndStep, WorkerCrash, WorkerFinalize
<1>2. launcher \in [pc : {"ready", "create", "enqueue", "done"},
                    todo : Seq(Nodes), ctr : StepIds \cup {0}]
  BY DEF WorkInv, WorkerTypeOK
<1>3. ~Launch /\ ~LaunchCollides /\ ~LaunchEnqueue /\ ~LauncherCrash
  BY <1>2 DEF Launch, LaunchCollides, LaunchEnqueue, LauncherCrash
<1> QED
  BY <1>1, <1>3, ClaimKeeps DEF Next, WorkerNext, workerVars, vars

(* Nothing runs a step before it has a row.                                *)
Rowless(s) == ~Exists(s) \/ (launcher.pc = "enqueue" /\ launcher.ctr = s)

FreshSteps == \A s \in StepIds : Rowless(s) => Runs(s) = 0 /\ ~Queued(s)

LEMMA FreshStep ==
    ASSUME Inv, Inv', FreshSteps, [Next]_vars PROVE FreshSteps'
<1>1. SUFFICES ASSUME NEW s \in StepIds, Rowless(s)' PROVE Runs(s)' = 0 /\ ~Queued(s)'
  BY DEF FreshSteps
<1>2. WorkInv' /\ RowsHeld' /\ WorkerTypeOK' /\ WorkInv
  BY InvParts, InvPartsNext DEF WorkInv
<1>3. Rowless(s)
  <2>1. CASE ~Exists(s)'
    <3>1. ~Exists(s)
      BY <2>1, EngineNodesStay DEF NodesStay
    <3> QED
      BY <3>1 DEF Rowless
  <2>2. CASE LaunchCreate
    BY <1>1, <1>2, <2>2 DEF Rowless, LaunchCreate, Exists
  <2>3. CASE ~LaunchCreate /\ launcher'.pc = "enqueue" /\ launcher'.ctr = s
    <3>1. launcher' = launcher
      BY <1>2, <2>3, LauncherWaits
    <3> QED
      BY <2>3, <3>1 DEF Rowless
  <2> QED
    BY <1>1, <2>1, <2>2, <2>3 DEF Rowless
<1>4. Runs(s) = 0 /\ ~Queued(s)
  BY <1>3 DEF FreshSteps
<1>5. Runs(s)' = 0
  <2>1. Runs(s)' \in Nat
    BY <1>2, RunsNumbersNext
  <2> QED
    BY <1>4, <2>1, RunsMove DEF CountedClaim
<1>6. ~Queued(s)'
  <2>1. SUFFICES ASSUME Queued(s)' PROVE FALSE
    OBVIOUS
  <2>2. Exists(s)'
    BY <1>2, <2>1 DEF RowsHeld
  <2>3. launcher'.pc = "enqueue" /\ launcher'.ctr = s
    BY <1>1, <2>2 DEF Rowless
  <2>4. ~LaunchEnqueue
    <3>1. launcher \in [pc : {"ready", "create", "enqueue", "done"},
                        todo : Seq(Nodes), ctr : StepIds \cup {0}]
      BY <1>2 DEF WorkInv, WorkerTypeOK
    <3> QED
      BY <2>3, <3>1 DEF LaunchEnqueue
  <2>5. ~Exists(s)
    BY <1>4, <2>1, <2>4, RowsComeNew
  <2>6. LaunchCreate
    <3>1. SUFFICES ASSUME ~LaunchCreate PROVE FALSE
      OBVIOUS
    <3>2. UNCHANGED launcher
      BY <1>2, <2>3, <3>1, LauncherWaits
    <3> QED
      BY <1>2, <2>3, <2>5, <3>2 DEF WorkInv, LauncherHeld
  <2>7. UNCHANGED rows
    BY <2>6 DEF LaunchCreate, queueVars
  <2> QED
    BY <1>4, <2>1, <2>7 DEF Queued
<1> QED
  BY <1>5, <1>6

(* RunsCounted: however claims overlap, messages come late, commands queue *)
(* steps and tasks or claimers die, a step never has more claims, messages *)
(* and tasks at once than its row counts attempts, and once the row is     *)
(* gone no more than the attempt limit and the claims in flight allow      *)
(* (claim_batch counts an attempt for each row it hands out).              *)
THEOREM RunsAreCounted == Spec => []RunsCounted
<1>1. Init => RunsCounted /\ FreshSteps
  <2> SUFFICES ASSUME Init PROVE RunsCounted /\ FreshSteps
    OBVIOUS
  <2>1. ASSUME NEW s \in StepIds PROVE Runs(s) = 0 /\ ~Queued(s)
    <3>1. ClaimedBy(s) = {} /\ TasksOf(s) = {} /\ inbox[s] = 0 /\ ~Queued(s)
      BY DEF Init, WorkerInit, QueueInit, Queued, NoRow, ClaimedBy, TasksOf, Idle
    <3>2. Cardinality({}) = 0
      BY FS_EmptySet
    <3>3. WorkerTypeOK
      BY InitialTypes DEF Inv, TypeOK
    <3> QED
      BY <3>1, <3>2, <3>3, RunsNumbers
  <2>2. MaxAttempts + Cardinality(Claimers) - 1 >= 0
    <3>1. Claimers \in SUBSET Claimers /\ MaxAttempts \in Nat \ {0}
      BY QueueAssumption
    <3>2. Cardinality(Claimers) \in Nat \ {0}
      BY <3>1, ClaimerCount
    <3> QED
      BY <3>1, <3>2
  <2>3. \A s \in StepIds : rows[s].attempt >= 0
    BY DEF Init, QueueInit, NoRow
  <2> QED
    BY <2>1, <2>2, <2>3 DEF RunsCounted, FreshSteps
<1>2. Inv /\ Inv' /\ AttemptsBounded /\ AttemptsBounded' /\ RunsCounted /\ FreshSteps
        /\ [Next]_vars => RunsCounted' /\ FreshSteps'
  <2> SUFFICES ASSUME Inv, Inv', AttemptsBounded, AttemptsBounded',
                      RunsCounted, FreshSteps, [Next]_vars
               PROVE  RunsCounted'
    BY FreshStep
  <2>1. SUFFICES ASSUME NEW s \in StepIds
                 PROVE  Runs(s)' <= IF Queued(s)' THEN rows'[s].attempt
                                    ELSE MaxAttempts + Cardinality(Claimers) - 1
    BY DEF RunsCounted
  <2>2. /\ WorkerTypeOK /\ WorkerTypeOK' /\ QueueTypeOK /\ QueueTypeOK'
        /\ [QueueNext]_queueVars
    BY EngineStep DEF Inv, TypeOK, RowsKept
  <2>3. /\ Runs(s) \in Nat /\ Runs(s)' \in Nat
        /\ rows[s].attempt \in Nat /\ rows'[s].attempt \in Nat
    BY <2>2, RunsNumbers, RunsNumbersNext DEF QueueTypeOK
  <2>4. /\ MaxAttempts + Cardinality(Claimers) - 1 \in Int
        /\ rows[s].attempt <= MaxAttempts + Cardinality(Claimers) - 1
        /\ rows'[s].attempt <= MaxAttempts + Cardinality(Claimers) - 1
    <3>1. Claimers \in SUBSET Claimers /\ MaxAttempts \in Nat
      BY QueueAssumption
    <3>2. Cardinality(Claimers) \in Nat
      BY <3>1, ClaimerCount
    <3>3. /\ rows[s].attempt < MaxAttempts + Cardinality(Claimers)
          /\ rows'[s].attempt < MaxAttempts + Cardinality(Claimers)
      BY DEF AttemptsBounded
    <3> QED
      BY <2>3, <3>1, <3>2, <3>3
  <2>5. Runs(s) <= IF Queued(s) THEN rows[s].attempt
                   ELSE MaxAttempts + Cardinality(Claimers) - 1
    BY DEF RunsCounted
  <2>6. CASE CountedClaim(s) /\ Runs(s)' <= Runs(s) + 1
    BY <2>3, <2>5, <2>6 DEF CountedClaim
  <2>7. CASE Runs(s)' <= Runs(s)
    <3>1. CASE ~Queued(s)'
      BY <2>3, <2>4, <2>5, <2>7, <3>1
    <3>2. CASE Queued(s) /\ Queued(s)'
      <4>1. rows'[s].attempt >= rows[s].attempt
        BY <2>2, <3>2, AttemptsGrow
      <4> QED
        BY <2>3, <2>5, <2>7, <3>2, <4>1
    <3>3. CASE ~Queued(s) /\ Queued(s)'
      <4>1. Rowless(s)
        BY <3>3, RowsComeNew DEF Rowless, LaunchEnqueue
      <4>2. Runs(s) = 0
        BY <4>1 DEF FreshSteps
      <4> QED
        BY <2>3, <2>7, <3>3, <4>2
    <3> QED
      BY <3>1, <3>2, <3>3
  <2> QED
    BY <2>6, <2>7, RunsMove
<1> QED
  BY <1>1, <1>2, EngineInvariant, EngineAttempts, PTL DEF Spec
=============================================================================
