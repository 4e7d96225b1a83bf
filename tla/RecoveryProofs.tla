--------------------------- MODULE RecoveryProofs ---------------------------
(***************************************************************************)
(* Proofs about Recovery, for any workflow, number of tasks, reconcilers   *)
(* and deaths.  The worker side keeps what WorkerProofs says of it         *)
(* (WorkInv), whatever the reconciler does beside it to the same rows.     *)
(***************************************************************************)
EXTENDS Recovery, WorkerProofs

ChildStatuses == {"none", "RUNNING", "COMPLETED", "FAILED", "CANCELLED"}

Recoveries ==
    [pc : {"idle", "listed", "step", "row", "wave", "enqueue", "rest"},
     todo : SUBSET StepIds, at : StepIds \cup {0}, back : BOOLEAN,
     synced : BOOLEAN, next : Seq(Nodes), ctr : Nat]

RecTypeOK ==
    /\ stale \in BOOLEAN
    /\ child \in [StepIds -> ChildStatuses]
    /\ rec \in [Procs -> Recoveries]
    /\ crashes \in 0 .. MaxCrashes

(* What a reconciler has at hand exists, and it is never without a target. *)
Held(r) ==
    /\ \A o \in rec[r].todo : Exists(o)
    /\ rec[r].pc = "row" => rec[r].at \in StepIds /\ Exists(rec[r].at)
    /\ rec[r].pc = "enqueue" => rec[r].next # << >>

RecHeld == \A r \in Procs : Held(r)

RecInv == WorkInv /\ RecTypeOK /\ RecHeld

LEMMA RestingReconciler ==
    /\ RecIdle \in Recoveries
    /\ RecIdle.pc = "idle" /\ RecIdle.todo = {}
    /\ [RecIdle EXCEPT !.pc = "rest"] \in Recoveries
    /\ [RecIdle EXCEPT !.pc = "rest"].pc = "rest"
    /\ [RecIdle EXCEPT !.pc = "rest"].todo = {}
<1>1. {} \in SUBSET StepIds /\ FALSE \in BOOLEAN /\ << >> \in Seq(Nodes) /\ 0 \in Nat
  OBVIOUS
<1> QED
  BY <1>1 DEF RecIdle, Recoveries

LEMMA RecoveryInitial == RecoveryInit => RecInv
<1> SUFFICES ASSUME RecoveryInit PROVE RecInv
  OBVIOUS
<1>1. WorkInv
  BY WorkerInitial DEF RecoveryInit
<1>2. RecTypeOK
  <2>1. 0 \in 0 .. MaxCrashes /\ FALSE \in BOOLEAN
    BY RecoveryAssumption DEF RecoveryAssumption
  <2>2. RecIdle \in Recoveries
    BY RestingReconciler
  <2>3. [r \in Procs |-> RecIdle] \in [Procs -> Recoveries]
    BY <2>2
  <2> QED
    BY <2>1, <2>3 DEF RecoveryInit, RecTypeOK, ChildStatuses
<1>3. RecHeld
  BY RestingReconciler DEF RecoveryInit, RecHeld, Held
<1> QED
  BY <1>1, <1>2, <1>3 DEF RecInv

(* A reconciler may move to any state that holds what exists.              *)
LEMMA RecMoves ==
    ASSUME rec \in [Procs -> Recoveries], RecHeld, StoreKept,
           NEW r \in Procs, NEW t \in Recoveries, rec' = [rec EXCEPT ![r] = t],
           \A o \in t.todo : Exists(o)',
           t.pc = "row" => t.at \in StepIds /\ Exists(t.at)',
           t.pc = "enqueue" => t.next # << >>
    PROVE  rec' \in [Procs -> Recoveries] /\ RecHeld'
<1>1. rec' \in [Procs -> Recoveries]
  OBVIOUS
<1>2. ASSUME NEW q \in Procs PROVE Held(q)'
  <2>1. CASE q = r
    <3>1. rec'[q] = t
      BY <2>1
    <3>2. CASE t.pc = "row"
      <4>1. PICK o \in StepIds : o = t.at /\ Exists(o)'
        BY <3>2
      <4>2. rec'[q].at = o
        BY <3>1, <4>1
      <4> QED
        BY <3>1, <3>2, <4>1, <4>2 DEF Held, Exists
    <3>3. CASE t.pc # "row"
      BY <3>1, <3>3 DEF Held, Exists
    <3> QED
      BY <3>2, <3>3
  <2>2. CASE q # r
    <3>1. rec'[q] = rec[q] /\ Held(q)
      BY <2>2 DEF RecHeld
    <3>2. rec[q].todo \in SUBSET StepIds
      BY DEF Recoveries
    <3>3. \A o \in StepIds : steps[o].status # "none" => steps'[o].status # "none"
      BY DEF StoreKept, Exists
    <3> QED
      BY <3>1, <3>2, <3>3 DEF Held, Exists
  <2> QED
    BY <2>1, <2>2
<1> QED
  BY <1>1, <1>2 DEF RecHeld

LEMMA RecSame ==
    ASSUME RecTypeOK, RecHeld, StoreKept, UNCHANGED rec
    PROVE  rec' \in [Procs -> Recoveries] /\ RecHeld'
<1>1. \A r \in Procs : rec[r].todo \in SUBSET StepIds
  BY DEF RecTypeOK, Recoveries
<1> QED
  BY <1>1 DEF RecTypeOK, RecHeld, Held, StoreKept, Exists

LEMMA RecRests ==
    ASSUME RecTypeOK, RecHeld, StoreKept, NEW r \in Procs, RecDone(r)
    PROVE  rec' \in [Procs -> Recoveries] /\ RecHeld'
<1>1. PICK t \in Recoveries : t = [RecIdle EXCEPT !.pc = "rest"]
  BY RestingReconciler
<1>2. rec' = [rec EXCEPT ![r] = t] /\ t.pc = "rest" /\ t.todo = {}
  BY <1>1, RestingReconciler DEF RecDone
<1> QED
  BY <1>2, RecMoves DEF RecTypeOK

(* What a step of the reconciler keeps of the worker side and of itself.   *)
Recovered ==
    /\ StoreKept /\ RowsKept
    /\ FinTypeOK' /\ FinTold'
    /\ rec' \in [Procs -> Recoveries] /\ RecHeld'

LEMMA RecoveryWaveType ==
    StoreTypeOK => RecoveryWave \in SUBSET Nodes /\ IsFiniteSet(RecoveryWave)
<1> SUFFICES ASSUME StoreTypeOK
             PROVE  RecoveryWave \in SUBSET Nodes /\ IsFiniteSet(RecoveryWave)
  OBVIOUS
<1> DEFINE results == [n \in OverNodes |->
                         [status |-> steps[LastOf(n)].status,
                          next |-> NextStepIds(Workflow, n, steps[LastOf(n)].status)]]
<1>1. OverNodes \subseteq Nodes
  BY DEF OverNodes, Over, StoreTypeOK
<1>2. \A n \in OverNodes : ToSet(results[n].next) \in SUBSET Nodes
  BY <1>1, NextWave
<1> HIDE DEF results
<1>3. ApplyJoinPolicy(Workflow, OverNodes, results) \subseteq Nodes
  BY <1>2 DEF ApplyJoinPolicy
<1>4. RecoveryWave \subseteq Nodes
  BY <1>3 DEF RecoveryWave, results
<1> QED
  BY <1>4, FS_Subset, StoreAssumption DEF StoreAssumption, Nodes

(* The listing, the steps one by one, and the judgement over them.         *)
LEMMA RecListStep ==
    ASSUME RecInv, NEW r \in Procs, RecNextBeat(r) \/ RecList(r) \/ RecScan(r)
    PROVE  Recovered
<1>1. /\ StoreTypeOK /\ FinTypeOK /\ FinTold /\ RecHeld /\ exec' \in ExecStatuses
      /\ rec \in [Procs -> Recoveries] /\ rec[r] \in Recoveries /\ Held(r)
      /\ UNCHANGED <<steps, queueVars, fin>>
  BY DEF RecInv, WorkInv, StoreTypeOK, RecTypeOK, RecHeld, RecNextBeat, RecList,
         RecScan, storeVars
<1>2. StoreKept /\ RowsKept /\ FinTypeOK' /\ FinTold'
  BY <1>1, StepsSame, RowsSame, FinSame
<1>3. CASE RecNextBeat(r)
  <2>1. rec' = [rec EXCEPT ![r] = RecIdle]
    BY <1>3 DEF RecNextBeat
  <2> QED
    BY <1>1, <1>2, <2>1, RestingReconciler, RecMoves DEF Recovered
<1>4. CASE RecList(r)
  <2>1. PICK t \in Recoveries : t = [rec[r] EXCEPT !.pc = "listed"]
    BY <1>1 DEF Recoveries
  <2>2. rec' = [rec EXCEPT ![r] = t] /\ t.pc = "listed" /\ t.todo = {}
    BY <1>1, <1>4, <2>1, RestingReconciler DEF RecList, Recoveries
  <2> QED
    BY <1>1, <1>2, <2>2, RecMoves DEF Recovered
<1>5. CASE RecScan(r)
  <2> DEFINE running == {o \in StepIds : steps[o].status = "RUNNING"}
  <2> DEFINE pc == IF running = {} THEN "wave" ELSE "step"
  <2>1. PICK t \in Recoveries : t = [rec[r] EXCEPT !.pc = pc, !.todo = running]
    BY <1>1 DEF Recoveries
  <2>2. rec' = [rec EXCEPT ![r] = t] /\ t.pc \in {"wave", "step"} /\ t.todo = running
    BY <1>1, <1>5, <2>1 DEF RecScan, Recoveries
  <2>3. \A o \in t.todo : Exists(o)'
    BY <1>1, <2>2 DEF Exists
  <2> QED
    BY <1>1, <1>2, <2>2, <2>3, RecMoves DEF Recovered
<1> QED
  BY <1>3, <1>4, <1>5

LEMMA RecResetStep ==
    ASSUME RecInv, NEW r \in Procs, RecReset(r) PROVE Recovered
<1>1. /\ StoreTypeOK /\ FinTypeOK /\ FinTold /\ RecHeld /\ exec' \in ExecStatuses
      /\ rec \in [Procs -> Recoveries] /\ rec[r] \in Recoveries /\ Held(r)
      /\ UNCHANGED <<queueVars, fin>>
  BY DEF RecInv, WorkInv, StoreTypeOK, RecTypeOK, RecHeld, RecReset
<1>2. PICK o \in rec[r].todo :
         /\ SetStep(o, "PENDING")
         /\ rec' = [rec EXCEPT ![r].pc = "row", ![r].at = o, ![r].todo = @ \ {o}]
  BY DEF RecReset
<1>3. o \in StepIds /\ Exists(o)
  BY <1>1 DEF Recoveries, Held
<1>4. StoreKept
  BY <1>1, <1>2, <1>3, StepSet DEF StepStatuses
<1>5. RowsKept /\ FinTypeOK' /\ FinTold'
  BY <1>1, RowsSame, FinSame
<1>6. PICK t \in Recoveries :
         t = [rec[r] EXCEPT !.pc = "row", !.at = o, !.todo = @ \ {o}]
  BY <1>1, <1>3 DEF Recoveries
<1>7. /\ rec' = [rec EXCEPT ![r] = t]
      /\ t.pc = "row" /\ t.at = o /\ t.todo \subseteq rec[r].todo
  BY <1>1, <1>2, <1>6 DEF Recoveries
<1>8. \A q \in t.todo : Exists(q)'
  BY <1>1, <1>4, <1>7 DEF Held, Recoveries, StoreKept
<1>9. t.at \in StepIds /\ Exists(t.at)'
  <2>1. Exists(o)'
    BY <1>3, <1>4 DEF StoreKept
  <2> QED
    BY <1>3, <1>7, <2>1
<1> QED
  BY <1>1, <1>4, <1>5, <1>7, <1>8, <1>9, RecMoves DEF Recovered

LEMMA RecRowStep ==
    ASSUME RecInv, NEW r \in Procs, RecRow(r) PROVE Recovered
<1>1. /\ StoreTypeOK /\ FinTypeOK /\ FinTold /\ RecHeld /\ exec' \in ExecStatuses
      /\ rec \in [Procs -> Recoveries] /\ rec[r] \in Recoveries /\ Held(r)
      /\ UNCHANGED <<exec, fin>> /\ rec[r].pc = "row"
  BY DEF RecInv, WorkInv, StoreTypeOK, RecTypeOK, RecHeld, RecRow
<1>2. PICK o \in StepIds : o = rec[r].at /\ Exists(o)
  BY <1>1 DEF Held
<1>3. StoreKept /\ RowsKept
  <2>1. CASE EnqueueRow(o) /\ UNCHANGED steps
    <3>1. StoreKept /\ Exists(o)'
      BY <1>1, <1>2, <2>1, StepsSame DEF StoreKept
    <3>2. Post({}, {o})
      BY <2>1 DEF EnqueueRow
    <3> QED
      BY <3>1, <3>2, RowsPosted
  <2>2. CASE SetStep(o, "FAILED") /\ UNCHANGED queueVars
    BY <1>1, <1>2, <2>2, StepSet, RowsSame DEF StepStatuses
  <2> QED
    BY <1>2, <2>1, <2>2 DEF RecRow
<1>4. FinTypeOK' /\ FinTold'
  BY <1>1, FinSame
<1>5. PICK back \in BOOLEAN :
         rec' = [rec EXCEPT ![r] = [rec[r] EXCEPT !.pc = "step", !.at = 0, !.back = back]]
  <2>1. rec[r].back \in BOOLEAN /\ rec[r] = [rec[r] EXCEPT !.back = rec[r].back]
    BY <1>1 DEF Recoveries
  <2>2. CASE rec' = [rec EXCEPT ![r].pc = "step", ![r].at = 0, ![r].back = TRUE]
    <3>1. rec' = [rec EXCEPT ![r] = [rec[r] EXCEPT !.pc = "step", !.at = 0, !.back = TRUE]]
      BY <2>2
    <3> QED
      BY <3>1
  <2>3. CASE rec' = [rec EXCEPT ![r].pc = "step", ![r].at = 0]
    <3>1. [rec[r] EXCEPT !.pc = "step", !.at = 0]
          = [rec[r] EXCEPT !.pc = "step", !.at = 0, !.back = rec[r].back]
      BY <1>1 DEF Recoveries
    <3>2. rec' = [rec EXCEPT ![r] = [rec[r] EXCEPT !.pc = "step", !.at = 0]]
      BY <2>3
    <3> QED
      BY <2>1, <3>1, <3>2
  <2> QED
    BY <2>2, <2>3 DEF RecRow
<1>6. PICK t \in Recoveries :
         t = [rec[r] EXCEPT !.pc = "step", !.at = 0, !.back = back]
  BY <1>1 DEF Recoveries
<1>7. /\ rec' = [rec EXCEPT ![r] = t]
      /\ t.pc = "step" /\ t.todo = rec[r].todo
  BY <1>1, <1>5, <1>6 DEF Recoveries
<1>8. \A q \in t.todo : Exists(q)'
  BY <1>1, <1>3, <1>7 DEF Held, Recoveries, StoreKept
<1> QED
  BY <1>1, <1>3, <1>4, <1>7, <1>8, RecMoves DEF Recovered

LEMMA RecSyncStep ==
    ASSUME RecInv, NEW r \in Procs, RecSync(r) PROVE Recovered
<1>1. /\ StoreTypeOK /\ FinTypeOK /\ FinTold /\ RecHeld /\ exec' \in ExecStatuses
      /\ rec \in [Procs -> Recoveries] /\ rec[r] \in Recoveries /\ Held(r)
      /\ UNCHANGED <<queueVars, fin>> /\ rec[r].pc = "step"
  BY DEF RecInv, WorkInv, StoreTypeOK, RecTypeOK, RecHeld, RecSync
<1>2. PICK o \in rec[r].todo, status \in {"COMPLETED", "FAILED"}, t \in Recoveries :
         /\ SetStep(o, status)
         /\ rec' = [rec EXCEPT ![r] = t]
         /\ t.pc = "step" /\ t.todo \subseteq rec[r].todo
  <2>1. PICK o \in rec[r].todo :
           \/ /\ SetStep(o, "COMPLETED")
              /\ rec' = [rec EXCEPT ![r].todo = @ \ {o}, ![r].back = TRUE,
                                    ![r].synced = TRUE]
           \/ /\ SetStep(o, "FAILED")
              /\ rec' = [rec EXCEPT ![r].todo = @ \ {o}]
    BY DEF RecSync
  <2> DEFINE done == [rec[r] EXCEPT !.todo = @ \ {o}, !.back = TRUE, !.synced = TRUE]
  <2> DEFINE failed == [rec[r] EXCEPT !.todo = @ \ {o}]
  <2>2. /\ done \in Recoveries /\ done.pc = "step" /\ done.todo \subseteq rec[r].todo
        /\ failed \in Recoveries /\ failed.pc = "step"
        /\ failed.todo \subseteq rec[r].todo
    BY <1>1 DEF Recoveries
  <2>3. CASE SetStep(o, "COMPLETED") /\ rec' = [rec EXCEPT ![r] = done]
    BY <2>2, <2>3
  <2>4. CASE SetStep(o, "FAILED") /\ rec' = [rec EXCEPT ![r] = failed]
    BY <2>2, <2>4
  <2> QED
    BY <2>1, <2>3, <2>4
<1>3. o \in StepIds /\ Exists(o) /\ status \in StepStatuses
  BY <1>1 DEF Recoveries, Held, StepStatuses
<1>4. StoreKept
  BY <1>1, <1>2, <1>3, StepSet
<1>5. RowsKept /\ FinTypeOK' /\ FinTold'
  BY <1>1, RowsSame, FinSame
<1>6. \A q \in t.todo : Exists(q)'
  BY <1>1, <1>2, <1>4 DEF Held, Recoveries, StoreKept
<1> QED
  BY <1>1, <1>2, <1>4, <1>5, <1>6, RecMoves DEF Recovered

LEMMA RecJudgeStep ==
    ASSUME RecInv, NEW r \in Procs, RecJudge(r) PROVE Recovered
<1>1. /\ StoreTypeOK /\ FinTypeOK /\ FinTold /\ RecTypeOK /\ RecHeld
      /\ rec[r] \in Recoveries /\ Held(r)
      /\ UNCHANGED <<steps, queueVars, fin>> /\ rec[r].todo = {}
      /\ exec' \in ExecStatuses
  BY DEF RecInv, WorkInv, StoreTypeOK, RecTypeOK, RecHeld, RecJudge, MarkFailed,
         ExecStatuses
<1>2. StoreKept /\ RowsKept /\ FinTypeOK' /\ FinTold'
  BY <1>1, StepsSame, RowsSame, FinSame
<1>3. CASE RecDone(r)
  BY <1>1, <1>2, <1>3, RecRests DEF Recovered
<1>4. CASE rec' = [rec EXCEPT ![r].pc = "wave"]
  <2>1. PICK t \in Recoveries : t = [rec[r] EXCEPT !.pc = "wave"]
    BY <1>1 DEF Recoveries
  <2>2. rec' = [rec EXCEPT ![r] = t] /\ t.pc = "wave" /\ t.todo = {}
    BY <1>1, <1>4, <2>1 DEF Recoveries
  <2> QED
    BY <1>1, <1>2, <2>2, RecMoves DEF Recovered, RecTypeOK
<1> QED
  BY <1>3, <1>4 DEF RecJudge, MarkFailed

(* The next wave is worked out, or there is none.                          *)
LEMMA RecWaveStep ==
    ASSUME RecInv, NEW r \in Procs, RecWave(r) PROVE Recovered
<1>1. /\ StoreTypeOK /\ FinTypeOK /\ FinTold /\ RecTypeOK /\ RecHeld
      /\ UNCHANGED <<steps, queueVars>>
      /\ exec' \in ExecStatuses
  BY DEF RecInv, WorkInv, StoreTypeOK, RecWave, MarkFailed, ExecStatuses
<1>2. StoreKept /\ RowsKept
  BY <1>1, StepsSame, RowsSame
<1>3. FinTypeOK' /\ FinTold'
  <2>1. r \in Actors /\ "COMPLETED" \in Outcomes \cup {"none"}
    BY DEF Actors, Outcomes
  <2>2. CASE StartFinalize(r, "COMPLETED")
    BY <1>1, <2>1, <2>2, FinStarted
  <2>3. CASE UNCHANGED fin
    BY <1>1, <2>3, FinSame
  <2> QED
    BY <2>2, <2>3 DEF RecWave
<1>4. CASE RecDone(r)
  BY <1>1, <1>2, <1>3, <1>4, RecRests DEF Recovered
<1>5. CASE /\ RecoveryWave # {}
           /\ rec' = [rec EXCEPT ![r] = [RecIdle EXCEPT !.pc = "enqueue",
                        !.next = SetToSeq(RecoveryWave), !.ctr = MaxOrder]]
  <2>1. /\ SetToSeq(RecoveryWave) \in Seq(Nodes)
        /\ SetToSeq(RecoveryWave) # << >>
    <3>1. RecoveryWave \in SUBSET Nodes /\ IsFiniteSet(RecoveryWave)
      BY <1>1, RecoveryWaveType
    <3>2. SetToSeq(RecoveryWave) \in Seq(RecoveryWave)
      BY <3>1, SetToSeqType
    <3>3. SetToSeq(RecoveryWave) # << >>
      BY <1>5, <3>1, SetToSeqType
    <3> HIDE DEF RecoveryWave
    <3> QED
      BY <3>1, <3>2, <3>3
  <2>2. MaxOrder \in Nat
    BY MaxOrderBound
  <2>3. PICK list \in Seq(Nodes) : list = SetToSeq(RecoveryWave) /\ list # << >>
    BY <2>1
  <2>4. PICK ctr \in Nat : ctr = MaxOrder
    BY <2>2
  <2>5. PICK t \in Recoveries :
           t = [RecIdle EXCEPT !.pc = "enqueue", !.next = list, !.ctr = ctr]
    BY RestingReconciler DEF Recoveries
  <2>6. t.pc = "enqueue" /\ t.next = list /\ t.todo = {}
    BY <2>5, RestingReconciler DEF Recoveries
  <2>7. rec' = [rec EXCEPT ![r] = t]
    BY <1>5, <2>3, <2>4, <2>5
  <2> QED
    BY <1>1, <1>2, <1>3, <2>3, <2>6, <2>7, RecMoves DEF Recovered, RecTypeOK
<1> QED
  BY <1>4, <1>5 DEF RecWave, MarkFailed

(* Past one target of the wave.                                            *)
LEMMA RecAdvances ==
    ASSUME RecTypeOK, RecHeld, StoreKept, NEW r \in Procs, NEW queued \in BOOLEAN,
           rec[r].pc = "enqueue", RecAdvance(r, queued)
    PROVE  rec' \in [Procs -> Recoveries] /\ RecHeld'
<1>1. rec[r] \in Recoveries /\ rec[r].next \in Seq(Nodes) /\ rec[r].next # << >>
      /\ rec[r].ctr \in Nat /\ Held(r)
  BY DEF RecTypeOK, Recoveries, RecHeld, Held
<1>2. Tail(rec[r].next) \in Seq(Nodes)
  BY <1>1, HeadAndTail
<1>3. CASE Tail(rec[r].next) = << >>
  BY <1>3, RecRests DEF RecAdvance
<1>4. CASE Tail(rec[r].next) # << >>
  <2>1. PICK rest \in Seq(Nodes) : rest = Tail(rec[r].next) /\ rest # << >>
    BY <1>2, <1>4
  <2>2. PICK ctr \in Nat : ctr = IF queued THEN rec[r].ctr + 1 ELSE rec[r].ctr
    BY <1>1
  <2>3. PICK t \in Recoveries : t = [rec[r] EXCEPT !.next = rest, !.ctr = ctr]
    BY <1>1 DEF Recoveries
  <2>4. t.pc = "enqueue" /\ t.next = rest /\ t.todo = rec[r].todo
    BY <1>1, <2>3 DEF Recoveries
  <2>5. rec' = [rec EXCEPT ![r] = t]
    BY <1>4, <2>1, <2>2, <2>3 DEF RecAdvance
  <2>6. \A o \in t.todo : Exists(o)'
    BY <1>1, <2>4 DEF Held, Recoveries, StoreKept
  <2> QED
    BY <2>1, <2>4, <2>5, <2>6, RecMoves DEF RecTypeOK
<1> QED
  BY <1>3, <1>4

(* _enqueue_next_steps on the reconciler's behalf.                         *)
LEMMA RecQueueStep ==
    ASSUME RecInv, NEW r \in Procs, RecExists(r) \/ RecQueued(r) \/ RecCollides(r)
    PROVE  Recovered
<1>1. /\ StoreTypeOK /\ FinTypeOK /\ FinTold /\ RecTypeOK /\ RecHeld
      /\ UNCHANGED fin /\ exec' \in ExecStatuses /\ rec[r].pc = "enqueue"
  BY DEF RecInv, WorkInv, StoreTypeOK, RecExists, RecQueued, RecCollides, MarkFailed,
         ExecStatuses, storeVars
<1>2. FinTypeOK' /\ FinTold'
  BY <1>1, FinSame
<1>3. CASE RecExists(r)
  <2>1. StoreKept /\ RowsKept
    BY <1>1, <1>3, StepsSame, RowsSame DEF RecExists, storeVars
  <2>2. RecAdvance(r, FALSE) /\ FALSE \in BOOLEAN
    BY <1>3 DEF RecExists
  <2> QED
    BY <1>1, <1>2, <2>1, <2>2, RecAdvances DEF Recovered
<1>4. CASE RecQueued(r)
  <2>1. PICK o \in StepIds : o = rec[r].ctr + 1
    BY <1>4 DEF RecQueued
  <2>2. PICK n \in Nodes : n = Head(rec[r].next)
    <3>1. rec[r].next \in Seq(Nodes) /\ rec[r].next # << >>
      BY <1>1 DEF RecTypeOK, Recoveries, RecHeld, Held
    <3> QED
      BY <3>1
  <2>3. steps' = [steps EXCEPT ![o] = Pending(n)] /\ Post({}, {o})
    BY <1>4, <2>1, <2>2 DEF RecQueued, EnqueueRow
  <2>4. StoreKept /\ Exists(o)'
    BY <1>1, <2>3, StepAdded
  <2>5. RowsKept
    BY <2>3, <2>4, RowsPosted
  <2>6. RecAdvance(r, TRUE) /\ TRUE \in BOOLEAN
    BY <1>4 DEF RecQueued
  <2> QED
    BY <1>1, <1>2, <2>4, <2>5, <2>6, RecAdvances DEF Recovered
<1>5. CASE RecCollides(r)
  <2>1. StoreKept /\ RowsKept
    BY <1>1, <1>5, StepsSame, RowsSame DEF RecCollides
  <2>2. RecDone(r)
    BY <1>5 DEF RecCollides, MarkFailed
  <2> QED
    BY <1>1, <1>2, <2>1, <2>2, RecRests DEF Recovered
<1> QED
  BY <1>3, <1>4, <1>5

LEMMA RecStops ==
    ASSUME RecInv, NEW r \in Procs, RecFinalize(r) \/ RecCrash(r) PROVE Recovered
<1>1. /\ StoreTypeOK /\ FinTypeOK /\ FinTold /\ RecTypeOK /\ RecHeld /\ r \in Actors
  BY DEF RecInv, WorkInv, Actors
<1>2. CASE RecFinalize(r)
  <2>1. Finalize(r) /\ UNCHANGED rec
    BY <1>2 DEF RecFinalize, recoveryVars
  <2>2. StoreKept /\ RowsKept /\ FinTypeOK' /\ FinTold'
    BY <1>1, <2>1, FinalizeStep
  <2> QED
    BY <1>1, <2>1, <2>2, RecSame DEF Recovered
<1>3. CASE RecCrash(r)
  <2>1. /\ fin' = [fin EXCEPT ![r] = Off] /\ RecDone(r)
        /\ exec' \in ExecStatuses /\ UNCHANGED <<steps, queueVars>>
    BY <1>1, <1>3 DEF RecCrash, storeVars, StoreTypeOK
  <2>2. StoreKept /\ RowsKept /\ FinTypeOK' /\ FinTold'
    BY <1>1, <2>1, StepsSame, RowsSame, FinStopped
  <2> QED
    BY <1>1, <2>1, <2>2, RecRests DEF Recovered
<1> QED
  BY <1>2, <1>3

LEMMA ReconcileStep ==
    ASSUME RecInv, NEW r \in Procs, Reconcile(r) \/ RecCrash(r)
    PROVE  Recovered
BY RecListStep, RecResetStep, RecRowStep, RecSyncStep, RecJudgeStep, RecWaveStep,
   RecQueueStep, RecStops DEF Reconcile

(* The worker side in its own steps, and every death.                      *)
LEMMA WorkingStep ==
    ASSUME WorkInv,
           \/ Launching \/ Queueing
           \/ \E w \in Workers : TaskAndChild(w)
           \/ Crash /\ UNCHANGED rec /\ ~\E r \in Procs : RecCrash(r)
    PROVE  WorkerKept
<1>1. WorkerNext
  BY DEF Launching, Queueing, TaskAndChild, Crash, WorkerNext
<1> QED
  BY <1>1, WorkerStep

(* Whatever moves, the worker side keeps what it stands on, the reconciler *)
(* holds what exists, and the queue takes a step of its own.               *)
LEMMA RecoveryStep ==
    ASSUME RecInv, [RecoveryNext]_allVars
    PROVE  WorkInv' /\ Recovered
<1>1. /\ WorkInv /\ StoreTypeOK /\ QueueTypeOK /\ FinTypeOK /\ WorkerTypeOK /\ RowsHeld
      /\ LauncherHeld /\ TasksHeld /\ LocksExclusive /\ FinTold
      /\ RecTypeOK /\ RecHeld
  BY DEF RecInv, WorkInv
<1>2. ASSUME WorkerKept, UNCHANGED rec
      PROVE  WorkInv' /\ Recovered
  <2>1. QueueTypeOK' /\ LocksExclusive' /\ RowsHeld'
    BY <1>1, <1>2, RowsStayHeld DEF WorkerKept
  <2> QED
    BY <1>1, <1>2, <2>1, RecSame DEF WorkerKept, StoreKept, WorkInv, Recovered
<1>3. ASSUME Recovered, UNCHANGED workerVars
      PROVE  WorkInv' /\ Recovered
  <2>1. QueueTypeOK' /\ LocksExclusive' /\ RowsHeld'
    BY <1>1, <1>3, RowsStayHeld DEF Recovered
  <2>2. WorkerTypeOK' /\ LauncherHeld' /\ TasksHeld'
    BY <1>1, <1>3, LauncherSame, TasksSame DEF Recovered, workerVars, WorkerTypeOK
  <2> QED
    BY <1>1, <1>3, <2>1, <2>2 DEF Recovered, StoreKept, WorkInv
<1>4. ASSUME UNCHANGED <<vars, rec>> PROVE WorkInv' /\ Recovered
  <2>1. StoreKept /\ RowsKept /\ FinTypeOK' /\ FinTold'
    BY <1>1, <1>4, StepsSame, RowsSame, FinSame DEF vars, storeVars, StoreTypeOK
  <2> QED
    BY <1>1, <1>3, <1>4, <2>1, RecSame DEF Recovered, vars
<1>5. CASE (Launching \/ Queueing) /\ UNCHANGED recoveryVars
  BY <1>1, <1>2, <1>5, WorkingStep DEF recoveryVars
<1>6. ASSUME NEW w \in Workers, TaskAndChild(w) PROVE WorkInv' /\ Recovered
  BY <1>1, <1>2, <1>6, WorkingStep DEF TaskAndChild
<1>7. CASE Crash
  <2>1. CASE \E r \in Procs : RecCrash(r)
    <3>1. PICK r \in Procs : RecCrash(r)
      BY <2>1
    <3>2. Recovered /\ UNCHANGED workerVars
      BY <3>1, ReconcileStep DEF RecCrash
    <3> QED
      BY <1>3, <3>2
  <2>2. CASE ~\E r \in Procs : RecCrash(r)
    BY <1>1, <1>2, <1>7, <2>2, WorkingStep DEF Crash
  <2> QED
    BY <2>1, <2>2
<1>8. ASSUME NEW r \in Procs, Reconcile(r) PROVE WorkInv' /\ Recovered
  <2>1. UNCHANGED workerVars
    BY <1>8 DEF Reconcile, RecNextBeat, RecList, RecScan, RecReset, RecRow, RecSync,
                RecJudge, RecWave, RecExists, RecQueued, RecCollides, RecFinalize, Aside
  <2> QED
    BY <1>3, <1>8, <2>1, ReconcileStep
<1>9. CASE \/ \E w \in Workers : ChildStarts(w)
           \/ \E o \in StepIds : ChildEnds(o)
           \/ GrowsStale
  BY <1>4, <1>9 DEF ChildStarts, ChildEnds, GrowsStale
<1>10. CASE UNCHANGED allVars
  BY <1>4, <1>10 DEF allVars, recoveryVars
<1> QED
  BY <1>5, <1>6, <1>7, <1>8, <1>9, <1>10 DEF RecoveryNext

(* The variables of the recovery itself.                                   *)
LEMMA RecoveryTypes ==
    ASSUME RecInv, WorkInv', [RecoveryNext]_allVars
    PROVE  /\ stale' \in BOOLEAN
           /\ child' \in [StepIds -> ChildStatuses]
           /\ crashes' \in 0 .. MaxCrashes
<1>1. /\ stale \in BOOLEAN /\ child \in [StepIds -> ChildStatuses]
      /\ crashes \in 0 .. MaxCrashes /\ MaxCrashes \in Nat
  BY RecoveryAssumption DEF RecInv, RecTypeOK, RecoveryAssumption
<1>2. CASE UNCHANGED recoveryVars
  BY <1>1, <1>2 DEF recoveryVars
<1>3. ASSUME NEW w \in Workers, TaskAndChild(w)
      PROVE  /\ stale' \in BOOLEAN /\ UNCHANGED crashes
             /\ child' \in [StepIds -> ChildStatuses]
  <2>1. wk'[w].out \in ChildStatuses
    BY DEF WorkInv, WorkerTypeOK, Tasks, Outcomes, ChildStatuses
  <2> QED
    BY <1>1, <1>3, <2>1 DEF TaskAndChild
<1>4. ASSUME NEW w \in Workers, ChildStarts(w)
      PROVE  UNCHANGED <<stale, crashes>> /\ child' \in [StepIds -> ChildStatuses]
  BY <1>1, <1>4 DEF ChildStarts, ChildStatuses
<1>5. ASSUME NEW o \in StepIds, ChildEnds(o)
      PROVE  UNCHANGED <<stale, crashes>> /\ child' \in [StepIds -> ChildStatuses]
  BY <1>1, <1>5 DEF ChildEnds, ChildStatuses
<1>6. CASE GrowsStale
  BY <1>1, <1>6 DEF GrowsStale
<1>7. ASSUME NEW r \in Procs, Reconcile(r)
      PROVE  /\ stale' \in BOOLEAN /\ UNCHANGED crashes
             /\ child' \in [StepIds -> ChildStatuses]
  <2>1. CASE RecSync(r)
    BY <1>1, <2>1 DEF RecSync, Aside, ChildStatuses
  <2>2. CASE ~RecSync(r)
    BY <1>1, <1>7, <2>2
       DEF Reconcile, RecNextBeat, RecList, RecScan, RecReset, RecRow, RecJudge, RecWave,
           RecExists, RecQueued, RecCollides, RecFinalize, Aside, recoveryVars
  <2> QED
    BY <2>1, <2>2
<1>8. CASE Crash
  <2>1. UNCHANGED <<stale, child>>
    BY <1>8 DEF Crash, RecCrash
  <2> QED
    BY <1>1, <1>8, <2>1 DEF Crash
<1>9. CASE UNCHANGED allVars
  BY <1>1, <1>9 DEF allVars, recoveryVars
<1> QED
  BY <1>1, <1>2, <1>3, <1>4, <1>5, <1>6, <1>7, <1>8, <1>9 DEF RecoveryNext

LEMMA RecoveryInvariant == RecoverySpec => []RecInv
<1>1. RecInv /\ [RecoveryNext]_allVars => RecInv'
  <2> SUFFICES ASSUME RecInv, [RecoveryNext]_allVars PROVE RecInv'
    OBVIOUS
  <2>1. WorkInv' /\ Recovered
    BY RecoveryStep
  <2> QED
    BY <2>1, RecoveryTypes DEF RecInv, RecTypeOK, Recovered
<1> QED
  BY <1>1, RecoveryInitial, PTL DEF RecoverySpec

(* The types of the rows, the queue, the tasks and the reconcilers.        *)
THEOREM RecoveryTypeCorrect ==
    RecoverySpec => [](StoreTypeOK /\ QueueTypeOK /\ FinTypeOK /\ WorkerTypeOK /\ RecTypeOK)
<1>1. RecInv => StoreTypeOK /\ QueueTypeOK /\ FinTypeOK /\ WorkerTypeOK /\ RecTypeOK
  BY DEF RecInv, WorkInv
<1> QED
  BY <1>1, RecoveryInvariant, PTL

(* A reconciler that resets steps and queues them again is one more user   *)
(* of the work queue: what the queue promises holds in the recovery.       *)
THEOREM RecoveryUsesQueue == RecoverySpec => QueueSpec
<1>1. RecoveryInit => QueueInit
  BY DEF RecoveryInit
<1>2. RecInv /\ [RecoveryNext]_allVars => [QueueNext]_queueVars
  BY RecoveryStep DEF Recovered, RowsKept
<1> QED
  BY <1>1, <1>2, RecoveryInvariant, PTL DEF RecoverySpec, QueueSpec

(* ... so a step is not claimed for ever, however often it is brought back *)
(* while it has a row (_reset_and_enqueue_step keeps the row and with it   *)
(* the attempts).                                                          *)
THEOREM RecoveryAttempts == RecoverySpec => []AttemptsBounded
BY RecoveryUsesQueue, AttemptLimit, PTL
=============================================================================
