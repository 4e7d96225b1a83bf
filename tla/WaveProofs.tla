----------------------------- MODULE WaveProofs -----------------------------
(***************************************************************************)
(* The barrier, the limit and the join of WaveRuntime for every workflow,  *)
(* limit and set of failures.                                              *)
(***************************************************************************)
EXTENDS WaveRuntime, WorkerProofs

(* Only steps of the wave are at work, and only inside a wave.             *)
AtWork(n) == thread[n].pc \in {"ready", "running"}

Barrier ==
    /\ \A n \in Nodes : AtWork(n) =>
          n \in loop.wave /\ loop.pc \in {"single", "fan", "drain", "cut", "left"}
    /\ loop.pc = "single" => \E n \in Nodes : loop.wave = {n}
    /\ loop.pc = "idle" => loop.wave = {}
    /\ loop.pc = "end" => loop.final \in Results

(* A step order is given out once the transition is counted.               *)
Counted ==
    /\ loop.order <= MaxTransitions /\ loop.count = loop.order
    /\ \A n \in Nodes : AtWork(n) => thread[n].order <= loop.order
    /\ \A o \in StepIds : Exists(o) => o <= loop.order

(* A handler at work has its row, and one that succeeded has left it so.   *)
RowOf(n) ==
    thread[n].order \in StepIds /\ steps[thread[n].order].node = n

Rooted ==
    \A n \in Nodes :
        /\ thread[n].pc = "running" => RowOf(n)
        /\ thread[n].pc = "done" /\ thread[n].out = "COMPLETED" =>
              /\ RowOf(n)
              /\ steps[thread[n].order].status \in {"COMPLETED", "SKIPPED"}

(* What the loop takes for a success is one.                               *)
Reported ==
    loop.pc \in {"fan", "drain"} =>
        \A n \in loop.wave : result[n] = "COMPLETED" =>
            thread[n].pc = "done" /\ thread[n].out = "COMPLETED"

WaveInv == WaveTypeOK /\ Barrier /\ Counted /\ Rooted /\ Reported
-----------------------------------------------------------------------------
LEMMA InitHolds == Init => WaveInv
<1> SUFFICES ASSUME Init PROVE WaveInv
  OBVIOUS
<1>1. NoThread \in Threads /\ NoThread.pc = "off"
  BY DEF NoThread, Threads
<1>2. StoreTypeOK /\ \A o \in StepIds : ~Exists(o)
  BY DEF Init, StoreInit, StoreTypeOK, NoStep, Exists, ExecStatuses
<1>3. /\ loop \in Loops /\ loop.pc = "idle" /\ loop.wave = {}
      /\ loop.order = 0 /\ loop.count = 0
  BY DEF Init, Loops
<1>4. WaveTypeOK
  BY <1>1, <1>2, <1>3 DEF Init, WaveTypeOK, CancelInit, CancelTypeOK
<1>5. \A n \in Nodes : thread[n].pc = "off"
  BY <1>1 DEF Init
<1>6. Barrier
  BY <1>3, <1>5 DEF Barrier, AtWork
<1>7. Counted
  BY <1>2, <1>3, <1>5, WaveAssumption DEF Counted, AtWork
<1>8. Rooted /\ Reported
  BY <1>3, <1>5 DEF Rooted, Reported
<1> QED
  BY <1>4, <1>6, <1>7, <1>8 DEF WaveInv
-----------------------------------------------------------------------------
(* The forms the loop takes.                                               *)
LEMMA LoopForms ==
    ASSUME loop \in Loops,
           NEW pc \in {"idle", "wave", "single", "fan", "drain", "cut", "left",
                       "end", "paused", "done"},
           NEW wave \in SUBSET Nodes
    PROVE  /\ LoopAt(pc, wave) \in Loops
           /\ LoopAt(pc, wave).pc = pc /\ LoopAt(pc, wave).wave = wave
           /\ LoopAt(pc, wave).order = loop.order
           /\ LoopAt(pc, wave).count = loop.count
BY DEF LoopAt, Loops

LEMMA EndForms ==
    ASSUME loop \in Loops, NEW s \in Results, EndWith(s)
    PROVE  /\ loop' \in Loops /\ loop'.pc = "end" /\ loop'.wave = {}
           /\ loop'.final \in Results
           /\ loop'.order = loop.order /\ loop'.count = loop.count
<1>1. PICK x \in Loops : /\ x = LoopAt("end", {})
                         /\ x.pc = "end" /\ x.wave = {}
                         /\ x.order = loop.order /\ x.count = loop.count
  <2>1. {} \in SUBSET Nodes
    OBVIOUS
  <2> QED
    BY <2>1, LoopForms
<1>2. loop' = [x EXCEPT !.final = s]
  BY <1>1 DEF EndWith
<1> QED
  BY <1>1, <1>2 DEF Loops

LEMMA CountForms ==
    ASSUME loop \in Loops, NEW pc \in {"single", "fan"}, NEW k \in Nat,
           loop' = [loop EXCEPT !.pc = pc, !.order = @ + k, !.count = @ + k]
    PROVE  /\ loop' \in Loops /\ loop'.pc = pc /\ loop'.wave = loop.wave
           /\ loop'.order = loop.order + k /\ loop'.count = loop.count + k
<1>1. loop.order + k \in Nat /\ loop.count + k \in Nat
  BY DEF Loops
<1>2. PICK o \in Nat : o = loop.order + k
  BY <1>1
<1>3. PICK c \in Nat : c = loop.count + k
  BY <1>1
<1>4. loop' = [loop EXCEPT !.pc = pc, !.order = o, !.count = c]
  BY <1>2, <1>3
<1> QED
  BY <1>2, <1>3, <1>4 DEF Loops

LEMMA GoOnForms ==
    ASSUME loop \in Loops, NEW wave \in SUBSET Nodes, GoOn(wave)
    PROVE  /\ loop' \in Loops /\ loop'.pc \in {"end", "wave"}
           /\ loop'.wave = wave
           /\ loop'.pc = "end" => loop'.final \in Results
           /\ loop'.order = loop.order /\ loop'.count = loop.count
<1>1. CASE wave = {}
  <2>1. EndWith("COMPLETED") /\ "COMPLETED" \in Results
    BY <1>1 DEF GoOn, EndWith, Results
  <2> QED
    BY <1>1, <2>1, EndForms
<1>2. CASE wave # {}
  BY <1>2, LoopForms DEF GoOn
<1> QED
  BY <1>1, <1>2
-----------------------------------------------------------------------------
(* The ways a step may change what is shared.                              *)

(* The loop leaves a wave, or is outside one; nobody is at work.           *)
LEMMA WaveOver ==
    ASSUME WaveInv,
           loop' \in Loops, loop'.pc \notin {"idle", "single", "fan", "drain"},
           loop'.pc = "end" => loop'.final \in Results,
           loop'.order = loop.order, loop'.count = loop.count,
           thread' \in [Nodes -> Threads],
           \A n \in Nodes :
              /\ ~AtWork(n)'
              /\ thread'[n].pc = "done" /\ thread'[n].out = "COMPLETED" =>
                    thread'[n] = thread[n],
           exec' \in ExecStatuses, UNCHANGED <<steps, cancel, result>>
    PROVE  WaveInv'
<1> USE DEF WaveInv
<1>1. WaveTypeOK'
  BY DEF WaveTypeOK, StoreTypeOK, CancelTypeOK
<1>2. Barrier'
  BY DEF Barrier
<1>3. Counted'
  BY DEF Counted, Exists
<1>4. Rooted'
  BY DEF Rooted, RowOf, AtWork
<1>5. Reported'
  BY DEF Reported
<1> QED
  BY <1>1, <1>2, <1>3, <1>4, <1>5

(* The loop stays where it is and no handler moves.                        *)
LEMMA HandlersStay ==
    ASSUME WaveInv, UNCHANGED <<loop, thread>>,
           steps' \in [StepIds -> [node : Nodes \cup {NoNode},
                                   status : StepStatuses \cup {"none"}]],
           \A o \in StepIds :
              /\ steps'[o].node = steps[o].node
              /\ steps'[o].status = "none" <=> steps[o].status = "none"
              /\ steps[o].status \in {"COMPLETED", "SKIPPED"} =>
                    steps'[o].status = steps[o].status,
           exec' \in ExecStatuses, CancelTypeOK',
           result' \in [Nodes -> Results \cup {"none", "broken"}],
           \A n \in loop.wave : result'[n] = "COMPLETED" =>
              result[n] = "COMPLETED"
                 \/ (thread[n].pc = "done" /\ thread[n].out = "COMPLETED")
    PROVE  WaveInv'
<1> USE DEF WaveInv
<1>1. WaveTypeOK'
  BY DEF WaveTypeOK, StoreTypeOK
<1>2. Barrier'
  BY DEF Barrier, AtWork
<1>3. Counted'
  BY DEF Counted, AtWork, Exists
<1>4. Rooted'
  BY DEF Rooted, RowOf
<1>5. Reported'
  BY DEF Reported
<1> QED
  BY <1>1, <1>2, <1>3, <1>4, <1>5

(* One handler moves on within a wave, and writes its own row at most.     *)
LEMMA HandlerMoves ==
    ASSUME WaveInv, NEW n \in Nodes, AtWork(n), NEW x \in Threads,
           thread' = [thread EXCEPT ![n] = x],
           x.pc \in {"running", "done"}, x.order = thread[n].order,
           NEW row \in [node : Nodes \cup {NoNode},
                        status : StepStatuses \cup {"none"}],
           \/ UNCHANGED steps
           \/ /\ thread[n].order \in StepIds
              /\ ~Exists(thread[n].order) \/ RowOf(n)
              /\ row.node = n /\ row.status # "none"
              /\ steps' = [steps EXCEPT ![thread[n].order] = row],
           x.pc = "running" => RowOf(n)',
           x.pc = "done" /\ x.out = "COMPLETED" =>
              /\ RowOf(n)'
              /\ steps'[thread[n].order].status \in {"COMPLETED", "SKIPPED"},
           UNCHANGED <<exec, loop, cancel, result>>
    PROVE  WaveInv'
<1> USE DEF WaveInv
<1>1. n \in loop.wave /\ loop.pc \in {"single", "fan", "drain", "cut", "left"}
  BY DEF Barrier
<1>2. thread' \in [Nodes -> Threads] /\ thread'[n] = x
  BY DEF WaveTypeOK
<1>3. \A m \in Nodes \ {n} : thread'[m] = thread[m]
  BY DEF WaveTypeOK
<1>4. NoNode \notin Nodes
  BY StoreAssumption DEF StoreAssumption, Nodes
<1>5. steps' \in [StepIds -> [node : Nodes \cup {NoNode},
                              status : StepStatuses \cup {"none"}]]
  BY DEF WaveTypeOK, StoreTypeOK
<1>6. \A o \in StepIds :
         /\ steps'[o] = steps[o]
               \/ (o = thread[n].order /\ steps'[o] = row /\ row.node = n
                   /\ row.status # "none" /\ (~Exists(o) \/ RowOf(n)))
  BY DEF WaveTypeOK, StoreTypeOK
<1>7. \A o \in StepIds : steps[o].status = "none" <=> steps[o].node = NoNode
  BY DEF WaveTypeOK, StoreTypeOK
<1>8. WaveTypeOK'
  BY <1>2, <1>4, <1>5, <1>6, <1>7 DEF WaveTypeOK, StoreTypeOK, CancelTypeOK
<1>9. Barrier'
  BY <1>1, <1>2, <1>3 DEF Barrier, AtWork
<1>10. Counted'
  BY <1>2, <1>3, <1>6 DEF Counted, AtWork, Exists
<1>11. Rooted'
  <2> SUFFICES ASSUME NEW m \in Nodes
               PROVE  /\ thread'[m].pc = "running" => RowOf(m)'
                      /\ thread'[m].pc = "done" /\ thread'[m].out = "COMPLETED" =>
                            /\ RowOf(m)'
                            /\ steps'[thread'[m].order].status
                                  \in {"COMPLETED", "SKIPPED"}
    BY DEF Rooted
  <2>1. CASE m = n
    BY <1>2, <2>1
  <2>2. CASE m # n
    <3>1. thread'[m] = thread[m]
      BY <1>3, <2>2
    <3>2. RowOf(m) => steps'[thread[m].order] = steps[thread[m].order]
      BY <1>4, <1>6, <1>7, <2>2 DEF RowOf, Exists
    <3> QED
      BY <3>1, <3>2 DEF Rooted, RowOf
  <2> QED
    BY <2>1, <2>2
<1>12. Reported'
  BY <1>2, <1>3 DEF Reported, AtWork
<1> QED
  BY <1>8, <1>9, <1>10, <1>11, <1>12

(* A wave begins: each of its handlers has a step order of its own wave.   *)
LEMMA WaveBegins ==
    ASSUME WaveInv, loop.pc = "wave", NEW k \in Nat,
           loop.count + k <= MaxTransitions,
           loop' \in Loops, loop'.pc \in {"single", "fan"},
           loop'.wave = loop.wave,
           loop'.order = loop.order + k, loop'.count = loop.count + k,
           loop'.pc = "single" => \E n \in Nodes : loop.wave = {n},
           thread' \in [Nodes -> Threads],
           \A n \in Nodes :
              \/ thread'[n] = thread[n]
              \/ /\ n \in loop.wave
                 /\ thread'[n].pc = "ready"
                 /\ thread'[n].order <= loop.order + k,
           result' \in [Nodes -> Results \cup {"none", "broken"}],
           loop'.pc = "fan" => \A n \in Nodes : result'[n] = "none",
           UNCHANGED <<storeVars, cancel>>
    PROVE  WaveInv'
<1> USE DEF WaveInv
<1>0. loop.order \in Nat /\ loop.count \in Nat /\ loop.wave \subseteq Nodes
  BY DEF WaveTypeOK, Loops
<1>1. WaveTypeOK'
  BY DEF WaveTypeOK, StoreTypeOK, CancelTypeOK, storeVars
<1>2. \A n \in Nodes : ~AtWork(n)
  BY DEF Barrier
<1>3. Barrier'
  BY <1>2 DEF Barrier, AtWork
<1>4. Counted'
  <2>1. UNCHANGED steps
    BY DEF storeVars
  <2>2. \A o \in StepIds : o \in Nat
    BY StoreAssumption, FS_CardinalityType DEF StoreAssumption
  <2>3. \A n \in Nodes : AtWork(n)' => thread'[n].order <= loop'.order
    BY <1>2 DEF AtWork
  <2>4. \A o \in StepIds : Exists(o)' => o <= loop'.order
    BY <1>0, <2>1, <2>2 DEF Counted, Exists
  <2>5. loop'.order <= MaxTransitions /\ loop'.count = loop'.order
    BY <1>0 DEF Counted
  <2> QED
    BY <2>3, <2>4, <2>5 DEF Counted
<1>5. Rooted'
  BY DEF Rooted, RowOf, storeVars
<1>6. Reported'
  BY <1>0 DEF Reported
<1> QED
  BY <1>1, <1>3, <1>4, <1>5, <1>6
-----------------------------------------------------------------------------
(* Every element of a finite set has a place in it as a sequence.          *)
LEMMA PlaceOf ==
    ASSUME NEW S, IsFiniteSet(S), NEW x \in S
    PROVE  (CHOOSE i \in 1 .. Cardinality(S) : SetToSeq(S)[i] = x)
              \in 1 .. Cardinality(S)
<1> DEFINE k == Cardinality(S)
<1>1. k \in Nat /\ ExistsBijection(1 .. k, S)
  BY FS_CardinalityType
<1>2. \E f \in [1 .. k -> S] : IsInjective(f)
  BY <1>1 DEF ExistsBijection, Bijection, Injection
<1>3. SetToSeq(S) \in [1 .. k -> S] /\ IsInjective(SetToSeq(S))
  BY <1>2 DEF SetToSeq
<1>4. SetToSeq(S) \in Injection(1 .. k, S)
  BY <1>3 DEF Injection
<1>5. Cardinality(1 .. k) = k
  BY <1>1, FS_Interval
<1>6. SetToSeq(S) \in Surjection(1 .. k, S)
  BY <1>4, <1>5, FS_Injection
<1>7. \E i \in 1 .. k : SetToSeq(S)[i] = x
  BY <1>6 DEF Surjection
<1> QED
  BY <1>7

LEMMA WaveFinite ==
    ASSUME WaveInv
    PROVE  /\ loop.wave \in SUBSET Nodes /\ IsFiniteSet(loop.wave)
           /\ Cardinality(loop.wave) \in Nat
<1>1. loop.wave \in SUBSET Nodes
  BY DEF WaveInv, WaveTypeOK, Loops
<1>2. IsFiniteSet(Nodes)
  BY StoreAssumption DEF StoreAssumption, Nodes
<1> QED
  BY <1>1, <1>2, FS_Subset, FS_CardinalityType

LEMMA LoopKeeps ==
    ASSUME WaveInv, RunSync \/ WaveCancelled \/ FinalizeWave
    PROVE  WaveInv'
<1> USE DEF WaveInv
<1>0. /\ loop \in Loops /\ thread \in [Nodes -> Threads] /\ exec \in ExecStatuses
      /\ loop.final \in Results \cup {"none"}
      /\ {} \in SUBSET Nodes /\ EntrySteps(Workflow) \in SUBSET Nodes
  BY DEF WaveTypeOK, StoreTypeOK, Loops, EntrySteps, Nodes
<1>1. loop.pc \in {"idle", "wave", "end"} /\ \A n \in Nodes : ~AtWork(n)
  BY DEF RunSync, WaveCancelled, FinalizeWave, Barrier
<1>2. UNCHANGED <<thread, steps, cancel, result>>
  BY DEF RunSync, WaveCancelled, FinalizeWave, storeVars
<1>3. /\ loop' \in Loops /\ loop'.pc \in {"wave", "done", "end"}
      /\ loop'.pc = "end" => loop'.final \in Results
      /\ loop'.order = loop.order /\ loop'.count = loop.count
  <2>1. CASE RunSync \/ FinalizeWave
    BY <1>0, <2>1, LoopForms DEF RunSync, FinalizeWave
  <2>2. CASE WaveCancelled
    BY <1>0, <2>2, EndForms DEF WaveCancelled, Results
  <2> QED
    BY <2>1, <2>2
<1>4. exec' \in ExecStatuses
  <2>1. CASE RunSync \/ WaveCancelled
    BY <1>0, <2>1 DEF RunSync, WaveCancelled, storeVars, ExecStatuses
  <2>2. CASE FinalizeWave
    BY <1>0, <2>2 DEF FinalizeWave, Barrier, Results, ExecStatuses
  <2> QED
    BY <2>1, <2>2
<1>5. \A n \in Nodes : ~AtWork(n)'
  BY <1>1, <1>2 DEF AtWork
<1> QED
  BY <1>0, <1>2, <1>3, <1>4, <1>5, WaveOver

LEMMA SingleKeeps ==
    ASSUME WaveInv, BeginSingle
    PROVE  WaveInv'
<1> USE DEF WaveInv
<1>0. /\ loop \in Loops /\ loop.order \in Nat /\ loop.count \in Nat
      /\ thread \in [Nodes -> Threads] /\ loop.pc = "wave"
      /\ result \in [Nodes -> Results \cup {"none", "broken"}]
  BY DEF WaveTypeOK, Loops, BeginSingle
<1>1. PICK n \in loop.wave :
         \/ /\ loop.count < MaxTransitions
            /\ thread' = [thread EXCEPT
                  ![n] = [pc |-> "ready", order |-> loop.order + 1, out |-> "none"]]
            /\ loop' = [loop EXCEPT !.pc = "single", !.order = @ + 1, !.count = @ + 1]
         \/ /\ loop.count >= MaxTransitions
            /\ thread' = [thread EXCEPT
                  ![n] = [pc |-> "done", order |-> 0, out |-> "FAILED"]]
            /\ loop' = [loop EXCEPT !.pc = "single"]
  BY DEF BeginSingle
<1>2. n \in Nodes /\ loop.wave = {n}
  <2>1. Cardinality(loop.wave) = 1
    BY DEF BeginSingle
  <2>2. \E x : loop.wave = {x}
    BY <2>1, WaveFinite, FS_Singleton
  <2> QED
    BY <1>1, <2>2, WaveFinite
<1>3. UNCHANGED <<storeVars, cancel, result>>
  BY DEF BeginSingle
<1>4. CASE loop.count < MaxTransitions
  <2>1. loop' \in Loops /\ loop'.pc = "single" /\ loop'.wave = loop.wave
        /\ loop'.order = loop.order + 1 /\ loop'.count = loop.count + 1
    <3>1. loop' = [loop EXCEPT !.pc = "single", !.order = @ + 1, !.count = @ + 1]
      BY <1>0, <1>1, <1>4, WaveAssumption
    <3> QED
      BY <1>0, <3>1, CountForms
  <2>2. PICK x \in Threads : /\ thread' = [thread EXCEPT ![n] = x]
                           /\ x.pc = "ready" /\ x.order = loop.order + 1
    <3>1. [pc |-> "ready", order |-> loop.order + 1, out |-> "none"] \in Threads
      BY <1>0 DEF Threads
    <3> QED
      BY <1>0, <1>1, <1>4, <3>1, WaveAssumption
  <2>3. thread' \in [Nodes -> Threads] /\ thread'[n] = x
        /\ \A m \in Nodes \ {n} : thread'[m] = thread[m]
    BY <1>0, <1>2, <2>2
  <2>4. 1 \in Nat /\ loop.count + 1 <= MaxTransitions
    BY <1>0, <1>4, WaveAssumption
  <2>5. \A m \in Nodes :
           \/ thread'[m] = thread[m]
           \/ /\ m \in loop.wave
              /\ thread'[m].pc = "ready"
              /\ thread'[m].order <= loop.order + 1
    BY <1>0, <1>2, <2>2, <2>3
  <2>6. result' \in [Nodes -> Results \cup {"none", "broken"}]
    BY <1>0, <1>3
  <2> QED
    BY <1>0, <1>2, <1>3, <2>1, <2>3, <2>4, <2>5, <2>6, WaveBegins
<1>5. CASE ~(loop.count < MaxTransitions)
  <2>0. loop.count <= MaxTransitions /\ loop.order <= MaxTransitions
    BY <1>0 DEF Counted
  <2>1. loop' \in Loops /\ loop'.pc = "single" /\ loop'.wave = loop.wave
        /\ loop'.order = loop.order /\ loop'.count = loop.count
    BY <1>0, <1>1, <1>5, WaveAssumption DEF Loops
  <2>2. thread' \in [Nodes -> Threads] /\ thread'[n].pc = "done"
        /\ thread'[n].out = "FAILED"
        /\ \A m \in Nodes \ {n} : thread'[m] = thread[m]
    <3>1. [pc |-> "done", order |-> 0, out |-> "FAILED"] \in Threads
      BY DEF Threads, Results
    <3>2. thread' = [thread EXCEPT
             ![n] = [pc |-> "done", order |-> 0, out |-> "FAILED"]]
      BY <1>0, <1>1, <1>5, WaveAssumption
    <3> QED
      BY <1>0, <1>2, <3>1, <3>2
  <2>3. \A m \in Nodes : ~AtWork(m) /\ ~AtWork(m)'
    BY <1>0, <2>2 DEF Barrier, AtWork
  <2>4. WaveTypeOK'
    BY <1>0, <1>3, <2>1, <2>2
       DEF WaveTypeOK, StoreTypeOK, CancelTypeOK, storeVars
  <2>5. Barrier'
    BY <1>2, <2>1, <2>3 DEF Barrier
  <2>6. Counted'
    BY <1>3, <2>1, <2>3 DEF Counted, Exists, storeVars
  <2>7. Rooted'
    BY <1>3, <2>2 DEF Rooted, RowOf, storeVars
  <2>8. Reported'
    BY <2>1 DEF Reported
  <2> QED
    BY <2>4, <2>5, <2>6, <2>7, <2>8
<1> QED
  BY <1>4, <1>5

LEMMA FanOutKeeps ==
    ASSUME WaveInv, BeginFanOut
    PROVE  WaveInv'
<1> USE DEF WaveInv
<1> DEFINE k == Cardinality(loop.wave)
<1>0. /\ loop \in Loops /\ loop.order \in Nat /\ loop.count \in Nat
      /\ thread \in [Nodes -> Threads] /\ loop.pc = "wave"
      /\ exec \in ExecStatuses
  BY DEF WaveTypeOK, StoreTypeOK, Loops, BeginFanOut
<1>1. UNCHANGED <<storeVars, cancel>>
  BY DEF BeginFanOut
<1>2. CASE loop.count + k <= MaxTransitions /\ Submit
  <2>1. k \in Nat /\ IsFiniteSet(loop.wave)
    BY WaveFinite
  <2> DEFINE place(n) == CHOOSE i \in 1 .. k : SetToSeq(loop.wave)[i] = n
  <2>2. \A n \in loop.wave : place(n) \in 1 .. k
    BY <2>1, PlaceOf
  <2>3. thread' = [n \in Nodes |->
           IF n \in loop.wave
           THEN [pc |-> "ready", out |-> "none", order |-> loop.order + place(n)]
           ELSE thread[n]]
    BY <1>2 DEF Submit
  <2>4. loop' = [loop EXCEPT !.pc = "fan", !.order = @ + k, !.count = @ + k]
    BY <1>2 DEF Submit
  <2>5. result' = [n \in Nodes |-> "none"]
    BY <1>2 DEF Submit
  <2> HIDE DEF k, place
  <2>6. loop' \in Loops /\ loop'.pc = "fan" /\ loop'.wave = loop.wave
        /\ loop'.order = loop.order + k /\ loop'.count = loop.count + k
    BY <1>0, <2>1, <2>4, CountForms
  <2>7. ASSUME NEW n \in loop.wave
        PROVE  /\ [pc |-> "ready", out |-> "none", order |-> loop.order + place(n)]
                     \in Threads
               /\ loop.order + place(n) <= loop.order + k
    BY <1>0, <2>1, <2>2 DEF Threads
  <2>8. /\ thread' \in [Nodes -> Threads]
        /\ \A n \in Nodes :
              \/ thread'[n] = thread[n]
              \/ /\ n \in loop.wave
                 /\ thread'[n].pc = "ready"
                 /\ thread'[n].order <= loop.order + k
    BY <1>0, <2>3, <2>7
  <2> QED
    BY <1>0, <1>1, <1>2, <2>1, <2>5, <2>6, <2>8, WaveBegins
<1>3. CASE EndWith("FAILED") /\ UNCHANGED <<thread, result>>
  <2>1. /\ loop' \in Loops /\ loop'.pc = "end" /\ loop'.final \in Results
        /\ loop'.order = loop.order /\ loop'.count = loop.count
    BY <1>0, <1>3, EndForms DEF Results
  <2>2. \A n \in Nodes : ~AtWork(n)'
    BY <1>0, <1>3 DEF Barrier, AtWork
  <2>3. UNCHANGED <<steps, cancel, result>> /\ exec' \in ExecStatuses
    BY <1>0, <1>1, <1>3 DEF storeVars
  <2> QED
    BY <1>0, <1>3, <2>1, <2>2, <2>3, WaveOver
<1> QED
  BY <1>2, <1>3 DEF BeginFanOut
-----------------------------------------------------------------------------
(* The handlers. *)

LEMMA HandlerKeeps ==
    ASSUME WaveInv, NEW n \in Nodes, WaveStep(n)
    PROVE  WaveInv'
<1> USE DEF WaveInv
<1>0. /\ thread \in [Nodes -> Threads] /\ n \in Nodes
      /\ steps \in [StepIds -> [node : Nodes \cup {NoNode},
                                status : StepStatuses \cup {"none"}]]
  BY DEF WaveTypeOK, StoreTypeOK
<1>1. ASSUME NEW status \in {"SKIPPED", "RUNNING"}, StepCreated(n, status),
             NEW x \in Threads, x.order = thread[n].order,
             thread' = [thread EXCEPT ![n] = x],
             \/ x.pc = "running"
             \/ x.pc = "done" /\ status = "SKIPPED"
      PROVE  WaveInv'
  <2> DEFINE row == [node |-> n, status |-> status]
  <2>1. row \in [node : Nodes \cup {NoNode}, status : StepStatuses \cup {"none"}]
    BY DEF StepStatuses
  <2>2. row.node = n /\ row.status = status /\ row.status # "none"
    OBVIOUS
  <2>3. /\ AtWork(n) /\ thread[n].order \in StepIds /\ ~Exists(thread[n].order)
        /\ steps' = [steps EXCEPT ![thread[n].order] = row]
        /\ UNCHANGED <<exec, loop, cancel, result>>
    BY <1>1 DEF StepCreated, AtWork
  <2> HIDE DEF row
  <2>4. RowOf(n)' /\ steps'[thread[n].order].status = status
    BY <1>0, <1>1, <2>2, <2>3 DEF RowOf
  <2> QED
    BY <1>1, <2>1, <2>2, <2>3, <2>4, HandlerMoves
<1>2. ASSUME NEW status \in {"COMPLETED", "FAILED", "WAITING"},
             NEW outcome \in Results, Ended(n, status, outcome),
             outcome = "COMPLETED" => status = "COMPLETED"
      PROVE  WaveInv'
  <2>1. PICK x \in Threads :
           /\ thread' = [thread EXCEPT ![n] = x]
           /\ x.pc = "done" /\ x.out = outcome /\ x.order = thread[n].order
    <3>1. [thread[n] EXCEPT !.pc = "done", !.out = outcome] \in Threads
      BY <1>0 DEF Threads
    <3>2. thread' = [thread EXCEPT ![n] = [thread[n] EXCEPT !.pc = "done",
                                                          !.out = outcome]]
      BY <1>2 DEF Ended
    <3> QED
      BY <1>0, <3>1, <3>2 DEF Threads
  <2>2. AtWork(n) /\ RowOf(n) /\ UNCHANGED <<exec, loop, cancel, result>>
    BY <1>2 DEF Ended, AtWork, Rooted
  <2>3. PICK row \in [node : Nodes \cup {NoNode},
  status : StepStatuses \cup {"none"}] :
           /\ row.node = n /\ row.status = status
           /\ steps' = [steps EXCEPT ![thread[n].order] = row]
    <3>1. /\ steps[thread[n].order] \in [node : Nodes \cup {NoNode},
                                         status : StepStatuses \cup {"none"}]
          /\ steps[thread[n].order].node = n
      BY <1>0, <2>2 DEF RowOf
    <3>2. steps' = [steps EXCEPT
             ![thread[n].order] = [steps[thread[n].order] EXCEPT !.status = status]]
      BY <1>2 DEF Ended, SetStep
    <3> QED
      BY <3>1, <3>2 DEF StepStatuses
  <2>4. RowOf(n)' /\ steps'[thread[n].order].status = status
    BY <1>0, <2>1, <2>2, <2>3 DEF RowOf
  <2>5. thread[n].order \in StepIds /\ row.status # "none"
    BY <2>2, <2>3 DEF RowOf
  <2> QED
    BY <1>2, <2>1, <2>2, <2>3, <2>4, <2>5, HandlerMoves
<1>3. CASE SkipWaveStep(n)
  <2>1. PICK x \in Threads : /\ thread' = [thread EXCEPT ![n] = x]
                             /\ x.pc = "done" /\ x.order = thread[n].order
    <3>1. [thread[n] EXCEPT !.pc = "done", !.out = "COMPLETED"] \in Threads
      BY <1>0 DEF Threads, Results
    <3>2. thread' = [thread EXCEPT ![n] = [thread[n] EXCEPT !.pc = "done",
                                                          !.out = "COMPLETED"]]
      BY <1>3 DEF SkipWaveStep
    <3> QED
      BY <1>0, <3>1, <3>2 DEF Threads
  <2> QED
    BY <1>1, <1>3, <2>1 DEF SkipWaveStep
<1>4. CASE StartWaveStep(n)
  <2>1. PICK x \in Threads : /\ thread' = [thread EXCEPT ![n] = x]
                             /\ x.pc = "running" /\ x.order = thread[n].order
    <3>1. [thread[n] EXCEPT !.pc = "running"] \in Threads
      BY <1>0 DEF Threads
    <3>2. thread' = [thread EXCEPT ![n] = [thread[n] EXCEPT !.pc = "running"]]
      BY <1>4 DEF StartWaveStep
    <3> QED
      BY <1>0, <3>1, <3>2 DEF Threads
  <2> QED
    BY <1>1, <1>4, <2>1 DEF StartWaveStep
<1>5. CASE FinishWaveStep(n)
  BY <1>2, <1>5 DEF FinishWaveStep, Results
<1>6. CASE GateWaveStep(n)
  BY <1>2, <1>6 DEF GateWaveStep, Results
<1> QED
  BY <1>3, <1>4, <1>5, <1>6 DEF WaveStep

(* A handler that breaks leaves its row; in the loop it ends the loop too. *)
LEMMA BrokenKeeps ==
    ASSUME WaveInv, NEW n \in Nodes, BreakWaveStep(n)
    PROVE  WaveInv'
<1> USE DEF WaveInv
<1>0. /\ thread \in [Nodes -> Threads] /\ loop \in Loops
      /\ steps \in [StepIds -> [node : Nodes \cup {NoNode},
                                status : StepStatuses \cup {"none"}]]
  BY DEF WaveTypeOK, StoreTypeOK
<1>1. PICK x \in Threads :
         /\ thread' = [thread EXCEPT ![n] = x]
         /\ x.pc = "done" /\ x.out = "broken" /\ x.order = thread[n].order
  <2>1. [thread[n] EXCEPT !.pc = "done", !.out = "broken"] \in Threads
    BY <1>0 DEF Threads
  <2>2. thread' = [thread EXCEPT ![n] = [thread[n] EXCEPT !.pc = "done",
                                                        !.out = "broken"]]
    BY DEF BreakWaveStep
  <2> QED
    BY <1>0, <2>1, <2>2 DEF Threads
<1>2. AtWork(n) /\ UNCHANGED <<steps, cancel, result>>
  BY DEF BreakWaveStep, AtWork
<1>3. CASE loop.pc = "single"
  <2>1. /\ exec' \in ExecStatuses
        /\ loop' \in Loops /\ loop'.pc = "done"
        /\ loop'.order = loop.order /\ loop'.count = loop.count
    <3>1. exec' = "FAILED" /\ loop' = LoopAt("done", {}) /\ {} \in SUBSET Nodes
      BY <1>3 DEF BreakWaveStep
    <3> QED
      BY <1>0, <3>1, LoopForms DEF ExecStatuses
  <2>2. loop.wave = {n}
    BY <1>2, <1>3 DEF Barrier
  <2>3. \A m \in Nodes \ {n} : ~AtWork(m) /\ thread'[m] = thread[m]
    BY <1>0, <1>1, <2>2 DEF Barrier
  <2>4. thread' \in [Nodes -> Threads] /\ thread'[n] = x
    BY <1>0, <1>1
  <2>5. \A m \in Nodes :
           /\ ~AtWork(m)'
           /\ thread'[m].pc = "done" /\ thread'[m].out = "COMPLETED" =>
                 thread'[m] = thread[m]
    BY <1>1, <2>3, <2>4 DEF AtWork
  <2> QED
    BY <1>2, <2>1, <2>4, <2>5, WaveOver
<1>4. CASE loop.pc # "single"
  <2>1. UNCHANGED <<exec, loop>>
    BY <1>4 DEF BreakWaveStep
  <2>2. PICK row \in [node : Nodes \cup {NoNode},
  status : StepStatuses \cup {"none"}] :
           TRUE
    <3>1. [node |-> NoNode, status |-> "none"]
             \in [node : Nodes \cup {NoNode}, status : StepStatuses \cup {"none"}]
      OBVIOUS
    <3> QED
      BY <3>1
  <2> QED
    BY <1>1, <1>2, <2>1, <2>2, HandlerMoves
<1> QED
  BY <1>3, <1>4 DEF BreakWaveStep
-----------------------------------------------------------------------------
(* The end of a wave. *)

LEMMA EndSingleKeeps ==
    ASSUME WaveInv, EndSingle
    PROVE  WaveInv'
<1> USE DEF WaveInv
<1>0. /\ thread \in [Nodes -> Threads] /\ loop \in Loops /\ exec \in ExecStatuses
      /\ {} \in SUBSET Nodes
  BY DEF WaveTypeOK, StoreTypeOK
<1>1. PICK n \in loop.wave :
         LET out  == thread[n].out
             next == ToSet(NextStepIds(Workflow, n, out))
         IN  /\ loop.pc = "single"
             /\ \/ out = "RUNNING" /\ loop' = LoopAt("paused", {})
                \/ out = "CANCELLED" /\ EndWith("CANCELLED")
                \/ out = "FAILED" /\ next = {} /\ EndWith("FAILED")
                \/ out = "FAILED" /\ next # {} /\ GoOn(next)
                \/ out \in {"COMPLETED", "INTEGRATION_ERROR"} /\ GoOn(next)
             /\ thread' = [thread EXCEPT ![n] = NoThread]
             /\ UNCHANGED <<storeVars, queueVars, cancel, result>>
  BY DEF EndSingle
<1> DEFINE next == ToSet(NextStepIds(Workflow, n, thread[n].out))
<1>2. n \in Nodes /\ loop.wave = {n}
  BY <1>1 DEF Barrier
<1>3. next \in SUBSET Nodes
  BY <1>2, NextWave
<1>4. \/ loop' = LoopAt("paused", {})
      \/ EndWith("CANCELLED") \/ EndWith("FAILED") \/ GoOn(next)
  BY <1>1
<1> HIDE DEF next
<1>5. /\ loop' \in Loops /\ loop'.pc \in {"wave", "paused", "end"}
      /\ loop'.pc = "end" => loop'.final \in Results
      /\ loop'.order = loop.order /\ loop'.count = loop.count
  <2>1. CASE loop' = LoopAt("paused", {})
    BY <1>0, <2>1, LoopForms
  <2>2. CASE EndWith("CANCELLED") \/ EndWith("FAILED")
    BY <1>0, <2>2, EndForms DEF Results
  <2>3. CASE GoOn(next)
    BY <1>0, <1>3, <2>3, GoOnForms
  <2> QED
    BY <1>4, <2>1, <2>2, <2>3
<1>6. NoThread \in Threads /\ NoThread.pc = "off"
  BY DEF NoThread, Threads
<1>7. /\ thread' \in [Nodes -> Threads] /\ thread'[n].pc = "off"
      /\ \A m \in Nodes \ {n} : thread'[m] = thread[m]
  BY <1>0, <1>1, <1>2, <1>6
<1>8. \A m \in Nodes :
         /\ ~AtWork(m)'
         /\ thread'[m].pc = "done" /\ thread'[m].out = "COMPLETED" =>
               thread'[m] = thread[m]
  BY <1>2, <1>7 DEF AtWork, Barrier
<1>9. UNCHANGED <<steps, cancel, result>> /\ exec' \in ExecStatuses
  BY <1>0, <1>1 DEF storeVars
<1> QED
  BY <1>5, <1>7, <1>8, <1>9, WaveOver

(* What a join lets through are steps of the workflow.                     *)
LEMMA JoinedType ==
    ASSUME NEW wave \in SUBSET Nodes
    PROVE  ApplyJoinPolicy(Workflow, wave, [n \in wave |-> Known(n)]) \in SUBSET Nodes
<1>1. \A n \in wave : ToSet(Known(n).next) \subseteq Nodes
  <2> SUFFICES ASSUME NEW n \in wave PROVE ToSet(Known(n).next) \subseteq Nodes
    OBVIOUS
  <2>1. CASE result[n] \in Results
    BY <2>1, NextWave DEF Known
  <2>2. CASE result[n] \notin Results
    <3>1. ToSet(<< >>) = {}
      BY DEF ToSet
    <3> QED
      BY <2>2, <3>1 DEF Known
  <2> QED
    BY <2>1, <2>2
<1> QED
  BY <1>1 DEF ApplyJoinPolicy

LEMMA EndFanOutKeeps ==
    ASSUME WaveInv, EndFanOut
    PROVE  WaveInv'
<1> USE DEF WaveInv
<1> DEFINE next == ApplyJoinPolicy(Workflow, loop.wave, [n \in loop.wave |-> Known(n)])
<1>0. /\ thread \in [Nodes -> Threads] /\ loop \in Loops /\ exec \in ExecStatuses
  BY DEF WaveTypeOK, StoreTypeOK
<1>1. next \in SUBSET Nodes
  BY WaveFinite, JoinedType
<1>2. EndWith("CANCELLED") \/ EndWith("FAILED") \/ GoOn(next)
  BY DEF EndFanOut, Conclude
<1> HIDE DEF next
<1>3. /\ loop' \in Loops /\ loop'.pc \in {"wave", "end"}
      /\ loop'.pc = "end" => loop'.final \in Results
      /\ loop'.order = loop.order /\ loop'.count = loop.count
  <2>1. CASE EndWith("CANCELLED") \/ EndWith("FAILED")
    BY <1>0, <2>1, EndForms DEF Results
  <2>2. CASE GoOn(next)
    BY <1>0, <1>1, <2>2, GoOnForms
  <2> QED
    BY <1>2, <2>1, <2>2
<1>4. NoThread \in Threads /\ NoThread.pc = "off"
  BY DEF NoThread, Threads
<1>5. thread' = [n \in Nodes |-> IF n \in loop.wave THEN NoThread ELSE thread[n]]
  BY DEF EndFanOut
<1>6. thread' \in [Nodes -> Threads]
  BY <1>0, <1>4, <1>5
<1>7. \A n \in Nodes :
         /\ ~AtWork(n)'
         /\ thread'[n].pc = "done" /\ thread'[n].out = "COMPLETED" =>
               thread'[n] = thread[n]
  BY <1>4, <1>5 DEF AtWork, Barrier
<1>8. UNCHANGED <<steps, cancel, result>> /\ exec' \in ExecStatuses
  BY <1>0 DEF EndFanOut, storeVars
<1> QED
  BY <1>3, <1>6, <1>7, <1>8, WaveOver

(* The wave of a fan-out that is cut off is over.                          *)
LEMMA CutOffKeeps ==
    ASSUME WaveInv, CutOff
    PROVE  WaveInv'
<1> USE DEF WaveInv
<1>0. /\ thread \in [Nodes -> Threads] /\ loop \in Loops /\ {} \in SUBSET Nodes
      /\ "FAILED" \in ExecStatuses
  BY DEF WaveTypeOK, ExecStatuses
<1>1. /\ loop' \in Loops /\ loop'.pc = "done"
      /\ loop'.order = loop.order /\ loop'.count = loop.count
  BY <1>0, LoopForms DEF CutOff
<1>2. NoThread \in Threads /\ NoThread.pc = "off"
  BY DEF NoThread, Threads
<1>3. thread' = [n \in Nodes |-> IF n \in loop.wave THEN NoThread ELSE thread[n]]
  BY DEF CutOff
<1>4. thread' \in [Nodes -> Threads]
  BY <1>0, <1>2, <1>3
<1>5. \A n \in Nodes :
         /\ ~AtWork(n)'
         /\ thread'[n].pc = "done" /\ thread'[n].out = "COMPLETED" =>
               thread'[n] = thread[n]
  BY <1>2, <1>3 DEF AtWork, Barrier
<1>6. UNCHANGED <<steps, cancel, result>> /\ exec' \in ExecStatuses
  BY <1>0 DEF CutOff
<1> QED
  BY <1>1, <1>4, <1>5, <1>6, WaveOver

(* The time limit takes no handler with it.                                *)
LEMMA LimitKeeps ==
    ASSUME WaveInv, TimeLimit
    PROVE  WaveInv'
<1> USE DEF WaveInv
<1>0. /\ loop \in Loops /\ loop.wave \in SUBSET Nodes /\ {} \in SUBSET Nodes
      /\ result \in [Nodes -> Results \cup {"none", "broken"}]
      /\ exec \in ExecStatuses
  BY WaveFinite DEF WaveTypeOK, StoreTypeOK
<1>1. loop.pc \in {"wave", "fan", "drain", "end"} /\ UNCHANGED <<steps, cancel, thread>>
  BY DEF TimeLimit
<1>2. /\ result' \in [Nodes -> Results \cup {"none", "broken"}]
      /\ \A n \in Nodes : result'[n] = "COMPLETED" => result[n] = "COMPLETED"
  BY <1>0 DEF TimeLimit
<1>3. exec' \in ExecStatuses
  BY <1>0 DEF TimeLimit, ExecStatuses
<1>4. \/ UNCHANGED loop
      \/ /\ loop.pc \in {"fan", "drain"} /\ loop'.wave = loop.wave
         /\ loop'.pc \in {"cut", "left"}
         /\ loop' \in Loops /\ loop'.order = loop.order /\ loop'.count = loop.count
      \/ /\ loop.pc \in {"wave", "end"} /\ loop'.pc = "done"
         /\ loop' \in Loops /\ loop'.order = loop.order /\ loop'.count = loop.count
  BY <1>0, LoopForms DEF TimeLimit
<1>5. WaveTypeOK'
  BY <1>1, <1>2, <1>3, <1>4 DEF WaveTypeOK, StoreTypeOK, CancelTypeOK
<1>6. Barrier'
  BY <1>1, <1>4 DEF Barrier, AtWork
<1>7. Counted'
  BY <1>1, <1>4 DEF Counted, AtWork, Exists
<1>8. Rooted'
  BY <1>1 DEF Rooted, RowOf
<1>9. Reported'
  BY <1>0, <1>1, <1>2, <1>4 DEF Reported
<1> QED
  BY <1>5, <1>6, <1>7, <1>8, <1>9

LEMMA CollectKeeps ==
    ASSUME WaveInv, NEW n \in Nodes, Collect(n)
    PROVE  WaveInv'
<1> USE DEF WaveInv
<1>1. /\ thread[n].out \in Results \cup {"none", "broken"}
      /\ result \in [Nodes -> Results \cup {"none", "broken"}]
  BY DEF WaveTypeOK, Threads
<1>2. /\ thread[n].pc = "done" /\ result' = [result EXCEPT ![n] = thread[n].out]
      /\ UNCHANGED <<storeVars, cancel, loop, thread>>
  BY DEF Collect
<1>3. result' \in [Nodes -> Results \cup {"none", "broken"}]
  BY <1>1, <1>2
<1>4. \A m \in loop.wave : result'[m] = "COMPLETED" =>
         result[m] = "COMPLETED"
            \/ (thread[m].pc = "done" /\ thread[m].out = "COMPLETED")
  BY <1>1, <1>2, WaveFinite
<1>5. /\ exec' \in ExecStatuses /\ CancelTypeOK' /\ UNCHANGED <<loop, thread, steps>>
      /\ steps \in [StepIds -> [node : Nodes \cup {NoNode},
                                status : StepStatuses \cup {"none"}]]
  BY <1>2 DEF WaveTypeOK, StoreTypeOK, CancelTypeOK, storeVars
<1> QED
  BY <1>3, <1>4, <1>5, HandlersStay

LEMMA TimeoutKeeps ==
    ASSUME WaveInv, WaveTimeout
    PROVE  WaveInv'
<1> USE DEF WaveInv
<1>0. loop \in Loops /\ loop.pc = "fan" /\ loop.wave \in SUBSET Nodes
      /\ result \in [Nodes -> Results \cup {"none", "broken"}]
  BY WaveFinite DEF WaveTypeOK, WaveTimeout
<1>1. /\ loop' \in Loops /\ loop'.pc = "drain" /\ loop'.wave = loop.wave
      /\ loop'.order = loop.order /\ loop'.count = loop.count
  BY <1>0, LoopForms DEF WaveTimeout
<1>2. UNCHANGED <<storeVars, cancel, thread>>
  BY DEF WaveTimeout
<1>3. /\ result' \in [Nodes -> Results \cup {"none", "broken"}]
      /\ \A n \in Nodes : result'[n] = "COMPLETED" => result[n] = "COMPLETED"
  BY <1>0 DEF WaveTimeout
<1>4. WaveTypeOK'
  BY <1>1, <1>2, <1>3 DEF WaveTypeOK, StoreTypeOK, CancelTypeOK, storeVars
<1>5. Barrier'
  BY <1>0, <1>1, <1>2 DEF Barrier, AtWork
<1>6. Counted'
  BY <1>1, <1>2 DEF Counted, AtWork, Exists, storeVars
<1>7. Rooted'
  BY <1>2 DEF Rooted, RowOf, storeVars
<1>8. Reported'
  BY <1>0, <1>1, <1>2, <1>3 DEF Reported
<1> QED
  BY <1>4, <1>5, <1>6, <1>7, <1>8

LEMMA CancelKeeps ==
    ASSUME WaveInv, Cancel, UNCHANGED waveVars
    PROVE  WaveInv'
<1> USE DEF WaveInv
<1>0. /\ exec \in ExecStatuses
      /\ steps \in [StepIds -> [node : Nodes \cup {NoNode},
                                status : StepStatuses \cup {"none"}]]
      /\ result \in [Nodes -> Results \cup {"none", "broken"}]
  BY DEF WaveTypeOK, StoreTypeOK
<1>1. UNCHANGED <<loop, thread, result>>
  BY DEF waveVars
<1>2. exec' \in ExecStatuses /\ CancelTypeOK'
  BY <1>0 DEF Cancel, CancelRequest, CancelSteps, CancelRows, CancelTypeOK,
          ExecStatuses, storeVars
<1>3. steps' = steps \/ steps' = CancelledSteps
  BY DEF Cancel, CancelRequest, CancelSteps, CancelRows, storeVars
<1>4. ASSUME NEW o \in StepIds
      PROVE  /\ steps'[o] \in [node : Nodes \cup {NoNode},
                               status : StepStatuses \cup {"none"}]
             /\ steps'[o].node = steps[o].node
             /\ steps'[o].status = "none" <=> steps[o].status = "none"
             /\ steps[o].status \in {"COMPLETED", "SKIPPED"} =>
                   steps'[o].status = steps[o].status
  <2>1. steps[o] \in [node : Nodes \cup {NoNode}, status : StepStatuses \cup {"none"}]
    BY <1>0
  <2>2. \/ steps'[o] = steps[o]
        \/ /\ steps[o].status \in {"PENDING", "RUNNING", "WAITING"}
           /\ steps'[o] = [steps[o] EXCEPT !.status = "FAILED"]
    BY <1>3 DEF CancelledSteps
  <2> QED
    BY <2>1, <2>2 DEF StepStatuses
<1>5. steps' \in [StepIds -> [node : Nodes \cup {NoNode},
                              status : StepStatuses \cup {"none"}]]
  <2>1. steps' = [o \in StepIds |-> steps'[o]]
    BY <1>0, <1>3 DEF CancelledSteps
  <2> QED
    BY <1>4, <2>1
<1> QED
  BY <1>0, <1>1, <1>2, <1>4, <1>5, HandlersStay

LEMMA NextKeeps ==
    ASSUME WaveInv, [Next]_vars
    PROVE  WaveInv'
<1>1. CASE Loop
  BY <1>1, LoopKeeps, SingleKeeps, FanOutKeeps, EndSingleKeeps, EndFanOutKeeps,
     CutOffKeeps DEF Loop
<1>2. CASE WaveTimeout \/ TimeLimit
  BY <1>2, TimeoutKeeps, LimitKeeps
<1>3. CASE \E n \in Nodes : WaveStep(n) \/ BreakWaveStep(n) \/ Collect(n)
  BY <1>3, HandlerKeeps, BrokenKeeps, CollectKeeps
<1>4. CASE Cancel /\ UNCHANGED waveVars
  BY <1>4, CancelKeeps
<1>5. CASE UNCHANGED vars
  BY <1>5 DEF vars, storeVars, waveVars, WaveInv, WaveTypeOK, StoreTypeOK,
          CancelTypeOK, Barrier, Counted, Rooted, Reported, AtWork, RowOf,
          Exists
<1> QED
  BY <1>1, <1>2, <1>3, <1>4, <1>5 DEF Next
-----------------------------------------------------------------------------
(* The inductive invariant holds for every workflow, limit and fault.      *)
THEOREM WaveInvariant == Spec => []WaveInv
  BY InitHolds, NextKeeps, PTL DEF Spec

(* The types of the rows, the loop, its threads and its results.           *)
THEOREM WaveTypeCorrect == Spec => []WaveTypeOK
  BY WaveInvariant, PTL DEF WaveInv

(* No handler outlives its wave, whichever way the wave ended, the time    *)
(* limit that strikes the wait after a wave timeout excepted.              *)
THEOREM WavesDoNotOverlap == Spec => []NoHandlerLeft
<1>1. WaveInv => NoHandlerLeft
  BY DEF WaveInv, Barrier, AtWork, NoHandlerLeft
<1> QED
  BY <1>1, WaveInvariant, PTL

(* No step order exceeds MAX_STEP_TRANSITIONS, also in a cycle.            *)
THEOREM StepsAreLimited == Spec => []StepsLimited
<1>1. WaveInv => StepsLimited
  <2> SUFFICES ASSUME WaveInv PROVE MaxOrder <= MaxTransitions
    BY DEF StepsLimited
  <2>1. loop.order \in Nat /\ loop.order <= MaxTransitions
    BY DEF WaveInv, WaveTypeOK, Loops, Counted
  <2>2. MaxOrder = 0 \/ (MaxOrder \in StepIds /\ Exists(MaxOrder))
    BY MaxOrderBound
  <2>3. MaxOrder \in Nat
    BY MaxOrderBound
  <2> QED
    BY <2>1, <2>2, <2>3, WaveAssumption DEF WaveInv, Counted
<1> QED
  BY <1>1, WaveInvariant, PTL
-----------------------------------------------------------------------------
(* The predecessors of t in the wave that ends.                            *)
Preds(t) == {n \in loop.wave : t \in Targets(Workflow, n)}

Succeeded(n) == steps[thread[n].order].status \in {"COMPLETED", "SKIPPED"}

JoinStep ==
    \A t \in loop'.wave \ loop.wave :
        Cardinality(Preds(t)) > 1 /\ Workflow[t].join = "all_success"
        => \A n \in Preds(t) : Succeeded(n)

(* A wave of fewer than two steps has no join.                             *)
LEMMA SmallWave ==
    ASSUME WaveInv, loop.wave = {} \/ \E n \in Nodes : loop.wave = {n}, NEW t
    PROVE  ~ (Cardinality(Preds(t)) > 1)
<1>1. Preds(t) = {} \/ \E n \in Nodes : Preds(t) = {n}
  BY DEF Preds
<1>2. Cardinality({}) = 0 /\ \A n : Cardinality({n}) = 1
  BY FS_EmptySet, FS_Singleton
<1> QED
  BY <1>1, <1>2

(* all_success lets a target through only if the loop takes all of its     *)
(* predecessors for COMPLETED.                                             *)
LEMMA FanOutJoins ==
    ASSUME WaveInv, EndFanOut
    PROVE  JoinStep
<1> USE DEF WaveInv
<1> DEFINE results == [n \in loop.wave |-> Known(n)]
<1> DEFINE next == ApplyJoinPolicy(Workflow, loop.wave, results)
<1>0. loop \in Loops /\ next \in SUBSET Nodes /\ loop.pc \in {"fan", "drain"}
  BY WaveFinite, JoinedType DEF WaveTypeOK, EndFanOut, Conclude
<1>1. EndWith("CANCELLED") \/ EndWith("FAILED") \/ GoOn(next)
  BY DEF EndFanOut, Conclude
<1>2. \A t \in loop'.wave : t \in next
  <2> HIDE DEF next
  <2>1. CASE EndWith("CANCELLED") \/ EndWith("FAILED")
    BY <1>0, <2>1, EndForms DEF Results
  <2>2. CASE GoOn(next)
    BY <1>0, <2>2, GoOnForms
  <2> QED
    BY <1>1, <2>1, <2>2
<1> SUFFICES ASSUME NEW t \in next, Cardinality(Preds(t)) > 1,
                    Workflow[t].join = "all_success", NEW n \in Preds(t)
             PROVE  Succeeded(n)
  BY <1>2 DEF JoinStep
<1>3. JoinAdmits(Workflow[t].join, {results[m].status : m \in Preds(t)})
  <2>1. Cardinality(Preds(t)) \in Nat
    BY WaveFinite, FS_Subset, FS_CardinalityType DEF Preds
  <2> QED
    BY <2>1 DEF ApplyJoinPolicy, Preds
<1>4. results[n].status = "COMPLETED"
  BY <1>3 DEF JoinAdmits
<1>5. n \in loop.wave /\ n \in Nodes
  BY WaveFinite DEF Preds
<1>6. result[n] = "COMPLETED"
  BY <1>4, <1>5 DEF Known
<1> QED
  BY <1>0, <1>5, <1>6 DEF Reported, Rooted, Succeeded

LEMMA NextJoins ==
    ASSUME WaveInv, [Next]_vars
    PROVE  JoinStep
<1> USE DEF WaveInv
<1>0. loop \in Loops /\ {} \in SUBSET Nodes /\ loop.wave \in SUBSET Nodes
  BY WaveFinite DEF WaveTypeOK
<1>1. CASE EndFanOut
  BY <1>1, FanOutJoins
<1>2. CASE EndSingle \/ RunSync
  <2>1. loop.wave = {} \/ \E n \in Nodes : loop.wave = {n}
    BY <1>2 DEF EndSingle, RunSync, Barrier
  <2> QED
    BY <2>1, SmallWave DEF JoinStep
<1>3. CASE \/ WaveCancelled \/ FinalizeWave \/ BeginFanOut
           \/ BeginSingle \/ WaveTimeout \/ TimeLimit \/ CutOff \/ UNCHANGED loop
           \/ \E n \in Nodes : BreakWaveStep(n)
  <2>1. loop'.wave \subseteq loop.wave
    <3>1. ASSUME NEW s \in Results, EndWith(s) PROVE loop'.wave = {}
      BY <1>0, <3>1, EndForms
    <3>2. ASSUME NEW pc \in {"done", "drain", "cut", "left"}, NEW w \in {{}, loop.wave},
                 loop' = LoopAt(pc, w)
          PROVE  loop'.wave = w
      BY <1>0, <3>2, LoopForms
    <3>3. CASE WaveCancelled
      BY <3>1, <3>3 DEF WaveCancelled, Results
    <3>4. CASE FinalizeWave \/ WaveTimeout \/ CutOff \/ TimeLimit
      BY <3>2, <3>4 DEF FinalizeWave, WaveTimeout, CutOff, TimeLimit
    <3>5. CASE BeginSingle \/ Submit
      BY <1>0, <3>5 DEF BeginSingle, Submit, Loops
    <3>6. CASE BeginFanOut
      BY <3>1, <3>5, <3>6 DEF BeginFanOut, Results
    <3>7. CASE \E n \in Nodes : BreakWaveStep(n)
      BY <3>2, <3>7 DEF BreakWaveStep
    <3> QED
      BY <1>3, <3>3, <3>4, <3>5, <3>6, <3>7
  <2> QED
    BY <2>1 DEF JoinStep
<1> QED
  BY <1>1, <1>2, <1>3
     DEF Next, Loop, WaveStep, SkipWaveStep, StartWaveStep, FinishWaveStep,
         GateWaveStep, StepCreated, Ended, Collect, vars, waveVars

(* An all_success join never starts on a predecessor whose row does not    *)
(* say that it succeeded.                                                  *)
THEOREM JoinsWait == Spec => JoinWaitsForAll
<1>1. JoinStep => \A t \in loop'.wave \ loop.wave :
          LET preds == {n \in loop.wave : t \in Targets(Workflow, n)}
          IN  Cardinality(preds) > 1 /\ Workflow[t].join = "all_success"
              => \A n \in preds :
                    steps[thread[n].order].status \in {"COMPLETED", "SKIPPED"}
  BY DEF JoinStep, Preds, Succeeded
<1> QED
  BY <1>1, NextJoins, WaveInvariant, PTL DEF Spec, JoinWaitsForAll
=============================================================================
