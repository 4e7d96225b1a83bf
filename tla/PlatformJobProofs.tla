------------------------- MODULE PlatformJobProofs --------------------------
(***************************************************************************)
(* NoFalseSuccess for every number of polling chains and retries and every *)
(* set of faults.                                                          *)
(***************************************************************************)
EXTENDS PlatformJob, TLAPS

(* Whoever holds a copy of the step, or an answer of the platform, that    *)
(* says COMPLETED can only have it from a job that succeeded.              *)
CopiesTrue ==
    /\ trig.mem.status = "COMPLETED" => job = "ok"
    /\ \A p \in Polls :
          "COMPLETED" \in {polls[p].mem.status, polls[p].seen} => job = "ok"
    /\ waiter.saw = "COMPLETED" => job = "ok"
    /\ "ok" \in hooks => job = "ok"

(* There is no job before the trigger calls for one, which it does once;   *)
(* an id or a poll exists only after that.                                 *)
CalledOnce ==
    /\ waiter.pc \in {"create", "run", "send"} => trig.pc = "off"
    /\ trig.pc \in {"off", "sent", "loaded"} => job = "none"
    /\ trig.pc \in {"called", "saved"} \/ step.id \/ trig.mem.id => job # "none"
    /\ \A p \in Polls : polls[p].pc # "off" \/ polls[p].mem.id => job # "none"

(* Between its last write and its answer only the trigger can write over   *)
(* what the executor wrote, and a chain that gives up over that.           *)
WrittenHolds ==
    waiter.pc = "back" => exec \in {"COMPLETED", "FAILED", "INTEGRATION_ERROR"}

JobInv ==
    JobTypeOK /\ NoFalseSuccess /\ CopiesTrue /\ CalledOnce /\ WrittenHolds

(* A chain between two polls holds nothing of the job.                     *)
LEMMA FreshChain ==
    ASSUME NEW s \in {"off", "ask", "next"}, NEW n \in 0 .. MaxRetries,
           NEW c \in BOOLEAN
    PROVE  /\ Chain(s, n, c) \in Chains /\ Chain(s, n, c).pc = s
           /\ Chain(s, n, c).mem.status = "none" /\ ~Chain(s, n, c).mem.id
           /\ Chain(s, n, c).seen = "SUBMITTED"
           /\ Chain(s, n, c).retry = n /\ Chain(s, n, c).complete = c
BY DEF Chain, NoStep, Chains, StepRows

LEMMA NoRetries == 0 \in 0 .. MaxRetries
BY RetriesAssumption

LEMMA InitHolds == Init => JobInv
<1> SUFFICES ASSUME Init PROVE JobInv
  OBVIOUS
<1>1. NoStep \in StepRows /\ NoStep.status = "none" /\ ~NoStep.id
  BY DEF NoStep, StepRows
<1>2. /\ NoPoll \in Chains /\ NoPoll.pc = "off" /\ NoPoll.mem = NoStep
      /\ NoPoll.seen = "SUBMITTED"
  BY FreshChain, NoRetries DEF NoPoll, Chain
<1>3. JobTypeOK
  BY <1>1, <1>2 DEF Init, JobTypeOK, ExecStatuses, Waiters, Triggers
<1> QED
  BY <1>1, <1>2, <1>3
     DEF Init, JobInv, NoFalseSuccess, CopiesTrue, CalledOnce, WrittenHolds
-----------------------------------------------------------------------------
(* The executor. *)
LEMMA WaiterKeeps ==
    ASSUME JobInv,
           \/ WaiterCreates \/ WaiterRuns \/ WaiterSends \/ WaiterSees
           \/ WaiterTimesOut \/ WaiterRefreshes \/ WaiterWrites
           \/ WaiterAnswers \/ WaiterRaises
    PROVE  JobInv'
<1> USE RetriesAssumption DEF JobInv, Final, StepEnded, ExecStatuses
<1>1. CASE WaiterCreates
  <2>1. JobTypeOK'
    BY <1>1
       DEF WaiterCreates, JobTypeOK, StepRows, Waiters, Triggers, Chains,
           NoStep, Chain, JobRunning, JobEnded
  <2>2. NoFalseSuccess' /\ WrittenHolds'
    BY <1>1
       DEF WaiterCreates, JobTypeOK, NoFalseSuccess, WrittenHolds, CopiesTrue,
           CalledOnce, StepRows, Waiters, Triggers, NoStep, Answer
  <2>3. CopiesTrue'
    BY <1>1
       DEF WaiterCreates, JobTypeOK, NoFalseSuccess, CopiesTrue, CalledOnce,
           StepRows, Waiters, Triggers, Chains, NoStep, Chain, Answer
  <2>4. CalledOnce'
    BY <1>1
       DEF WaiterCreates, JobTypeOK, CalledOnce, StepRows, Waiters, Triggers,
           Chains, NoStep, Chain
  <2> QED
    BY <2>1, <2>2, <2>3, <2>4
<1>2. CASE WaiterRuns
  <2>1. JobTypeOK'
    BY <1>2
       DEF WaiterRuns, JobTypeOK, StepRows, Waiters, Triggers, Chains,
           NoStep, Chain, JobRunning, JobEnded
  <2>2. NoFalseSuccess' /\ WrittenHolds'
    BY <1>2
       DEF WaiterRuns, JobTypeOK, NoFalseSuccess, WrittenHolds, CopiesTrue,
           CalledOnce, StepRows, Waiters, Triggers, NoStep, Answer
  <2>3. CopiesTrue'
    BY <1>2
       DEF WaiterRuns, JobTypeOK, NoFalseSuccess, CopiesTrue, CalledOnce,
           StepRows, Waiters, Triggers, Chains, NoStep, Chain, Answer
  <2>4. CalledOnce'
    BY <1>2
       DEF WaiterRuns, JobTypeOK, CalledOnce, StepRows, Waiters, Triggers,
           Chains, NoStep, Chain
  <2> QED
    BY <2>1, <2>2, <2>3, <2>4
<1>3. CASE WaiterSends
  <2>1. JobTypeOK'
    BY <1>3
       DEF WaiterSends, JobTypeOK, StepRows, Waiters, Triggers, Chains,
           NoStep, Chain, JobRunning, JobEnded
  <2>2. NoFalseSuccess' /\ WrittenHolds'
    BY <1>3
       DEF WaiterSends, JobTypeOK, NoFalseSuccess, WrittenHolds, CopiesTrue,
           CalledOnce, StepRows, Waiters, Triggers, NoStep, Answer
  <2>3. CopiesTrue'
    BY <1>3
       DEF WaiterSends, JobTypeOK, NoFalseSuccess, CopiesTrue, CalledOnce,
           StepRows, Waiters, Triggers, Chains, NoStep, Chain, Answer
  <2>4. CalledOnce'
    BY <1>3
       DEF WaiterSends, JobTypeOK, CalledOnce, StepRows, Waiters, Triggers,
           Chains, NoStep, Chain
  <2> QED
    BY <2>1, <2>2, <2>3, <2>4
<1>4. CASE WaiterSees
  <2>1. JobTypeOK'
    <3>1. step.status \in {"none", "RUNNING"} \cup StepEnded
      BY DEF JobTypeOK, StepRows
    <3>2. waiter' \in Waiters
      BY <1>4, <3>1 DEF WaiterSees, JobTypeOK, Waiters
    <3> QED
      BY <1>4, <3>2 DEF WaiterSees, JobTypeOK
  <2>2. NoFalseSuccess' /\ WrittenHolds'
    BY <1>4
       DEF WaiterSees, JobTypeOK, NoFalseSuccess, WrittenHolds, CopiesTrue,
           CalledOnce, StepRows, Waiters, Triggers, NoStep, Answer
  <2>3. CopiesTrue'
    BY <1>4
       DEF WaiterSees, JobTypeOK, NoFalseSuccess, CopiesTrue, CalledOnce,
           StepRows, Waiters, Triggers, Chains, NoStep, Chain, Answer
  <2>4. CalledOnce'
    BY <1>4
       DEF WaiterSees, JobTypeOK, CalledOnce, StepRows, Waiters, Triggers,
           Chains, NoStep, Chain
  <2> QED
    BY <2>1, <2>2, <2>3, <2>4
<1>5. CASE WaiterTimesOut
  <2>1. JobTypeOK'
    BY <1>5
       DEF WaiterTimesOut, JobTypeOK, StepRows, Waiters, Triggers, Chains,
           NoStep, Chain, JobRunning, JobEnded
  <2>2. NoFalseSuccess' /\ WrittenHolds'
    BY <1>5
       DEF WaiterTimesOut, JobTypeOK, NoFalseSuccess, WrittenHolds, CopiesTrue,
           CalledOnce, StepRows, Waiters, Triggers, NoStep, Answer
  <2>3. CopiesTrue'
    BY <1>5
       DEF WaiterTimesOut, JobTypeOK, NoFalseSuccess, CopiesTrue, CalledOnce,
           StepRows, Waiters, Triggers, Chains, NoStep, Chain, Answer
  <2>4. CalledOnce'
    BY <1>5
       DEF WaiterTimesOut, JobTypeOK, CalledOnce, StepRows, Waiters,
           Triggers, Chains, NoStep, Chain
  <2> QED
    BY <2>1, <2>2, <2>3, <2>4
<1>6. CASE WaiterRefreshes
  <2>1. JobTypeOK'
    <3>1. step.status \in {"none", "RUNNING"} \cup StepEnded
      BY DEF JobTypeOK, StepRows
    <3>2. waiter' \in Waiters
      BY <1>6, <3>1 DEF WaiterRefreshes, JobTypeOK, Waiters
    <3> QED
      BY <1>6, <3>2 DEF WaiterRefreshes, JobTypeOK
  <2>2. NoFalseSuccess' /\ WrittenHolds'
    BY <1>6
       DEF WaiterRefreshes, JobTypeOK, NoFalseSuccess, WrittenHolds, CopiesTrue,
           CalledOnce, StepRows, Waiters, Triggers, NoStep, Answer
  <2>3. CopiesTrue'
    BY <1>6
       DEF WaiterRefreshes, JobTypeOK, NoFalseSuccess, CopiesTrue, CalledOnce,
           StepRows, Waiters, Triggers, Chains, NoStep, Chain, Answer
  <2>4. CalledOnce'
    BY <1>6
       DEF WaiterRefreshes, JobTypeOK, CalledOnce, StepRows, Waiters,
           Triggers, Chains, NoStep, Chain
  <2> QED
    BY <2>1, <2>2, <2>3, <2>4
<1>7. CASE WaiterWrites
  <2>1. JobTypeOK'
    <3>1. step.status \in {"none", "RUNNING"} \cup StepEnded
      BY DEF JobTypeOK, StepRows
    <3>2. waiter' \in Waiters
      BY <1>7, <3>1 DEF WaiterWrites, JobTypeOK, Waiters
    <3> QED
      BY <1>7, <3>2 DEF WaiterWrites, JobTypeOK
  <2>2. NoFalseSuccess' /\ WrittenHolds'
    BY <1>7
       DEF WaiterWrites, JobTypeOK, NoFalseSuccess, WrittenHolds, CopiesTrue,
           CalledOnce, StepRows, Waiters, Triggers, NoStep, Answer
  <2>3. CopiesTrue'
    BY <1>7
       DEF WaiterWrites, JobTypeOK, NoFalseSuccess, CopiesTrue, CalledOnce,
           StepRows, Waiters, Triggers, Chains, NoStep, Chain, Answer
  <2>4. CalledOnce'
    BY <1>7
       DEF WaiterWrites, JobTypeOK, CalledOnce, StepRows, Waiters, Triggers,
           Chains, NoStep, Chain
  <2> QED
    BY <2>1, <2>2, <2>3, <2>4
<1>8. CASE WaiterAnswers
  <2>1. JobTypeOK'
    <3>2. waiter' \in Waiters
      <4>1. PICK v \in StepEnded : Answer(v, exec)
        BY <1>8 DEF WaiterAnswers
      <4> QED
        BY <4>1 DEF Answer, JobTypeOK, Waiters
    <3> QED
      BY <1>8, <3>2 DEF WaiterAnswers, Answer, JobTypeOK
  <2>2. NoFalseSuccess' /\ WrittenHolds'
    BY <1>8
       DEF WaiterAnswers, JobTypeOK, NoFalseSuccess, WrittenHolds, CopiesTrue,
           CalledOnce, StepRows, Waiters, Triggers, NoStep, Answer
  <2>3. CopiesTrue'
    BY <1>8
       DEF WaiterAnswers, JobTypeOK, NoFalseSuccess, CopiesTrue, CalledOnce,
           StepRows, Waiters, Triggers, Chains, NoStep, Chain, Answer
  <2>4. CalledOnce'
    BY <1>8
       DEF WaiterAnswers, Answer, JobTypeOK, CalledOnce, StepRows, Waiters, Triggers,
           Chains, NoStep, Chain
  <2> QED
    BY <2>1, <2>2, <2>3, <2>4
<1>9. CASE WaiterRaises
  <2>1. JobTypeOK'
    <3>1. step.status \in {"none", "RUNNING"} \cup StepEnded
      BY DEF JobTypeOK, StepRows
    <3>2. waiter' \in Waiters
      BY <1>9, <3>1 DEF WaiterRaises, Answer, JobTypeOK, Waiters
    <3> QED
      BY <1>9, <3>2 DEF WaiterRaises, Answer, JobTypeOK
  <2>2. NoFalseSuccess' /\ WrittenHolds'
    BY <1>9
       DEF WaiterRaises, JobTypeOK, NoFalseSuccess, WrittenHolds, CopiesTrue,
           CalledOnce, StepRows, Waiters, Triggers, NoStep, Answer
  <2>3. CopiesTrue'
    BY <1>9
       DEF WaiterRaises, JobTypeOK, NoFalseSuccess, CopiesTrue, CalledOnce,
           StepRows, Waiters, Triggers, Chains, NoStep, Chain, Answer
  <2>4. CalledOnce'
    BY <1>9
       DEF WaiterRaises, Answer, JobTypeOK, CalledOnce, StepRows, Waiters, Triggers,
           Chains, NoStep, Chain
  <2> QED
    BY <2>1, <2>2, <2>3, <2>4
<1> QED
  BY <1>1, <1>2, <1>3, <1>4, <1>5, <1>6, <1>7, <1>8, <1>9

(* The trigger task. *)
LEMMA TriggerKeeps ==
    ASSUME JobInv,
           \/ TriggerLoads \/ TriggerCalls \/ TriggerSaves \/ TriggerPolls
           \/ TriggerFails \/ TriggerReadsExec \/ TriggerWritesExec
           \/ TriggerCrash
    PROVE  JobInv'
<1> USE RetriesAssumption DEF JobInv, Final, StepEnded, ExecStatuses
<1>1. CASE TriggerLoads
  <2>1. JobTypeOK'
    BY <1>1
       DEF TriggerLoads, JobTypeOK, StepRows, Waiters, Triggers, Chains,
           NoStep, Chain, JobRunning, JobEnded
  <2>2. NoFalseSuccess' /\ WrittenHolds'
    BY <1>1
       DEF TriggerLoads, JobTypeOK, NoFalseSuccess, WrittenHolds, CopiesTrue,
           CalledOnce, StepRows, Waiters, Triggers, NoStep, Answer
  <2>3. CopiesTrue'
    BY <1>1
       DEF TriggerLoads, JobTypeOK, NoFalseSuccess, CopiesTrue, CalledOnce,
           StepRows, Waiters, Triggers, Chains, NoStep, Chain, Answer
  <2>4. CalledOnce'
    BY <1>1
       DEF TriggerLoads, JobTypeOK, CalledOnce, StepRows, Waiters, Triggers,
           Chains, NoStep, Chain
  <2> QED
    BY <2>1, <2>2, <2>3, <2>4
<1>2. CASE TriggerCalls
  <2>1. /\ trig.pc = "loaded" /\ trig \in Triggers /\ job' = "queued"
        /\ \/ trig' = [trig EXCEPT !.pc = "called"]
           \/ trig' = [pc |-> "done", mem |-> NoStep]
        /\ UNCHANGED <<exec, step, waiter, polls, hooks, cancel>>
    BY <1>2 DEF TriggerCalls, JobTypeOK
  <2>2. /\ trig' \in Triggers /\ trig'.pc \in {"called", "done"}
        /\ trig'.mem \in {trig.mem, NoStep} /\ NoStep.status = "none"
        /\ ~NoStep.id
    <3>1. NoStep \in StepRows /\ NoStep.status = "none" /\ ~NoStep.id
      BY DEF NoStep, StepRows
    <3>2. CASE trig' = [trig EXCEPT !.pc = "called"]
      BY <2>1, <3>1, <3>2 DEF Triggers
    <3>3. CASE trig' = [pc |-> "done", mem |-> NoStep]
      BY <3>1, <3>3 DEF Triggers
    <3> QED
      BY <2>1, <3>2, <3>3
  <2>3. job = "none"
    BY <2>1 DEF CalledOnce
  <2>4. JobTypeOK'
    BY <2>1, <2>2 DEF JobTypeOK, JobRunning
  <2>5. NoFalseSuccess' /\ CopiesTrue' /\ WrittenHolds'
    BY <2>1, <2>2, <2>3 DEF NoFalseSuccess, CopiesTrue, WrittenHolds
  <2>6. CalledOnce'
    BY <2>1, <2>2 DEF CalledOnce
  <2> QED
    BY <2>4, <2>5, <2>6
<1>3. CASE TriggerSaves
  <2>1. JobTypeOK'
    <3>1. trig.mem \in StepRows
      BY DEF JobTypeOK, Triggers
    <3>2. [trig.mem EXCEPT !.id = TRUE] \in StepRows
      BY <3>1 DEF StepRows
    <3>3. step' \in StepRows /\ trig' \in Triggers
      BY <1>3, <3>2 DEF TriggerSaves, Triggers
    <3> QED
      BY <1>3, <3>3 DEF TriggerSaves, JobTypeOK
  <2>2. NoFalseSuccess' /\ WrittenHolds'
    BY <1>3
       DEF TriggerSaves, JobTypeOK, NoFalseSuccess, WrittenHolds, CopiesTrue,
           CalledOnce, StepRows, Waiters, Triggers, NoStep, Answer
  <2>3. CopiesTrue'
    BY <1>3
       DEF TriggerSaves, JobTypeOK, NoFalseSuccess, CopiesTrue, CalledOnce,
           StepRows, Waiters, Triggers, Chains, NoStep, Chain, Answer
  <2>4. CalledOnce'
    BY <1>3
       DEF TriggerSaves, JobTypeOK, CalledOnce, StepRows, Waiters, Triggers,
           Chains, NoStep, Chain
  <2> QED
    BY <2>1, <2>2, <2>3, <2>4
<1>4. CASE TriggerPolls
  <2>1. JobTypeOK'
    <3>1. NoStep \in StepRows
      BY DEF NoStep, StepRows
    <3>2. Chain("ask", 0, FALSE) \in Chains
      BY FreshChain, NoRetries
    <3>3. trig' \in Triggers
      BY <1>4, <3>1 DEF TriggerPolls, Triggers
    <3> QED
      BY <1>4, <3>2, <3>3 DEF TriggerPolls, JobTypeOK
  <2>2. NoFalseSuccess' /\ WrittenHolds'
    BY <1>4
       DEF TriggerPolls, JobTypeOK, NoFalseSuccess, WrittenHolds, CopiesTrue,
           CalledOnce, StepRows, Waiters, Triggers, NoStep, Answer
  <2>3. CopiesTrue'
    BY <1>4
       DEF TriggerPolls, JobTypeOK, NoFalseSuccess, CopiesTrue, CalledOnce,
           StepRows, Waiters, Triggers, Chains, NoStep, Chain, Answer
  <2>4. CalledOnce'
    BY <1>4
       DEF TriggerPolls, JobTypeOK, CalledOnce, StepRows, Waiters, Triggers,
           Chains, NoStep, Chain
  <2> QED
    BY <2>1, <2>2, <2>3, <2>4
<1>5. CASE TriggerFails
  <2>1. JobTypeOK'
    BY <1>5
       DEF TriggerFails, JobTypeOK, StepRows, Waiters, Triggers, Chains,
           NoStep, Chain, JobRunning, JobEnded
  <2>2. NoFalseSuccess' /\ WrittenHolds'
    BY <1>5
       DEF TriggerFails, JobTypeOK, NoFalseSuccess, WrittenHolds, CopiesTrue,
           CalledOnce, StepRows, Waiters, Triggers, NoStep, Answer
  <2>3. CopiesTrue'
    BY <1>5
       DEF TriggerFails, JobTypeOK, NoFalseSuccess, CopiesTrue, CalledOnce,
           StepRows, Waiters, Triggers, Chains, NoStep, Chain, Answer
  <2>4. CalledOnce'
    BY <1>5
       DEF TriggerFails, JobTypeOK, CalledOnce, StepRows, Waiters, Triggers,
           Chains, NoStep, Chain
  <2> QED
    BY <2>1, <2>2, <2>3, <2>4
<1>6. CASE TriggerReadsExec
  <2>1. JobTypeOK'
    BY <1>6
       DEF TriggerReadsExec, JobTypeOK, StepRows, Waiters, Triggers, Chains,
           NoStep, Chain, JobRunning, JobEnded
  <2>2. NoFalseSuccess' /\ WrittenHolds'
    BY <1>6
       DEF TriggerReadsExec, JobTypeOK, NoFalseSuccess, WrittenHolds, CopiesTrue,
           CalledOnce, StepRows, Waiters, Triggers, NoStep, Answer
  <2>3. CopiesTrue'
    BY <1>6
       DEF TriggerReadsExec, JobTypeOK, NoFalseSuccess, CopiesTrue, CalledOnce,
           StepRows, Waiters, Triggers, Chains, NoStep, Chain, Answer
  <2>4. CalledOnce'
    BY <1>6
       DEF TriggerReadsExec, JobTypeOK, CalledOnce, StepRows, Waiters,
           Triggers, Chains, NoStep, Chain
  <2> QED
    BY <2>1, <2>2, <2>3, <2>4
<1>7. CASE TriggerWritesExec
  <2>1. JobTypeOK'
    BY <1>7
       DEF TriggerWritesExec, JobTypeOK, StepRows, Waiters, Triggers, Chains,
           NoStep, Chain, JobRunning, JobEnded
  <2>2. NoFalseSuccess' /\ WrittenHolds'
    BY <1>7
       DEF TriggerWritesExec, JobTypeOK, NoFalseSuccess, WrittenHolds, CopiesTrue,
           CalledOnce, StepRows, Waiters, Triggers, NoStep, Answer
  <2>3. CopiesTrue'
    BY <1>7
       DEF TriggerWritesExec, JobTypeOK, NoFalseSuccess, CopiesTrue, CalledOnce,
           StepRows, Waiters, Triggers, Chains, NoStep, Chain, Answer
  <2>4. CalledOnce'
    BY <1>7
       DEF TriggerWritesExec, JobTypeOK, CalledOnce, StepRows, Waiters,
           Triggers, Chains, NoStep, Chain
  <2> QED
    BY <2>1, <2>2, <2>3, <2>4
<1>8. CASE TriggerCrash
  <2>1. JobTypeOK'
    BY <1>8
       DEF TriggerCrash, JobTypeOK, StepRows, Waiters, Triggers, Chains,
           NoStep, Chain, JobRunning, JobEnded
  <2>2. NoFalseSuccess' /\ WrittenHolds'
    BY <1>8
       DEF TriggerCrash, JobTypeOK, NoFalseSuccess, WrittenHolds, CopiesTrue,
           CalledOnce, StepRows, Waiters, Triggers, NoStep, Answer
  <2>3. CopiesTrue'
    BY <1>8
       DEF TriggerCrash, JobTypeOK, NoFalseSuccess, CopiesTrue, CalledOnce,
           StepRows, Waiters, Triggers, Chains, NoStep, Chain, Answer
  <2>4. CalledOnce'
    BY <1>8
       DEF TriggerCrash, JobTypeOK, CalledOnce, StepRows, Waiters, Triggers,
           Chains, NoStep, Chain
  <2> QED
    BY <2>1, <2>2, <2>3, <2>4
<1> QED
  BY <1>1, <1>2, <1>3, <1>4, <1>5, <1>6, <1>7, <1>8

(* The endpoints. *)
LEMMA CancelKeeps ==
    ASSUME JobInv, CancelParent \/ CancelChild \/ CancelStep
    PROVE  JobInv'
<1> USE RetriesAssumption DEF JobInv, Final, StepEnded, ExecStatuses
<1>1. CASE CancelParent
  <2>1. JobTypeOK'
    BY <1>1
       DEF CancelParent, JobTypeOK, StepRows, Waiters, Triggers, Chains,
           NoStep, Chain, JobRunning, JobEnded
  <2>2. NoFalseSuccess' /\ WrittenHolds'
    BY <1>1
       DEF CancelParent, JobTypeOK, NoFalseSuccess, WrittenHolds, CopiesTrue,
           CalledOnce, StepRows, Waiters, Triggers, NoStep, Answer
  <2>3. CopiesTrue'
    BY <1>1
       DEF CancelParent, JobTypeOK, NoFalseSuccess, CopiesTrue, CalledOnce,
           StepRows, Waiters, Triggers, Chains, NoStep, Chain, Answer
  <2>4. CalledOnce'
    BY <1>1
       DEF CancelParent, JobTypeOK, CalledOnce, StepRows, Waiters, Triggers,
           Chains, NoStep, Chain
  <2> QED
    BY <2>1, <2>2, <2>3, <2>4
<1>2. CASE CancelChild
  <2>1. JobTypeOK'
    BY <1>2
       DEF CancelChild, JobTypeOK, StepRows, Waiters, Triggers, Chains,
           NoStep, Chain, JobRunning, JobEnded
  <2>2. NoFalseSuccess' /\ WrittenHolds'
    BY <1>2
       DEF CancelChild, JobTypeOK, NoFalseSuccess, WrittenHolds, CopiesTrue,
           CalledOnce, StepRows, Waiters, Triggers, NoStep, Answer
  <2>3. CopiesTrue'
    BY <1>2
       DEF CancelChild, JobTypeOK, NoFalseSuccess, CopiesTrue, CalledOnce,
           StepRows, Waiters, Triggers, Chains, NoStep, Chain, Answer
  <2>4. CalledOnce'
    BY <1>2
       DEF CancelChild, JobTypeOK, CalledOnce, StepRows, Waiters, Triggers,
           Chains, NoStep, Chain
  <2> QED
    BY <2>1, <2>2, <2>3, <2>4
<1>3. CASE CancelStep
  <2>1. JobTypeOK'
    BY <1>3
       DEF CancelStep, JobTypeOK, StepRows, Waiters, Triggers, Chains,
           NoStep, Chain, JobRunning, JobEnded
  <2>2. NoFalseSuccess' /\ WrittenHolds'
    BY <1>3
       DEF CancelStep, JobTypeOK, NoFalseSuccess, WrittenHolds, CopiesTrue,
           CalledOnce, StepRows, Waiters, Triggers, NoStep, Answer
  <2>3. CopiesTrue'
    BY <1>3
       DEF CancelStep, JobTypeOK, NoFalseSuccess, CopiesTrue, CalledOnce,
           StepRows, Waiters, Triggers, Chains, NoStep, Chain, Answer
  <2>4. CalledOnce'
    BY <1>3
       DEF CancelStep, JobTypeOK, CalledOnce, StepRows, Waiters, Triggers,
           Chains, NoStep, Chain
  <2> QED
    BY <2>1, <2>2, <2>3, <2>4
<1> QED
  BY <1>1, <1>2, <1>3
-----------------------------------------------------------------------------
(* The statuses the platform and the table of update_status can give.      *)
LEMMA Told ==
    /\ \A j \in JobRunning \cup JobEnded :
          /\ IdpStatus[j] \in {"SUBMITTED", "RUNNING"} \cup Final
          /\ IdpStatus[j] = "COMPLETED" => j = "ok"
    /\ \A s \in ExecStatuses :
          ValidTransitions[s] \subseteq ExecStatuses
BY DEF JobRunning, JobEnded, IdpStatus, Final, ExecStatuses, ValidTransitions

(* update_status writes the status it is given or none.                    *)
LEMMA Updates ==
    ASSUME JobTypeOK, NEW s, UpdateStatus(s)
    PROVE  /\ exec' \in ExecStatuses /\ exec' \in {exec, s}
           /\ WrittenHolds /\ waiter' = waiter => WrittenHolds'
<1>1. exec' \in ExecStatuses /\ exec' \in {exec, s}
  BY Told DEF UpdateStatus, JobTypeOK
<1>2. \A e \in {"COMPLETED", "FAILED", "INTEGRATION_ERROR"} :
         ValidTransitions[e] = {}
  BY DEF ValidTransitions, ExecStatuses
<1>3. ASSUME exec \in {"COMPLETED", "FAILED", "INTEGRATION_ERROR"}
      PROVE  exec' = exec
  BY <1>2, <1>3 DEF UpdateStatus
<1> QED
  BY <1>1, <1>3 DEF WrittenHolds

(* The platform: a job ends once.                                          *)
LEMMA PlatformKeeps ==
    ASSUME JobInv, JobMoves \/ \E h \in hooks : Webhook(h)
    PROVE  JobInv'
<1> USE DEF JobInv
<1>1. CASE JobMoves
  <2>1. /\ job \in JobRunning /\ job # "ok" /\ job' \in {"running"} \cup JobEnded
        /\ job' # "none"
        /\ hooks' \subseteq hooks \cup {job'}
        /\ UNCHANGED <<exec, step, waiter, trig, polls, cancel>>
    BY <1>1 DEF JobMoves, JobRunning, JobEnded
  <2>2. JobTypeOK'
    BY <2>1 DEF JobTypeOK, JobRunning
  <2>3. NoFalseSuccess'
    BY <2>1 DEF NoFalseSuccess
  <2>4. CopiesTrue'
    BY <2>1 DEF CopiesTrue
  <2>5. CalledOnce' /\ WrittenHolds'
    BY <2>1 DEF CalledOnce, JobRunning, WrittenHolds
  <2> QED
    BY <2>2, <2>3, <2>4, <2>5
<1>2. ASSUME NEW h \in hooks, Webhook(h) PROVE JobInv'
  <2>1. /\ hooks' \subseteq hooks /\ h \in JobRunning \cup JobEnded
        /\ UNCHANGED <<step, waiter, trig, job, polls, cancel>>
    BY <1>2 DEF Webhook, JobTypeOK, JobRunning
  <2>2. /\ exec' \in ExecStatuses /\ exec' \in {exec, IdpStatus[h]}
        /\ WrittenHolds'
    BY <1>2, <2>1, Updates DEF Webhook, JobTypeOK, WrittenHolds
  <2>3. JobTypeOK'
    BY <2>1, <2>2 DEF JobTypeOK
  <2>4. NoFalseSuccess'
    BY <2>1, <2>2, Told DEF NoFalseSuccess, CopiesTrue
  <2>5. CopiesTrue' /\ CalledOnce'
    BY <2>1 DEF CopiesTrue, CalledOnce
  <2> QED
    BY <2>2, <2>3, <2>4, <2>5
<1> QED
  BY <1>1, <1>2

(* One chain changes, and its copies stay true.                            *)
LEMMA ChainChanges ==
    ASSUME JobInv, NEW p \in Polls, NEW x \in Chains,
           polls' = [polls EXCEPT ![p] = x],
           "COMPLETED" \in {x.mem.status, x.seen} => job = "ok",
           x.pc # "off" \/ x.mem.id => job # "none",
           exec' \in ExecStatuses, exec' = "COMPLETED" => job = "ok",
           WrittenHolds',
           step' \in StepRows, step'.status = "COMPLETED" => job = "ok",
           step'.id => job # "none",
           UNCHANGED <<waiter, trig, job, hooks, cancel>>
    PROVE  JobInv'
<1> USE DEF JobInv
<1>1. polls' \in [Polls -> Chains] /\ polls'[p] = x
  BY DEF JobTypeOK
<1>2. \A q \in Polls \ {p} : polls'[q] = polls[q]
  BY DEF JobTypeOK
<1>3. JobTypeOK'
  BY <1>1 DEF JobTypeOK
<1>4. NoFalseSuccess'
  BY DEF NoFalseSuccess
<1>5. CopiesTrue'
  BY <1>1, <1>2 DEF CopiesTrue
<1>6. CalledOnce'
  BY <1>1, <1>2 DEF CalledOnce
<1> QED
  BY <1>3, <1>4, <1>5, <1>6

(* What holds of a chain before its step.                                  *)
LEMMA ChainParts ==
    ASSUME JobInv, NEW p \in Polls
    PROVE  /\ polls[p] \in Chains
           /\ polls[p].mem \in StepRows
           /\ polls[p].retry \in 0 .. MaxRetries
           /\ polls[p].complete \in BOOLEAN
           /\ polls[p].seen \in {"SUBMITTED", "RUNNING"} \cup Final
           /\ "COMPLETED" \in {polls[p].mem.status, polls[p].seen} => job = "ok"
           /\ polls[p].pc # "off" \/ polls[p].mem.id => job # "none"
           /\ exec \in ExecStatuses /\ step \in StepRows
           /\ "COMPLETED" \in {exec, step.status} => job = "ok"
           /\ step.id => job # "none"
<1>1. polls[p] \in Chains
  BY DEF JobInv, JobTypeOK
<1>2. /\ polls[p].mem \in StepRows
      /\ polls[p].retry \in 0 .. MaxRetries
      /\ polls[p].complete \in BOOLEAN
      /\ polls[p].seen \in {"SUBMITTED", "RUNNING"} \cup Final
  BY <1>1 DEF Chains
<1> QED
  BY <1>1, <1>2 DEF JobInv, JobTypeOK, NoFalseSuccess, CopiesTrue, CalledOnce

(* One poll: a chain reads the job, writes the execution and then the copy *)
(* of the step.                                                            *)
LEMMA PollKeeps ==
    ASSUME JobInv, NEW p \in Polls,
           Poll(p) \/ PollFails(p) \/ PollCrash(p) \/ Reattach(p)
    PROVE  JobInv'
<1>a. PICK c \in Chains : c = polls[p]
  BY ChainParts
<1>0. /\ c = polls[p] /\ c.mem \in StepRows /\ c.retry \in 0 .. MaxRetries
      /\ c.complete \in BOOLEAN
      /\ c.seen \in {"SUBMITTED", "RUNNING"} \cup Final
      /\ "COMPLETED" \in {c.mem.status, c.seen} => job = "ok"
      /\ c.pc # "off" \/ c.mem.id => job # "none"
      /\ exec \in ExecStatuses /\ step \in StepRows
      /\ "COMPLETED" \in {exec, step.status} => job = "ok"
      /\ step.id => job # "none"
  BY <1>a, ChainParts
<1>b. exec' = exec /\ waiter' = waiter => WrittenHolds'
  BY DEF JobInv, WrittenHolds
<1>1. CASE PollAsks(p)
  <2>1. job \in JobRunning \cup JobEnded /\ job # "none"
    BY <1>0, <1>1 DEF PollAsks, JobInv, JobTypeOK, JobRunning, JobEnded
  <2>2. PICK s \in {"SUBMITTED", "RUNNING"} \cup Final :
           s = IdpStatus[job] /\ (s = "COMPLETED" => job = "ok")
    BY <2>1, Told
  <2> DEFINE x == [c EXCEPT !.pc = "logs", !.seen = s]
  <2>3. x \in Chains /\ x.mem = c.mem /\ x.seen = s
    BY DEF Chains
  <2>4. polls' = [polls EXCEPT ![p] = x] /\ UNCHANGED <<exec, step, waiter,
  trig, job, hooks, cancel>>
    BY <1>0, <1>1, <2>2 DEF PollAsks, Chains
  <2> HIDE DEF x
  <2> QED
    BY <1>0, <1>b, <2>1, <2>2, <2>3, <2>4, ChainChanges
<1>2. CASE PollLogs(p)
  <2>0. PICK b \in BOOLEAN : b = (job \in JobEnded)
    <3>1. (job \in JobEnded) \in BOOLEAN
      OBVIOUS
    <3> WITNESS (job \in JobEnded) \in BOOLEAN
    <3> QED
      OBVIOUS
  <2> DEFINE x == [c EXCEPT !.pc = "exec", !.complete = b]
  <2>1. x \in Chains /\ x.mem = c.mem /\ x.seen = c.seen
    BY DEF Chains
  <2>2. polls' = [polls EXCEPT ![p] = x] /\ UNCHANGED <<exec, step, waiter,
  trig, job, hooks, cancel>>
    BY <1>0, <1>2, <2>0 DEF PollLogs, Chains
  <2>3. c.pc # "off"
    BY <1>0, <1>2 DEF PollLogs
  <2> HIDE DEF x
  <2> QED
    BY <1>0, <1>b, <2>1, <2>2, <2>3, ChainChanges
<1>3. CASE PollUpdatesExec(p)
  <2> DEFINE x == [c EXCEPT !.pc = "step"]
  <2>1. x \in Chains /\ x.mem = c.mem /\ x.seen = c.seen
    BY DEF Chains
  <2>2. polls' = [polls EXCEPT ![p] = x] /\ UNCHANGED <<step, waiter, trig,
  job, hooks, cancel>>
    BY <1>0, <1>3 DEF PollUpdatesExec
  <2>3. /\ exec' \in ExecStatuses /\ exec' \in {exec, c.seen}
        /\ WrittenHolds'
    BY <1>0, <1>3, <2>2, Updates DEF PollUpdatesExec, JobInv
  <2>4. c.pc # "off"
    BY <1>0, <1>3 DEF PollUpdatesExec
  <2> HIDE DEF x
  <2> QED
    BY <1>0, <1>b, <2>1, <2>2, <2>3, <2>4, ChainChanges
<1>4. CASE PollReadsStep(p) /\ step.id
  <2> DEFINE x == [c EXCEPT !.pc = "save", !.mem = step]
  <2>1. x \in Chains /\ x.mem = step /\ x.seen = c.seen
    BY <1>0 DEF Chains
  <2>2. polls' = [polls EXCEPT ![p] = x] /\ UNCHANGED <<exec, step, waiter,
  trig, job, hooks, cancel>>
    BY <1>0, <1>4 DEF PollReadsStep
  <2> HIDE DEF x
  <2> QED
    BY <1>0, <1>b, <1>4, <2>1, <2>2, ChainChanges
<1>5. CASE \/ PollReadsStep(p) /\ ~step.id
           \/ PollEnds(p) \/ PollCrash(p) \/ Reattach(p)
  <2>1. PICK s \in {"off", "ask", "next"}, b \in BOOLEAN :
           /\ polls' = [polls EXCEPT ![p] = Chain(s, 0, b)]
           /\ job # "none"
    BY <1>0, <1>5 DEF PollReadsStep, PollEnds, PollCrash, Reattach, NoPoll
  <2>2. UNCHANGED <<exec, step, waiter, trig, job, hooks, cancel>>
    BY <1>5 DEF PollReadsStep, PollEnds, PollCrash, Reattach
  <2>3. PICK x \in Chains : x = Chain(s, 0,
  b) /\ x.mem.status = "none" /\ x.seen = "SUBMITTED"
    BY FreshChain, NoRetries
  <2> QED
    BY <1>0, <1>b, <2>1, <2>2, <2>3, ChainChanges
<1>6. CASE PollSaves(p)
  <2>1. polls' = [polls EXCEPT ![p] = Chain("next", 0, c.complete)]
    BY <1>0, <1>6 DEF PollSaves
  <2>2. /\ step' \in StepRows /\ step'.id = c.mem.id
        /\ step'.status = "COMPLETED" => "COMPLETED" \in {c.mem.status, c.seen}
    <3>1. \/ step' = c.mem \/ step' = [c.mem EXCEPT !.status = "FAILED"]
          \/ c.seen = "COMPLETED" /\ step' = [c.mem EXCEPT !.status = "COMPLETED"]
      BY <1>0, <1>6 DEF PollSaves
    <3> QED
      BY <1>0, <3>1 DEF StepRows, StepEnded
  <2>3. c.pc # "off" /\ UNCHANGED <<exec, waiter, trig, job, hooks, cancel>>
    BY <1>0, <1>6 DEF PollSaves
  <2>4. PICK x \in Chains : /\ x = Chain("next", 0, c.complete)
                           /\ x.mem.status = "none" /\ x.seen = "SUBMITTED"
    BY <1>0, FreshChain, NoRetries
  <2> QED
    BY <1>0, <1>b, <2>1, <2>2, <2>3, <2>4, ChainChanges
<1>7. CASE PollFails(p)
  <2>1. c.pc # "off" /\ UNCHANGED <<waiter, trig, job, hooks, cancel>>
    BY <1>0, <1>7 DEF PollFails
  <2>2. CASE /\ c.retry < MaxRetries /\ UNCHANGED <<exec, step>>
             /\ polls' = [polls EXCEPT ![p] = Chain("ask", c.retry + 1, FALSE)]
    <3>1. c.retry + 1 \in 0 .. MaxRetries
      BY <1>0, <2>2, RetriesAssumption
    <3>2. PICK x \in Chains : /\ x = Chain("ask", c.retry + 1, FALSE)
                             /\ x.mem.status = "none" /\ x.seen = "SUBMITTED"
      <4>1. \A b \in BOOLEAN, n \in 0 .. MaxRetries :
               LET y == Chain("ask", n, b)
               IN  y \in Chains /\ y.mem.status = "none" /\ y.seen = "SUBMITTED"
        BY FreshChain
      <4>2. FALSE \in BOOLEAN
        OBVIOUS
      <4> QED
        BY <3>1, <4>1, <4>2
    <3> QED
      BY <1>0, <1>b, <2>1, <2>2, <3>2, ChainChanges
  <2>3. CASE Exhausted /\ polls' = [polls EXCEPT ![p] = Chain("off", 0, FALSE)]
    <3>1. /\ exec' \in {exec, "FAILED"} /\ "FAILED" \in ExecStatuses
          /\ WrittenHolds'
      BY <2>1, <2>3 DEF Exhausted, ExecStatuses, JobInv, WrittenHolds
    <3>2. /\ step' \in StepRows /\ step'.id = step.id
          /\ step'.status \in {step.status, "FAILED"}
      BY <1>0, <2>3 DEF Exhausted, StepRows, StepEnded
    <3>3. PICK x \in Chains : /\ x = Chain("off", 0, FALSE)
                             /\ x.mem.status = "none" /\ x.seen = "SUBMITTED"
      <4>1. \A b \in BOOLEAN :
               LET y == Chain("off", 0, b)
               IN  y \in Chains /\ y.mem.status = "none" /\ y.seen = "SUBMITTED"
        BY FreshChain, NoRetries
      <4>2. FALSE \in BOOLEAN
        OBVIOUS
      <4> QED
        BY <4>1, <4>2
    <3> QED
      BY <1>0, <1>b, <2>1, <2>3, <3>1, <3>2, <3>3, ChainChanges
  <2> QED
    BY <1>0, <1>7, <2>2, <2>3 DEF PollFails, NoPoll
<1> QED
  BY <1>1, <1>2, <1>3, <1>4, <1>5, <1>6, <1>7 DEF Poll

LEMMA StepHolds ==
    ASSUME JobInv, [Next]_vars
    PROVE  JobInv'
<1>1. CASE UNCHANGED vars
  BY <1>1 DEF vars, JobInv, JobTypeOK, NoFalseSuccess, WrittenHolds, CopiesTrue, CalledOnce
<1>2. CASE Waiter \/ WaiterRaises
  BY <1>2, WaiterKeeps DEF Waiter
<1>3. CASE Trigger \/ TriggerFails \/ TriggerCrash
  BY <1>3, TriggerKeeps DEF Trigger
<1>4. CASE CancelParent \/ CancelChild \/ CancelStep
  BY <1>4, CancelKeeps
<1> QED
  BY <1>1, <1>2, <1>3, <1>4, PlatformKeeps, PollKeeps DEF Next
-----------------------------------------------------------------------------
(* The inductive invariant holds whatever fails, is killed, cancelled or   *)
(* reported.                                                               *)
THEOREM JobInvariant == JobSpec => []JobInv
<1>1. JobInv /\ [Next]_vars => JobInv'
  BY StepHolds
<1> QED
  BY <1>1, InitHolds, PTL DEF JobSpec

(* The child execution, its step, the job and every copy of them keep      *)
(* their types: whatever is saved over whatever, no row is left with a     *)
(* status that the schema does not have.                                   *)
THEOREM JobTypeCorrect == JobSpec => []JobTypeOK
<1>1. JobInv => JobTypeOK
  BY DEF JobInv
<1> QED
  BY <1>1, JobInvariant, PTL

(* Step, execution and answer are COMPLETED only over a job that           *)
(* succeeded, for any number of chains that poll it, and the step of the   *)
(* parent with the one exception of an INTEGRATION_ERROR that reaches the  *)
(* wave loop.                                                              *)
THEOREM SuccessIsReal == JobSpec => []NoFalseSuccess
<1>1. JobInv => NoFalseSuccess
  BY DEF JobInv
<1> QED
  BY <1>1, JobInvariant, PTL
=============================================================================
