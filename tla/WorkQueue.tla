------------------------------ MODULE WorkQueue ------------------------------
(***************************************************************************)
(* The durable work queue RUNNABLE_STEPS: services/runnable_steps.py       *)
(* behind the facade infra/work_queue.py.                                  *)
(*                                                                         *)
(* There is at most one row per execution step (execution_step is a        *)
(* one-to-one column), so rows is indexed by step.  A row that does not    *)
(* exist has lease "absent"; claimed_until is abstracted to how it         *)
(* compares with now: "free" is NULL, "held" is in the future, "expired"   *)
(* is in the past.                                                         *)
(*                                                                         *)
(* claim_batch is three steps of a claimer: it reads candidate ids without *)
(* a lock, locks those ids with SKIP LOCKED, then updates and commits.     *)
(* cand[c] are the primary keys claimer c read and locked[c] the rows its  *)
(* transaction holds.  A deleted row takes its primary key along: a row    *)
(* created later for the same step has another one, so a deletion also     *)
(* removes the step from every cand.                                       *)
(***************************************************************************)
EXTENDS Naturals, FiniteSets

CONSTANTS
    StepIds,        \* execution steps that may be queued
    Claimers,       \* process_runnable_steps tasks that may run at once
    MaxAttempts,    \* RunnableStep.max_attempts (3)
    Batch           \* batch_size of a claim (5)

ASSUME QueueAssumption ==
    /\ IsFiniteSet(Claimers) /\ Claimers # {}
    /\ MaxAttempts \in Nat \ {0}
    /\ Batch \in Nat \ {0}

VARIABLES rows, cand, locked

queueVars == <<rows, cand, locked>>

Leases == {"absent", "free", "held", "expired"}

NoRow == [attempt |-> 0, lease |-> "absent"]

QueueTypeOK ==
    /\ rows \in [StepIds -> [attempt : Nat, lease : Leases]]
    /\ cand \in [Claimers -> SUBSET StepIds]
    /\ locked \in [Claimers -> SUBSET StepIds]

QueueInit ==
    /\ rows = [s \in StepIds |-> NoRow]
    /\ cand = [c \in Claimers |-> {}]
    /\ locked = [c \in Claimers |-> {}]

Queued(s) == rows[s].lease # "absent"

AllLocked == UNION {locked[c] : c \in Claimers}

(* Faults: the candidate query with the limit off by one, or blind to      *)
(* leases that have expired.                                               *)
ClaimableOnceMore(s) ==
    rows[s].lease \in {"free", "expired"} /\ rows[s].attempt <= MaxAttempts
ClaimableFreeOnly(s) == rows[s].lease = "free" /\ rows[s].attempt < MaxAttempts

(* The filter of the unlocked candidate query.                             *)
Claimable(s) ==
    /\ rows[s].lease \in {"free", "expired"}
    /\ rows[s].attempt < MaxAttempts
-----------------------------------------------------------------------------
(* One transaction outside the queue's own module deletes rows and gets or *)
(* creates others.  A DELETE waits for the row locks of an uncommitted     *)
(* claim.                                                                  *)
Post(gone, added) ==
    /\ gone \cap added = {}
    /\ gone \cap AllLocked = {}
    /\ rows' = [s \in StepIds |->
                  IF s \in gone THEN NoRow
                  ELSE IF s \in added /\ ~Queued(s)
                       THEN [attempt |-> 0, lease |-> "free"]
                  ELSE rows[s]]
    /\ cand' = [c \in Claimers |-> cand[c] \ gone]
    /\ UNCHANGED locked

(* enqueue                                                                 *)
EnqueueRow(s) == Post({}, {s})

(* delete, and delete_for_execution with all the steps of the execution.   *)
DeleteRows(S) == Post(S, {})

(* claim_batch, candidate ids: at most Batch of the claimable rows.  The   *)
(* priority is always 0 and the age that breaks ties is left open.         *)
ClaimSelect(c) ==
    LET free == {s \in StepIds : Claimable(s)}
    IN  /\ cand[c] = {}
        /\ \E ids \in SUBSET free :
              /\ ids # {}
              /\ Cardinality(ids) <= Batch
              /\ Cardinality(ids) < Batch => ids = free
              /\ cand' = [cand EXCEPT ![c] = ids]
        /\ UNCHANGED <<rows, locked>>

(* claim_batch, SELECT ... WHERE id IN candidates FOR UPDATE SKIP LOCKED.  *)
(* Neither the lease nor the attempts are looked at again.                 *)
ClaimLock(c) ==
    LET batch == {s \in cand[c] : Queued(s) /\ s \notin AllLocked}
    IN  /\ cand[c] # {}
        /\ locked[c] = {}
        /\ cand' = [cand EXCEPT ![c] = batch]
        /\ locked' = [locked EXCEPT ![c] = batch]
        /\ UNCHANGED rows

(* Fault: the attempts are only counted when a task starts.                *)
ClaimCommitUncounted(c) ==
    /\ locked[c] # {}
    /\ rows' = [s \in StepIds |->
                  IF s \in locked[c] THEN [rows[s] EXCEPT !.lease = "held"]
                  ELSE rows[s]]
    /\ cand' = [cand EXCEPT ![c] = {}]
    /\ locked' = [locked EXCEPT ![c] = {}]

(* claim_batch, the UPDATE of the locked rows and the commit.              *)
ClaimCommit(c) ==
    /\ locked[c] # {}
    /\ rows' = [s \in StepIds |->
                  IF s \in locked[c]
                  THEN [attempt |-> rows[s].attempt + 1, lease |-> "held"]
                  ELSE rows[s]]
    /\ cand' = [cand EXCEPT ![c] = {}]
    /\ locked' = [locked EXCEPT ![c] = {}]

(* The claiming task dies before its commit: the transaction rolls back.   *)
ClaimAbort(c) ==
    /\ cand[c] # {}
    /\ cand' = [cand EXCEPT ![c] = {}]
    /\ locked' = [locked EXCEPT ![c] = {}]
    /\ UNCHANGED rows

(* Time passes the claimed_until of a row.                                 *)
LeaseExpires(s) ==
    /\ rows[s].lease = "held"
    /\ rows' = [rows EXCEPT ![s].lease = "expired"]
    /\ UNCHANGED <<cand, locked>>

(* reclaim_expired_leases: one UPDATE over every expired row, which waits  *)
(* for the locks on them; the attempts are kept.                           *)
ReclaimExpired ==
    LET late == {s \in StepIds : rows[s].lease = "expired"}
    IN  /\ late # {}
        /\ late \cap AllLocked = {}
        /\ rows' = [s \in StepIds |->
                      IF s \in late THEN [rows[s] EXCEPT !.lease = "free"]
                      ELSE rows[s]]
        /\ UNCHANGED <<cand, locked>>
-----------------------------------------------------------------------------
QueueNext ==
    \/ \E gone, added \in SUBSET StepIds : Post(gone, added)
    \/ \E s \in StepIds : LeaseExpires(s)
    \/ \E c \in Claimers :
          ClaimSelect(c) \/ ClaimLock(c) \/ ClaimCommit(c) \/ ClaimAbort(c)
    \/ ReclaimExpired

QueueSpec == QueueInit /\ [][QueueNext]_queueVars

(* The beat entry runs a claim every five seconds and leases are finite;   *)
(* nobody is obliged to enqueue, delete or abort.  Any one claim may die,  *)
(* but it is not always the claims of the same row that die.               *)
QueueFairness ==
    /\ \A s \in StepIds : WF_queueVars(LeaseExpires(s))
    /\ \A c \in Claimers :
          /\ WF_queueVars(ClaimSelect(c))
          /\ \A s \in StepIds :
                /\ SF_queueVars(s \in cand[c] /\ ClaimLock(c))
                /\ SF_queueVars(s \in locked[c] /\ ClaimCommit(c))

FairQueueSpec == QueueSpec /\ QueueFairness
-----------------------------------------------------------------------------
(* The attempt limit holds up to the claimers in flight: each claimer that *)
(* read the row before the last counted attempt may still claim it once,   *)
(* because claim_batch does not repeat the filter under the lock.  So a    *)
(* row is claimed at most MaxAttempts - 1 + |Claimers| times, and exactly  *)
(* MaxAttempts times when claims never overlap.                            *)
AttemptsBounded ==
    \A s \in StepIds : rows[s].attempt < MaxAttempts + Cardinality(Claimers)

(* The claimers that may still claim row s.                                *)
Holders(s) == {c \in Claimers : s \in cand[c]}

(* What makes AttemptsBounded inductive: the attempts still to come count. *)
AttemptsAccounted ==
    \A s \in StepIds :
        rows[s].attempt + Cardinality(Holders(s))
            < MaxAttempts + Cardinality(Claimers)

(* SKIP LOCKED: no row is locked by two claims, and only claimed           *)
(* candidates that exist are locked.                                       *)
LocksExclusive ==
    \A c \in Claimers :
        /\ \A s \in locked[c] : Queued(s) /\ s \in cand[c]
        /\ \A d \in Claimers \ {c} : locked[c] \cap locked[d] = {}

(* Attempts accumulate over the whole life of a row: neither the end of a  *)
(* lease nor reclaiming it gives a step its attempts back.                 *)
AttemptsAccumulate ==
    [][\A s \in StepIds :
          Queued(s) /\ Queued(s)' => rows'[s].attempt >= rows[s].attempt]_queueVars

(* No row is stuck behind a dead claimer: it is removed by whoever ran it, *)
(* or it is claimed again until its attempts are used up.                  *)
QueueDrains ==
    \A s \in StepIds :
        Queued(s) ~> ~Queued(s) \/ rows[s].attempt >= MaxAttempts
=============================================================================
